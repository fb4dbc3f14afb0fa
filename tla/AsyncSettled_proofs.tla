------------------------ MODULE AsyncSettled_proofs ------------------------
(***************************************************************************)
(* What the asynchronous client promises to an application that does not   *)
(* connect and disconnect at any moment, for every value of the bounds:    *)
(* first that it connects, waits and reads at one place at a time, then,   *)
(* of an application that only makes commands, that every reply goes to    *)
(* the handler of its own request, and the refinement of RequestReply.     *)
(***************************************************************************)
EXTENDS AsyncClient_proofs

(* Disciplines "idle" and "settled": the application disconnects only from *)
(* outside of the callbacks, and connects when every completion has run.   *)
(* Then the client is at one place at a time: connecting, waiting for a    *)
(* read, or inside of asyncRead's loop.                                    *)

Running  == IF frame \in {"connect", "parse", "handler", "error"} THEN 1 ELSE 0
OnePlace == Len(connectOps) + Len(readOps) + Running <= 1

ConnInv ==
    /\ OnePlace
    /\ state = "Connecting" <=> connectOps # <<>>
    /\ state \in {"Connected", "Subscribed"} => link \in {"up", "dropped"}
    /\ \A i \in DOMAIN connectOps : connectOps[i] = "ok" => link \in {"up", "dropped"}
    /\ frame = "handler" => handlers # <<>>
    /\ frame # "undefined"

LEMMA PlaceTypes ==
    ASSUME TypeOK
    PROVE  Len(connectOps) \in Nat /\ Len(readOps) \in Nat /\ Running \in {0, 1}
BY LenProperties DEF TypeOK, EnvTypeOK, Running

LEMMA NoneOf ==
    ASSUME NEW S, NEW s \in Seq(S)
    PROVE  Len(s) = 0 <=> s = <<>>
BY EmptySeq

LEMMA RemovedAll ==
    ASSUME NEW S, NEW s \in Seq(S), NEW i \in DOMAIN s, Len(s) = 1
    PROVE  RemoveAt(s, i) = <<>>
<1>1. RemoveAt(s, i) \in Seq(S) /\ Len(RemoveAt(s, i)) = 0
  BY RemoveAtType
<1> QED BY <1>1, NoneOf

\* What a step of no consequence for the connection leaves alone.
LEMMA ConnKept ==
    ASSUME ConnInv, UNCHANGED <<connectOps, readOps, frame, link>>,
           handlers' = handlers \/ handlers' # <<>>,
           state' = state \/ (state \in {"Connected", "Subscribed"} /\ state' = "Subscribed")
    PROVE  ConnInv'
BY DEF ConnInv, OnePlace, Running

\* connect of a client for which nothing is under way.
LEMMA ConnectAtRestConn ==
    ASSUME ConnInv, Connect, frame = "none", connectOps = <<>>, readOps = <<>>
    PROVE  ConnInv'
<1>1. UNCHANGED <<frame, readOps, handlers>>
  BY DEF Connect, queueVars
<1>2. CASE UNCHANGED <<state, linkVars, connectOps>>
  BY <1>1, <1>2, ConnKept DEF linkVars
<1>3. CASE state \in {"Unconnected", "Closed"} /\ state' = "Connecting" /\ StartConnect
  <2>1. PICK st \in {"pending", "error"} : connectOps' = Append(connectOps, st)
    BY <1>3 DEF StartConnect
  <2>2. connectOps' = <<st>>
    BY <2>1
  <2>3. Len(connectOps') = 1 /\ Len(readOps') = 0 /\ connectOps' # <<>>
        /\ \A i \in DOMAIN connectOps' : connectOps'[i] = st
    BY <1>1, <2>2
  <2> QED BY <1>1, <1>3, <2>3 DEF ConnInv, OnePlace, Running
<1> QED BY <1>2, <1>3 DEF Connect

LEMMA ConnectConn == TypeOK /\ ConnInv /\ Discipline # "any" /\ Connect => ConnInv'
<1> SUFFICES ASSUME TypeOK, ConnInv, Discipline # "any", Connect PROVE ConnInv'
  OBVIOUS
<1>1. frame = "none" /\ connectOps = <<>> /\ readOps = <<>>
  BY DEF Connect, MayConnect, Idle, Outside
<1> QED BY <1>1, ConnectAtRestConn

LEMMA DisconnectConn == TypeOK /\ ConnInv /\ Discipline # "any" /\ Disconnect => ConnInv'
<1> SUFFICES ASSUME TypeOK, ConnInv, Discipline # "any", Disconnect PROVE ConnInv'
  OBVIOUS
<1>1. frame = "none" /\ connectOps = <<>> /\ frame' = frame /\ state' = "Closed" /\ CloseSocket
  BY DEF Disconnect, MayDisconnect, Settled, Outside, Close, loopVars
<1>2. connectOps' = <<>> /\ Len(connectOps') = 0 /\ Len(connectOps) = 0 /\ DOMAIN connectOps' = {}
  BY <1>1 DEF CloseSocket
<1>3. Len(readOps') = Len(readOps)
  BY CloseSocketType, <1>1 DEF TypeOK, EnvTypeOK, CloseSocket
<1> QED BY <1>1, <1>2, <1>3 DEF ConnInv, OnePlace, Running

LEMMA CallConn ==
    ASSUME TypeOK, ConnInv,
           \/ Command \/ Publish
           \/ \E ch \in Channels : Subscribe(ch) \/ SingleShotSubscribe(ch)
           \/ \E h \in held : Unsubscribe(h)
    PROVE  ConnInv'
<1>1. /\ UNCHANGED <<connectOps, readOps, frame, link, handlers>>
      /\ state' = state \/ (state \in {"Connected", "Subscribed"} /\ state' = "Subscribed")
  BY DEF Command, Publish, Request1, Subscribe, SingleShotSubscribe, Unsubscribe, Subscribable,
         envVars, opVars, linkVars, loopVars
<1> QED BY <1>1, ConnKept

LEMMA HandleConnectConn == TypeOK /\ ConnInv /\ HandleAsyncConnect => ConnInv'
<1> SUFFICES ASSUME TypeOK, ConnInv, HandleAsyncConnect PROVE ConnInv'
  OBVIOUS
<1>1. PICK i \in DOMAIN connectOps :
         /\ connectOps' = RemoveAt(connectOps, i)
         /\ IF connectOps[i] = "ok"
            THEN state' = "Connected" /\ frame' = "connect"
            ELSE state' = "Unconnected" /\ UNCHANGED frame
  BY DEF HandleAsyncConnect
<1>2. frame = "none" /\ UNCHANGED <<readOps, link, handlers>>
  BY DEF HandleAsyncConnect, linkVars, queueVars
<1>3. Len(connectOps) = 1 /\ Len(readOps) = 0
  <2>1. connectOps # <<>> /\ Len(connectOps) # 0
    BY <1>1, NoneOf DEF TypeOK, EnvTypeOK
  <2>2. Len(connectOps) + Len(readOps) + Running <= 1
    BY DEF ConnInv, OnePlace
  <2>3. \A a, b, c \in Nat : a # 0 /\ a + b + c <= 1 => a = 1 /\ b = 0
    OBVIOUS
  <2>4. Running \in Nat
    BY PlaceTypes
  <2> QED BY <2>1, <2>2, <2>3, <2>4, PlaceTypes
<1>4. connectOps' = <<>> /\ Len(connectOps') = 0 /\ DOMAIN connectOps' = {}
  <2>1. connectOps' = <<>>
    BY <1>1, <1>3, RemovedAll DEF TypeOK, EnvTypeOK
  <2> QED BY <2>1
<1>5. connectOps[i] = "ok" => link \in {"up", "dropped"}
  BY DEF ConnInv
<1>6. CASE connectOps[i] = "ok"
  <2>1. state' = "Connected" /\ frame' = "connect" /\ link' \in {"up", "dropped"} /\ Running' = 1
    BY <1>1, <1>2, <1>5, <1>6 DEF Running
  <2> QED BY <1>2, <1>3, <1>4, <2>1 DEF ConnInv, OnePlace
<1>7. CASE connectOps[i] # "ok"
  <2>1. state' = "Unconnected" /\ frame' = "none" /\ Running' = 0
    BY <1>1, <1>2, <1>7 DEF Running
  <2> QED BY <1>2, <1>3, <1>4, <2>1 DEF ConnInv, OnePlace
<1> QED BY <1>6, <1>7

\* processMessage: the place becomes the read.
LEMMA AppendedRead ==
    ASSUME TypeOK
    PROVE  Len(Append(readOps, StartedRead)) = Len(readOps) + 1
BY OpTypes, AppendProperties DEF TypeOK, EnvTypeOK

LEMMA ProcessMessageConn ==
    ASSUME TypeOK, ConnInv, Running = 1, ProcessMessage, UNCHANGED <<state, connectOps, link, handlers>>
    PROVE  ConnInv'
<1>1. Len(readOps') = Len(readOps) + 1 /\ frame' = "none" /\ Running' = 0
  BY AppendedRead DEF ProcessMessage, Running
<1> QED BY <1>1, PlaceTypes DEF ConnInv, OnePlace

LEMMA AsyncReadConn == TypeOK /\ ConnInv /\ AsyncRead => ConnInv'
<1> SUFFICES ASSUME TypeOK, ConnInv, AsyncRead PROVE ConnInv'
  OBVIOUS
<1>1. PICK i \in DOMAIN readOps : readOps' = RemoveAt(readOps, i)
  BY DEF AsyncRead
<1>2. /\ frame = "none" /\ frame' \in {"none", "parse"}
      /\ UNCHANGED <<state, connectOps, link, handlers>>
  BY DEF AsyncRead, linkVars, queueVars
<1>3. Len(readOps') = Len(readOps) - 1
  BY <1>1, RemoveAtType DEF TypeOK, EnvTypeOK
<1>4. Running = 0 /\ Running' \in {0, 1}
  BY <1>2 DEF Running
<1> QED BY <1>2, <1>3, <1>4, PlaceTypes DEF ConnInv, OnePlace

LEMMA ReadLoopConn == TypeOK /\ ConnInv /\ ReadLoop => ConnInv'
<1> SUFFICES ASSUME TypeOK, ConnInv, ReadLoop PROVE ConnInv'
  OBVIOUS
<1>1. CASE ReadAgain
  BY <1>1, ProcessMessageConn DEF ReadAgain, Running, linkVars, queueVars
<1>2. CASE ParseChunk
  <2>1. frame = "parse" /\ UNCHANGED <<state, connectOps, readOps, link, handlers>>
    BY <1>2 DEF ParseChunk, envVars, opVars, linkVars
  <2>2. frame' \in {"parse", "none", "error"} \/ (frame' = "handler" /\ handlers # <<>>)
    <3>1. PICK out \in Parse(Head(rest)) :
             CASE out.result = "Completed" -> rest' = Remains(out.left) /\ DoProcessMessage(out.value)
               [] out.result = "Incompleted" ->
                    /\ rest' = Tail(rest)
                    /\ UNCHANGED <<frame, strand, singleShotMsgHandlers, delivered, reported>>
               [] out.result = "Error" ->
                    /\ rest' = <<>> /\ frame' = "none" /\ Report1("parser")
                    /\ UNCHANGED <<strand, singleShotMsgHandlers, delivered>>
      BY <1>2 DEF ParseChunk
    <3>2. out.result \in {"Completed", "Incompleted", "Error"}
      BY DEF Parse, OutOfStep
    <3>3. CASE out.result = "Completed"
      <4>1. DoProcessMessage(out.value)
        BY <3>1, <3>3
      <4>2. CASE PostMessage(out.value)
        BY <2>1, <4>2 DEF PostMessage
      <4>3. CASE CallFront(out.value)
        BY <4>3 DEF CallFront
      <4>4. CASE Refuse
        BY <4>4 DEF Refuse
      <4> QED BY <4>1, <4>2, <4>3, <4>4 DEF DoProcessMessage
    <3>4. CASE out.result = "Incompleted"
      BY <2>1, <3>1, <3>4
    <3>5. CASE out.result = "Error"
      BY <3>1, <3>5
    <3> QED BY <3>2, <3>3, <3>4, <3>5
  <2>3. Running = 1 /\ Running' \in {0, 1}
    BY <2>1, <2>2 DEF Running
  <2> QED BY <2>1, <2>2, <2>3, PlaceTypes DEF ConnInv, OnePlace
<1>3. CASE HandlerReturns
  <2>1. frame = "handler" /\ frame' = "parse" /\ UNCHANGED <<state, connectOps, readOps, link>>
    BY <1>3 DEF HandlerReturns, ConnInv, envVars, opVars, linkVars
  <2> QED BY <2>1 DEF ConnInv, OnePlace, Running
<1>4. CASE ErrorHandlerReturns
  <2>1. /\ frame = "error" /\ frame' \in {"none", "parse"}
        /\ UNCHANGED <<state, connectOps, readOps, link, handlers>>
    BY <1>4 DEF ErrorHandlerReturns, envVars, opVars, linkVars, queueVars
  <2>2. Running = 1 /\ Running' \in {0, 1}
    BY <2>1 DEF Running
  <2> QED BY <2>1, <2>2, PlaceTypes DEF ConnInv, OnePlace
<1> QED BY <1>1, <1>2, <1>3, <1>4 DEF ReadLoop

LEMMA HandlerConn == TypeOK /\ ConnInv /\ Handler => ConnInv'
<1> SUFFICES ASSUME TypeOK, ConnInv, Handler PROVE ConnInv'
  OBVIOUS
<1>1. CASE DoAsyncCommand
  <2>1. UNCHANGED <<state, connectOps, readOps, link, frame>>
    BY <1>1 DEF DoAsyncCommand, loopVars, linkVars
  <2>2. handlers' # <<>>
    <3>1. handlers' = Append(handlers, Head(strand).req.id) /\ handlers \in Seq(Nat)
      BY <1>1 DEF DoAsyncCommand, TypeOK
    <3>2. Len(handlers') = Len(handlers) + 1 /\ Len(handlers) \in Nat
      BY <3>1
    <3> QED BY <3>2
  <2> QED BY <2>1, <2>2, ConnKept
<1>2. CASE CallMessageHandler
  BY <1>2, ConnKept DEF CallMessageHandler, loopVars, envVars, opVars, linkVars
<1>3. CASE AsyncWrite
  BY <1>3, ConnKept DEF AsyncWrite, loopVars, linkVars
<1>4. CASE HandleAsyncConnect
  BY <1>4, HandleConnectConn
<1>5. CASE ConnectHandlerReturns
  BY <1>5, ProcessMessageConn DEF ConnectHandlerReturns, Running, linkVars, queueVars
<1>6. CASE AsyncRead
  BY <1>6, AsyncReadConn
<1>7. CASE ReadLoop
  BY <1>7, ReadLoopConn
<1> QED BY <1>1, <1>2, <1>3, <1>4, <1>5, <1>6, <1>7 DEF Handler

LEMMA EnvironmentConn == TypeOK /\ ConnInv /\ Environment => ConnInv'
<1> SUFFICES ASSUME TypeOK, ConnInv, Environment PROVE ConnInv'
  OBVIOUS
<1>1. UNCHANGED <<state, frame, handlers>>
  BY DEF Environment, clientVars, loopVars, queueVars
<1>2. CASE ConnectDone
  <2>1. PICK i \in DOMAIN connectOps :
           \/ link' = "up" /\ connectOps' = [connectOps EXCEPT ![i] = "ok"]
           \/ link' = link /\ connectOps' = [connectOps EXCEPT ![i] = "error"]
    BY <1>2 DEF ConnectDone
  <2>2. /\ connectOps \in Seq({"pending", "ok", "error", "aborted"})
        /\ Len(connectOps') = Len(connectOps) /\ DOMAIN connectOps' = DOMAIN connectOps
        /\ connectOps # <<>>
    <3> DEFINE S == {"pending", "ok", "error", "aborted"}
    <3>1. connectOps \in Seq(S) /\ "ok" \in S /\ "error" \in S
      BY DEF TypeOK, EnvTypeOK
    <3>2. PICK st \in S : connectOps' = [connectOps EXCEPT ![i] = st]
      BY <2>1, <3>1
    <3> HIDE DEF S
    <3>3. Len(connectOps') = Len(connectOps) /\ DOMAIN connectOps' = DOMAIN connectOps
      BY <2>1, <3>1, <3>2, ReplaceType
    <3> QED BY <2>1, <3>1, <3>3, EmptySeq DEF S
  <2>3. connectOps' # <<>>
    BY <2>2
  <2>4. \A j \in DOMAIN connectOps' : connectOps'[j] = "ok" => link' = "up" \/ (link' = link /\ connectOps[j] = "ok")
    BY <2>1, <2>2
  <2>5. link' = "up" \/ link' = link
    BY <2>1
  <2>6. UNCHANGED readOps
    BY <1>2 DEF ConnectDone
  <2> QED BY <1>1, <2>2, <2>3, <2>4, <2>5, <2>6 DEF ConnInv, OnePlace, Running
<1>3. CASE WriteSome \/ WriteFails \/ ServerReply \/ \E ch \in Channels : ServerPublish(ch, Audience(ch))
  BY <1>1, <1>3, ConnKept DEF WriteSome, WriteFails, ServerReply, ServerPublish, linkVars, opVars
<1>4. CASE LinkDrops
  BY <1>1, <1>4 DEF LinkDrops, opVars, ConnInv, OnePlace, Running
<1>5. CASE ReadSome \/ ReadFails
  <2>1. Len(readOps') = Len(readOps)
    <3>1. CASE ReadSome
      <4>1. DOMAIN readOps' = DOMAIN readOps
        BY <3>1 DEF ReadSome
      <4>2. readOps' \in Seq(ReadOp) /\ readOps \in Seq(ReadOp)
        BY EnvironmentType DEF TypeOK, EnvTypeOK
      <4> QED BY <4>1, <4>2, LenProperties
    <3>2. CASE ReadFails
      <4>1. PICK i \in DOMAIN readOps : readOps' = [readOps EXCEPT ![i].st = "error"]
        BY <3>2 DEF ReadFails
      <4>2. [readOps[i] EXCEPT !.st = "error"] \in ReadOp
        <5>1. readOps[i] \in ReadOp
          BY <4>1, ElementOfSeq, LenProperties DEF TypeOK, EnvTypeOK
        <5>2. \A op \in ReadOp : [op EXCEPT !.st = "error"] \in ReadOp
          BY OpTypes DEF ReadOp
        <5> QED BY <5>1, <5>2
      <4>3. readOps' = [readOps EXCEPT ![i] = [readOps[i] EXCEPT !.st = "error"]]
        BY <4>1
      <4>4. readOps \in Seq(ReadOp)
        BY DEF TypeOK, EnvTypeOK
      <4> QED BY <4>1, <4>2, <4>3, <4>4, ReplaceType
    <3> QED BY <1>5, <3>1, <3>2
  <2>2. UNCHANGED <<link, connectOps>>
    BY <1>5 DEF ReadSome, ReadFails, linkVars
  <2> QED BY <1>1, <2>1, <2>2 DEF ConnInv, OnePlace, Running
<1> QED BY <1>2, <1>3, <1>4, <1>5 DEF Environment

LEMMA ConnInit == ASSUME Init PROVE ConnInv
<1>1. connectOps = <<>> /\ readOps = <<>> /\ frame = "none" /\ state = "Unconnected"
  BY DEF Init, EnvInit
<1>2. Len(connectOps) = 0 /\ Len(readOps) = 0 /\ DOMAIN connectOps = {}
  BY <1>1
<1> QED BY <1>1, <1>2 DEF ConnInv, OnePlace, Running

\* The client connects, waits and reads at one place at a time, for any number of connections.
THEOREM ConnKeptThroughout == ASSUME Discipline # "any" PROVE Spec => []ConnInv
<1>1. Init => ConnInv
  BY ConnInit
<1>2. TypeOK /\ ConnInv /\ [Next]_vars => ConnInv'
  <2> SUFFICES ASSUME TypeOK, ConnInv, [Next]_vars PROVE ConnInv'
    OBVIOUS
  <2>1. CASE AppCall
    BY <2>1, ConnectConn, DisconnectConn, CallConn DEF AppCall
  <2>2. CASE Handler
    BY <2>2, HandlerConn
  <2>3. CASE Environment
    BY <2>3, EnvironmentConn
  <2>4. CASE UNCHANGED vars
    BY <2>4, ConnKept DEF vars, envVars, linkVars, opVars, clientVars, queueVars, loopVars
  <2> QED BY <2>1, <2>2, <2>3, <2>4 DEF Next
<1> QED BY <1>1, <1>2, TypeCorrect, PTL DEF Spec

\* There is one reader of buf and of the parser, although processMessage starts a read without
\* looking whether one is outstanding (redisclientimpl.cpp:251).
THEOREM OneReader == ASSUME Discipline # "any" PROVE Spec => []SingleReader
<1>1. TypeOK /\ ConnInv => SingleReader
  BY PlaceTypes DEF ConnInv, OnePlace, SingleReader, Running
<1> QED BY <1>1, ConnKeptThroughout, TypeCorrect, PTL

\* isConnected is true only of a client whose socket is open and was connected.
THEOREM ConnectedMeansOpen == ASSUME Discipline # "any" PROVE Spec => []ConnectedImpliesOpen
<1>1. ConnInv => ConnectedImpliesOpen
  BY DEF ConnInv, ConnectedImpliesOpen
<1> QED BY <1>1, ConnKeptThroughout, PTL

\* handlers.pop() never meets an empty queue when disconnect is not called from a callback.
THEOREM PopsWhatItCalled == ASSUME Discipline # "any" PROVE Spec => []NeverPopsEmpty
<1>1. ConnInv => NeverPopsEmpty
  BY DEF ConnInv, NeverPopsEmpty
<1> QED BY <1>1, ConnKeptThroughout, PTL

-----------------------------------------------------------------------------
(* Pairing.  An application that only makes commands, and disconnects when *)
(* all of them are answered, has its requests numbered without a gap: from *)
(* the oldest to the youngest they are answered, under way back (Stream),  *)
(* with the server, in the write in progress and in dataQueued (Sent), and *)
(* on the strand; handlers holds all those from the answered to the        *)
(* strand.  Replies come in halves: a whole one covers two, so that where  *)
(* a piece starts and ends is a number, and pieces follow each other if    *)
(* each starts where the one before it ends.                               *)

CommandsOnly == Discipline = "settled" /\ Calls \subseteq {"connect", "disconnect", "command", "publish"}

ReplyTo(id) == [kind |-> "reply", id |-> id, chan |-> NoChannel]

StartOf(u) == IF u.part = "second" THEN 2 * u.reply.id - 1 ELSE 2 * u.reply.id - 2
EndOf(u)   == IF u.part = "first" THEN 2 * u.reply.id - 1 ELSE 2 * u.reply.id

\* The pieces u follow each other from `at`, and are of replies to requests up to `last`.
Follow(u, at, last) ==
    /\ \A i \in 1 .. Len(u) : u[i].reply = ReplyTo(u[i].reply.id) /\ u[i].reply.id <= last
    /\ \A i \in 1 .. Len(u) - 1 : EndOf(u[i]) = StartOf(u[i + 1])
    /\ u # <<>> => StartOf(u[1]) = at

EndsAt(u, at, end) == IF u = <<>> THEN at = end ELSE EndOf(u[Len(u)]) = end

\* The requests are plain commands, numbered from lo + 1.
Commands(requests, lo) ==
    \A i \in 1 .. Len(requests) : requests[i].kind = "command" /\ requests[i].id = lo + i

LEMMA PieceTypes ==
    ASSUME NEW u \in Unit
    PROVE  /\ u.reply \in Reply /\ u.reply.id \in Nat /\ u.part \in {"whole", "first", "second"}
           /\ StartOf(u) \in Int /\ EndOf(u) \in Int
<1>1. u.reply \in Reply /\ u.reply.id \in Nat /\ u.part \in {"whole", "first", "second"}
  BY DEF Unit, Reply
<1> QED BY <1>1 DEF StartOf, EndOf

LEMMA FollowNothing == \A at, last : Follow(<<>>, at, last) /\ EndsAt(<<>>, at, at)
BY EmptySeq DEF Follow, EndsAt

LEMMA FollowUpTo ==
    ASSUME NEW u \in Seq(Unit), NEW at, NEW last \in Int, NEW l \in Int, Follow(u, at, last), last <= l
    PROVE  Follow(u, at, l)
<1>1. \A i \in 1 .. Len(u) : u[i].reply.id \in Int
  BY PieceTypes, ElementOfSeq
<1>2. \A i \in 1 .. Len(u) : u[i].reply.id <= last
  BY DEF Follow
<1>3. \A i \in 1 .. Len(u) : u[i].reply.id <= l
  BY <1>1, <1>2
<1> QED BY <1>3 DEF Follow

\* Without its first piece.
LEMMA FollowTail ==
    ASSUME NEW u \in Seq(Unit), u # <<>>, NEW at, NEW last, Follow(u, at, last)
    PROVE  /\ Follow(Tail(u), EndOf(Head(u)), last)
           /\ \A end : EndsAt(u, at, end) => EndsAt(Tail(u), EndOf(Head(u)), end)
<1>1. /\ Len(u) \in Nat \ {0} /\ Head(u) = u[1]
      /\ Tail(u) \in Seq(Unit) /\ Len(Tail(u)) = Len(u) - 1
      /\ \A i \in 1 .. Len(u) - 1 : Tail(u)[i] = u[i + 1]
  BY EmptySeq, HeadTailProperties
<1> DEFINE t == Tail(u)
<1> HIDE DEF t
<1>2. /\ t \in Seq(Unit) /\ Len(t) = Len(u) - 1 /\ \A i \in 1 .. Len(u) - 1 : t[i] = u[i + 1]
      /\ t # <<>> => Len(t) \in Nat \ {0}
      /\ t = <<>> => Len(t) = 0
  <2>1. t \in Seq(Unit) /\ Len(t) = Len(u) - 1 /\ \A i \in 1 .. Len(u) - 1 : t[i] = u[i + 1]
    BY <1>1 DEF t
  <2> QED BY <2>1, EmptySeq
<1>3. \A i \in 1 .. Len(t) : i + 1 \in 1 .. Len(u) /\ t[i] = u[i + 1]
  BY <1>1, <1>2
<1>4. \A i \in 1 .. Len(t) : t[i].reply = ReplyTo(t[i].reply.id) /\ t[i].reply.id <= last
  BY <1>3 DEF Follow
<1>5. ASSUME NEW i \in 1 .. Len(t) - 1 PROVE EndOf(t[i]) = StartOf(t[i + 1])
  <2>1. i \in 1 .. Len(t) /\ i + 1 \in 1 .. Len(t) /\ i + 1 \in 1 .. Len(u) - 1
    BY <1>1, <1>2
  <2>2. EndOf(u[i + 1]) = StartOf(u[i + 1 + 1])
    BY <2>1 DEF Follow
  <2> QED BY <1>3, <2>1, <2>2
<1>6. t # <<>> => StartOf(t[1]) = EndOf(u[1])
  <2> SUFFICES ASSUME t # <<>> PROVE StartOf(t[1]) = EndOf(u[1])
    OBVIOUS
  <2>1. 1 \in 1 .. Len(u) - 1
    BY <1>1, <1>2
  <2>2. EndOf(u[1]) = StartOf(u[1 + 1])
    BY <2>1 DEF Follow
  <2> QED BY <1>2, <2>1, <2>2
<1>7. Follow(t, EndOf(u[1]), last)
  BY <1>4, <1>5, <1>6 DEF Follow
<1>8. ASSUME NEW end, EndsAt(u, at, end) PROVE EndsAt(t, EndOf(u[1]), end)
  <2>1. EndOf(u[Len(u)]) = end
    BY <1>8 DEF EndsAt
  <2>2. CASE t = <<>>
    <3>0. Len(t) = 0
      BY <1>2, <2>2
    <3>1. Len(t) = Len(u) - 1 /\ Len(u) \in Int
      BY <1>1, <1>2
    <3>2. Len(u) = 1
      BY ONLY <3>0, <3>1
    <3> QED BY <2>1, <2>2, <3>2 DEF EndsAt
  <2>3. CASE t # <<>>
    <3>1. Len(t) \in 1 .. Len(u) - 1 /\ Len(t) + 1 = Len(u)
      BY <1>1, <1>2, <2>3
    <3>2. t[Len(t)] = u[Len(u)]
      BY <1>2, <3>1
    <3> QED BY <2>1, <2>3, <3>2 DEF EndsAt
  <2> QED BY <2>2, <2>3
<1> QED BY <1>1, <1>7, <1>8 DEF t

\* With another one.
LEMMA FollowAppend ==
    ASSUME NEW u \in Seq(Unit), NEW x \in Unit, NEW at, NEW last,
           Follow(u, at, last), EndsAt(u, at, StartOf(x)),
           x.reply = ReplyTo(x.reply.id), x.reply.id <= last
    PROVE  Follow(Append(u, x), at, last) /\ EndsAt(Append(u, x), at, EndOf(x))
<1> DEFINE v == Append(u, x)
<1>1. /\ v \in Seq(Unit) /\ v # <<>> /\ Len(v) = Len(u) + 1 /\ Len(u) \in Nat
      /\ \A i \in 1 .. Len(u) : v[i] = u[i]
      /\ v[Len(u) + 1] = x
      /\ u # <<>> => Len(u) \in Nat \ {0}
      /\ u = <<>> => Len(u) = 0
  BY EmptySeq, AppendProperties, LenProperties
<1> HIDE DEF v
<1>2. ASSUME NEW i \in 1 .. Len(v) PROVE v[i].reply = ReplyTo(v[i].reply.id) /\ v[i].reply.id <= last
  <2>1. i \in 1 .. Len(u) \/ i = Len(u) + 1
    BY <1>1
  <2> QED BY <1>1, <2>1 DEF Follow
<1>3. ASSUME NEW i \in 1 .. Len(v) - 1 PROVE EndOf(v[i]) = StartOf(v[i + 1])
  <2>1. i \in 1 .. Len(u) /\ v[i] = u[i]
    BY <1>1
  <2>2. CASE i = Len(u)
    <3>1. u # <<>>
      BY <1>1, <2>1, <2>2
    <3>2. EndOf(u[Len(u)]) = StartOf(x)
      BY <3>1 DEF EndsAt
    <3> QED BY <1>1, <2>1, <2>2, <3>2
  <2>3. CASE i # Len(u)
    <3>1. i \in 1 .. Len(u) - 1 /\ i + 1 \in 1 .. Len(u)
      BY <1>1, <2>1, <2>3
    <3>2. EndOf(u[i]) = StartOf(u[i + 1])
      BY <3>1 DEF Follow
    <3> QED BY <1>1, <2>1, <3>1, <3>2
  <2> QED BY <2>2, <2>3
<1>4. StartOf(v[1]) = at
  <2>1. CASE u = <<>>
    BY <1>1, <2>1 DEF EndsAt
  <2>2. CASE u # <<>>
    BY <1>1, <2>2 DEF Follow
  <2> QED BY <2>1, <2>2
<1>5. EndsAt(v, at, EndOf(x))
  BY <1>1 DEF EndsAt
<1> QED BY <1>2, <1>3, <1>4, <1>5 DEF Follow, v

\* With the k-th of them in two.
\* c is s with a piece in two.
Halved(s, c) ==
    \E k \in DOMAIN s :
        /\ s[k].part = "whole"
        /\ CutAt(s, c, k, [s[k] EXCEPT !.part = "first"], [s[k] EXCEPT !.part = "second"])

LEMMA FollowCut ==
    ASSUME NEW u \in Seq(Unit), NEW v \in Seq(Unit), NEW at, NEW last, Follow(u, at, last), Halved(u, v)
    PROVE  Follow(v, at, last) /\ \A end : EndsAt(u, at, end) => EndsAt(v, at, end)
<1>0. PICK k \in 1 .. Len(u) :
         /\ u[k].part = "whole" /\ Len(v) = Len(u) + 1
         /\ \A i \in 1 .. k - 1 : v[i] = u[i]
         /\ v[k] = [u[k] EXCEPT !.part = "first"] /\ v[k + 1] = [u[k] EXCEPT !.part = "second"]
         /\ \A i \in k + 2 .. Len(v) : v[i] = u[i - 1]
  BY DEF Halved, CutAt
<1>1. Len(u) \in Nat \ {0} /\ k \in Nat /\ 1 <= k /\ k <= Len(u) /\ u # <<>> /\ v # <<>>
  BY <1>0, EmptySeq, LenProperties
<1> USE <1>0
<1>2. u[k] \in Unit /\ u[k].reply.id \in Nat
  BY ElementOfSeq, PieceTypes
<1>3. /\ v[k].reply = u[k].reply /\ v[k].part = "first"
      /\ v[k + 1].reply = u[k].reply /\ v[k + 1].part = "second"
  <2>1. \A x \in Unit, p \in {"first", "second"} :
           [x EXCEPT !.part = p].reply = x.reply /\ [x EXCEPT !.part = p].part = p
    BY DEF Unit
  <2> QED BY <1>2, <2>1
<1>4. /\ StartOf(v[k]) = StartOf(u[k]) /\ EndOf(v[k]) = StartOf(v[k + 1])
      /\ EndOf(v[k + 1]) = EndOf(u[k])
  <2>1. StartOf(u[k]) = 2 * u[k].reply.id - 2 /\ EndOf(u[k]) = 2 * u[k].reply.id
    BY DEF StartOf, EndOf
  <2>2. /\ StartOf(v[k]) = 2 * u[k].reply.id - 2 /\ EndOf(v[k]) = 2 * u[k].reply.id - 1
        /\ StartOf(v[k + 1]) = 2 * u[k].reply.id - 1 /\ EndOf(v[k + 1]) = 2 * u[k].reply.id
    BY <1>3 DEF StartOf, EndOf
  <2> QED BY <2>1, <2>2
\* Each piece of v is one of u, or a half of the k-th.
<1>5. ASSUME NEW i \in 1 .. Len(v)
      PROVE  \/ i < k /\ i \in 1 .. Len(u) /\ v[i] = u[i]
             \/ i = k \/ i = k + 1
             \/ k + 1 < i /\ i - 1 \in 1 .. Len(u) /\ k < i - 1 /\ v[i] = u[i - 1]
  <2>0. i \in Int /\ 1 <= i /\ i <= Len(u) + 1
    BY <1>1
  <2>1. CASE i < k
    <3>1. i \in 1 .. k - 1 /\ i \in 1 .. Len(u)
      BY <1>1, <2>0, <2>1
    <3> QED BY <2>1, <3>1
  <2>2. CASE k + 1 < i
    <3>1. i \in k + 2 .. Len(v) /\ i - 1 \in 1 .. Len(u) /\ k < i - 1
      BY <1>1, <2>0, <2>2
    <3> QED BY <2>2, <3>1
  <2> QED BY <1>1, <2>0, <2>1, <2>2
<1>6. ASSUME NEW i \in 1 .. Len(v) PROVE v[i].reply = ReplyTo(v[i].reply.id) /\ v[i].reply.id <= last
  BY <1>3, <1>5, <1>6 DEF Follow
<1>7. ASSUME NEW i \in 1 .. Len(v) - 1 PROVE EndOf(v[i]) = StartOf(v[i + 1])
  <2>0. i \in Int /\ 1 <= i /\ i <= Len(u) /\ i \in 1 .. Len(v) /\ i + 1 \in 1 .. Len(v)
    BY <1>1
  <2>1. CASE i = k
    BY <1>4, <2>1
  <2>2. CASE i + 1 = k
    <3>1. v[i] = u[i] /\ i \in 1 .. Len(u) - 1
      BY <1>1, <2>0, <2>2
    <3>2. EndOf(u[i]) = StartOf(u[i + 1])
      BY <3>1 DEF Follow
    <3> QED BY <1>4, <2>2, <3>1, <3>2
  <2>3. CASE i = k + 1
    <3>1. v[i + 1] = u[i] /\ k \in 1 .. Len(u) - 1
      <4>1. i + 1 \in k + 2 .. Len(v) /\ (i + 1) - 1 = i
        BY <1>1, <2>0, <2>3
      <4> QED BY <1>1, <2>0, <2>3, <4>1
    <3>2. EndOf(u[k]) = StartOf(u[k + 1])
      BY <3>1 DEF Follow
    <3> QED BY <1>4, <2>3, <3>1, <3>2
  <2>4. CASE i + 1 < k
    <3>1. v[i] = u[i] /\ v[i + 1] = u[i + 1] /\ i \in 1 .. Len(u) - 1
      <4>1. i \in 1 .. k - 1 /\ i + 1 \in 1 .. k - 1 /\ i \in 1 .. Len(u) - 1
        BY <1>1, <2>0, <2>4
      <4> QED BY <4>1
    <3> QED BY <3>1 DEF Follow
  <2>5. CASE k + 1 < i
    <3>1. v[i] = u[i - 1] /\ v[i + 1] = u[i] /\ i - 1 \in 1 .. Len(u) - 1
      <4>1. /\ i \in k + 2 .. Len(v) /\ i + 1 \in k + 2 .. Len(v) /\ (i + 1) - 1 = i
            /\ i - 1 \in 1 .. Len(u) - 1
        BY <1>1, <2>0, <2>5
      <4>2. v[i] = u[i - 1] /\ v[i + 1] = u[(i + 1) - 1]
        BY <4>1
      <4> QED BY <4>1, <4>2
    <3>2. EndOf(u[i - 1]) = StartOf(u[(i - 1) + 1]) /\ (i - 1) + 1 = i
      BY <2>0, <3>1 DEF Follow
    <3> QED BY <3>1, <3>2
  <2> QED BY <1>1, <2>0, <2>1, <2>2, <2>3, <2>4, <2>5
<1>8. StartOf(v[1]) = at
  <2>1. StartOf(u[1]) = at
    BY <1>1 DEF Follow
  <2>2. CASE k = 1
    BY <1>4, <2>1, <2>2
  <2>3. CASE k # 1
    <3>1. 1 \in 1 .. k - 1
      BY <1>1, <2>3
    <3> QED BY <2>1, <3>1
  <2> QED BY <2>2, <2>3
<1>9. EndOf(v[Len(v)]) = EndOf(u[Len(u)])
  <2>1. CASE k = Len(u)
    BY <1>4, <2>1
  <2>2. CASE k # Len(u)
    <3>1. Len(v) \in k + 2 .. Len(v) /\ Len(v) - 1 = Len(u)
      BY <1>1, <2>2
    <3> QED BY <3>1
  <2> QED BY <2>1, <2>2
<1> QED BY <1>1, <1>6, <1>7, <1>8, <1>9 DEF Follow, EndsAt

\* What a completed read brings, and the bytes on their way to the parser: the rest of buf
\* that asyncRead's loop has not parsed yet, that read, and what the server has sent.
ReadData == IF readOps # <<>> /\ readOps[1].st = "ok" THEN readOps[1].data ELSE <<>>
Stream   == rest \o (ReadData \o toClient)

\* The requests on their way to the server: on the link, in the write under way, in dataQueued.
Left == IF writeOps = <<>> THEN <<>> ELSE writeOps[1].left
Sent == toServer \o (Left \o dataQueued)

\* handlers.pop() follows the call (redisclientimpl.cpp:322), so that the handler of the reply
\* in hand still counts: Popped requests are through, Queued of them have been given a handler,
\* Asked of those have left dataQueued, and Back have been answered by the server.  At is where
\* the parser stands, in halves of replies.
Popped == Len(delivered) - (IF frame = "handler" THEN 1 ELSE 0)
Queued == Popped + Len(handlers)
Asked  == Queued - Len(dataQueued)
Back   == Queued - Len(Sent)
At     == 2 * Len(delivered) + (IF redisParser = NoReply THEN 0 ELSE 1)

\* Every request holds the number it was made with: those answered, those with a handler, and
\* those that still wait on the strand, in that order and without a gap.
HandlersPaired ==
    /\ \A i \in 1 .. Len(delivered) : delivered[i].handler = i /\ delivered[i].reply.id = i
    /\ frame = "handler" => delivered # <<>>
    /\ \A i \in 1 .. Len(handlers) : handlers[i] = Popped + i
    /\ \A i \in 1 .. Len(strand) :
          /\ strand[i].run = "doAsyncCommand"
          /\ strand[i].req.kind = "command" /\ strand[i].req.id = Queued + i
    /\ issued = Queued + Len(strand)

\* What is on its way to the parser starts at its place and, while the link is up, runs to the
\* last reply of the server.
RepliesComing ==
    /\ redisParser \in {NoReply, ReplyTo(Len(delivered) + 1)}
    /\ At <= 2 * Asked
    /\ Follow(Stream, At, Asked)
    /\ link = "up" => EndsAt(Stream, At, 2 * Back)

\* What is on its way to the server are the requests it has not answered, in order.
RequestsGoing ==
    /\ link = "up" => Commands(Sent, Back)
    /\ subs = {}
    /\ \A i \in 1 .. Len(writeOps) : /\ writeOps[i].st = "ok" => writeOps[i].left = <<>>
                                     /\ writeOps[i].st = "error" => link # "up"

\* Nothing is under way: how a client that is not connected is left by disconnect.
NothingLeft == Stream = <<>> /\ redisParser = NoReply /\ strand = <<>> /\ handlers = <<>> /\ writeOps = <<>> /\ Sent = <<>>

\* Outside of asyncRead's loop nothing is left to parse.
RestParsed == frame \in {"none", "connect"} => rest = <<>>

PlainConn ==
    /\ state # "Subscribed" /\ frame # "error"
    /\ RestParsed
    /\ state # "Connected" => NothingLeft

PairInv == HandlersPaired /\ RepliesComing /\ RequestsGoing /\ PlainConn

\* The types of what PairInv is built from, which TypeOK gives.
PairTyped ==
    /\ rest \in Seq(Unit) /\ ReadData \in Seq(Unit) /\ toClient \in Seq(Unit) /\ Stream \in Seq(Unit)
    /\ toServer \in Seq(Request) /\ Left \in Seq(Request) /\ dataQueued \in Seq(Request) /\ Sent \in Seq(Request)
    /\ Len(delivered) \in Nat /\ Len(handlers) \in Nat /\ Len(strand) \in Nat
    /\ Len(dataQueued) \in Nat /\ Len(Sent) \in Nat
    /\ Popped \in Int /\ Queued \in Int /\ Asked \in Int /\ Back \in Int /\ At \in Int

LEMMA PairTypes == TypeOK => PairTyped
<1> SUFFICES ASSUME TypeOK PROVE PairTyped
  OBVIOUS
<1>1. /\ rest \in Seq(Unit) /\ toClient \in Seq(Unit)
      /\ toServer \in Seq(Request) /\ dataQueued \in Seq(Request)
      /\ readOps \in Seq(ReadOp) /\ writeOps \in Seq(WriteOp)
  BY DEF TypeOK, EnvTypeOK
<1>2. ReadData \in Seq(Unit)
  <2>1. ASSUME readOps # <<>> PROVE readOps[1].data \in Seq(Unit)
    <3>1. readOps[1] \in ReadOp
      BY <1>1, <2>1, EmptySeq, ElementOfSeq, LenProperties
    <3> QED BY <3>1 DEF ReadOp
  <2> QED BY <2>1, EmptySeq DEF ReadData
<1>3. Left \in Seq(Request)
  <2>1. ASSUME writeOps # <<>> PROVE writeOps[1].left \in Seq(Request)
    <3>1. writeOps[1] \in WriteOp
      BY <1>1, <2>1, EmptySeq, ElementOfSeq, LenProperties
    <3> QED BY <3>1 DEF WriteOp
  <2> QED BY <2>1, EmptySeq DEF Left
<1>4. Stream \in Seq(Unit)
  <2>1. ReadData \o toClient \in Seq(Unit)
    BY <1>1, <1>2, ConcatProperties
  <2> QED BY <1>1, <2>1, ConcatProperties DEF Stream
<1>5. Sent \in Seq(Request)
  <2>1. Left \o dataQueued \in Seq(Request)
    BY <1>1, <1>3, ConcatProperties
  <2> QED BY <1>1, <2>1, ConcatProperties DEF Sent
<1>6. /\ Len(delivered) \in Nat /\ Len(handlers) \in Nat /\ Len(strand) \in Nat
      /\ Len(dataQueued) \in Nat /\ Len(Sent) \in Nat
  <2>1. /\ delivered \in Seq([handler : Nat, reply : Reply]) /\ handlers \in Seq(Nat)
        /\ strand \in Seq(Job) /\ dataQueued \in Seq(Request)
    BY DEF TypeOK
  <2> QED BY <1>5, <2>1, LenProperties
<1>7. Popped \in Int /\ Queued \in Int
  BY <1>6 DEF Popped, Queued
<1>8. Asked \in Int /\ Back \in Int /\ At \in Int
  BY <1>6, <1>7 DEF Asked, Back, At
<1> QED BY <1>1, <1>2, <1>3, <1>4, <1>5, <1>6, <1>7, <1>8 DEF PairTyped

LEMMA PairTypesNext == TypeOK' => PairTyped'
BY PairTypes, PTL

-----------------------------------------------------------------------------
(* What the steps of the client and of its environment do to the stream.   *)

\* What a step of the environment leaves alone.
LEMMA EnvironmentKeeps ==
    ASSUME UNCHANGED clientVars
    PROVE  UNCHANGED <<state, handlers, dataQueued, dataWrited, strand, redisParser, frame, rest, issued, delivered>>
BY DEF clientVars, queueVars, loopVars, historyVars

LEMMA NoOtherRead ==
    ASSUME TypeOK, ConnInv
    PROVE  /\ Running = 1 => readOps = <<>> /\ ReadData = <<>>
           /\ readOps # <<>> => Len(readOps) = 1 /\ Running = 0 /\ connectOps = <<>>
<1>1. readOps \in Seq(ReadOp) /\ connectOps \in Seq({"pending", "ok", "error", "aborted"})
  BY DEF TypeOK, EnvTypeOK
<1>2. Running = 1 => readOps = <<>>
  <2>1. Running = 1 => Len(readOps) = 0
    BY PlaceTypes DEF ConnInv, OnePlace
  <2> QED BY <1>1, <2>1, NoneOf
<1>3. readOps # <<>> => Len(readOps) = 1 /\ Running = 0 /\ Len(connectOps) = 0
  <2>1. readOps # <<>> => Len(readOps) # 0
    BY <1>1, NoneOf
  <2>2. /\ Len(connectOps) \in Nat /\ Len(readOps) \in Nat /\ Running \in {0, 1}
        /\ Len(connectOps) + Len(readOps) + Running <= 1
    BY PlaceTypes DEF ConnInv, OnePlace
  <2>3. Len(readOps) # 0 => Len(readOps) = 1 /\ Running = 0 /\ Len(connectOps) = 0
    BY ONLY <2>2
  <2> QED BY <2>1, <2>3
<1> QED BY <1>1, <1>2, <1>3, NoneOf DEF ReadData

\* A read that has just been started brings nothing.
LEMMA ProcessMessageStream ==
    ASSUME TypeOK, ConnInv, ProcessMessage, frame \in {"connect", "parse"}, UNCHANGED <<rest, toClient>>
    PROVE  Stream' = Stream
<1>1. readOps = <<>> /\ ReadData = <<>>
  BY NoOtherRead DEF Running
<1>2. ReadData' = <<>>
  <2>1. readOps' = Append(<<>>, StartedRead)
    BY <1>1 DEF ProcessMessage
  <2>2. StartedRead.st # "ok"
    BY DEF StartedRead
  <2>3. readOps'[1] = StartedRead
    BY <2>1
  <2> QED BY <2>2, <2>3 DEF ReadData
<1> QED BY <1>1, <1>2 DEF Stream

\* asyncRead moves what the read has brought from buf to its loop.
LEMMA AsyncReadStream ==
    ASSUME TypeOK, PairTyped, ConnInv, RestParsed, AsyncRead
    PROVE  Stream' = Stream /\ rest = <<>>
<1>1. UNCHANGED toClient /\ frame = "none"
  BY DEF AsyncRead, linkVars
<1>2. PICK i \in DOMAIN readOps :
         /\ readOps' = RemoveAt(readOps, i)
         /\ \/ readOps[i].st = "ok" /\ frame' = "parse" /\ rest' = readOps[i].data
            \/ readOps[i].st # "ok" /\ UNCHANGED <<frame, rest>>
  BY DEF AsyncRead
<1>3. readOps' = <<>> /\ i = 1 /\ readOps # <<>>
  <2>1. readOps \in Seq(ReadOp) /\ DOMAIN readOps = 1 .. Len(readOps)
    BY LenProperties DEF TypeOK, EnvTypeOK
  <2>2. readOps # <<>>
    BY <1>2, <2>1
  <2>3. Len(readOps) = 1
    BY <2>2, NoOtherRead
  <2>4. i = 1
    <3>1. i \in 1 .. 1
      BY <1>2, <2>1, <2>3
    <3> QED BY <3>1
  <2> QED BY <1>2, <2>1, <2>2, <2>3, <2>4, RemovedAll
<1>4. ReadData' = <<>> /\ rest = <<>>
  BY <1>1, <1>3 DEF ReadData, RestParsed
<1>5. Stream' = Stream
  <2>1. ReadData \o toClient \in Seq(Unit)
    BY ConcatProperties DEF PairTyped
  <2>2. CASE readOps[i].st = "ok" /\ frame' = "parse" /\ rest' = readOps[i].data
    <3>1. rest' = ReadData
      BY <1>3, <2>2 DEF ReadData
    <3> QED BY <1>1, <1>4, <2>1, <3>1, ConcatEmptySeq DEF Stream, PairTyped
  <2>3. CASE readOps[i].st # "ok" /\ UNCHANGED <<frame, rest>>
    <3>1. ReadData = <<>>
      BY <1>3, <2>3 DEF ReadData
    <3> QED BY <1>1, <1>4, <2>3, <3>1 DEF Stream
  <2> QED BY <1>2, <2>2, <2>3
<1> QED BY <1>4, <1>5

\* The loop takes the next piece.
LEMMA StreamShrinks ==
    ASSUME PairTyped, rest # <<>>, rest' = Tail(rest), UNCHANGED <<readOps, toClient>>
    PROVE  Stream' = Tail(Stream) /\ Stream # <<>> /\ Head(Stream) = Head(rest)
<1>1. rest \in Seq(Unit) /\ ReadData \o toClient \in Seq(Unit)
  BY ConcatProperties DEF PairTyped
<1>2. ReadData' \o toClient' = ReadData \o toClient
  BY DEF ReadData
<1>3. Stream' = Tail(rest) \o (ReadData \o toClient)
  BY <1>2 DEF Stream
<1> QED BY <1>1, <1>3, ConcatTail DEF Stream

\* The server sends one more.
LEMMA StreamGrows ==
    ASSUME PairTyped, NEW x \in Unit, toClient' = Append(toClient, x), UNCHANGED <<rest, readOps>>
    PROVE  Stream' = Append(Stream, x)
<1>1. rest \in Seq(Unit) /\ ReadData \in Seq(Unit) /\ toClient \in Seq(Unit)
  BY DEF PairTyped
<1>2. ReadData \o Append(toClient, x) = Append(ReadData \o toClient, x)
  BY <1>1, ConcatAppend
<1>3. ReadData \o toClient \in Seq(Unit)
  BY <1>1, ConcatProperties
<1>4. rest \o Append(ReadData \o toClient, x) = Append(rest \o (ReadData \o toClient), x)
  BY <1>1, <1>3, ConcatAppend
<1>5. ReadData' = ReadData
  BY DEF ReadData
<1> QED BY <1>2, <1>4, <1>5 DEF Stream

\* A reader waiting for bytes: it is alone, nothing is left to parse, the stream is toClient.
LEMMA ReaderWaits ==
    ASSUME TypeOK, PairTyped, ConnInv, RestParsed, NEW i \in DOMAIN readOps, FirstPendingRead(i)
    PROVE  /\ i = 1 /\ readOps \in Seq(ReadOp) /\ Len(readOps) = 1
           /\ frame = "none" /\ rest = <<>> /\ Stream = toClient
<1>1. readOps \in Seq(ReadOp) /\ DOMAIN readOps = 1 .. Len(readOps)
  BY LenProperties DEF TypeOK, EnvTypeOK
<1>2. readOps # <<>>
  BY <1>1
<1>3. Len(readOps) = 1 /\ Running = 0
  BY <1>2, NoOtherRead
<1>4. i = 1
  <2>1. i \in 1 .. 1
    BY <1>1, <1>3
  <2> QED BY <2>1
<1>5. frame = "none" /\ rest = <<>>
  <2>1. frame = "none"
    BY <1>3 DEF Running, ConnInv, TypeOK, Frame
  <2> QED BY <2>1 DEF RestParsed
<1>6. ReadData = <<>>
  BY <1>4 DEF ReadData, FirstPendingRead
<1>7. Stream = toClient
  BY <1>5, <1>6, ConcatEmptySeq DEF Stream, PairTyped
<1> QED BY <1>1, <1>3, <1>4, <1>5, <1>7

LEMMA ReadFailsStream ==
    ASSUME TypeOK, PairTyped, ConnInv, RestParsed, ReadFails, UNCHANGED clientVars
    PROVE  Stream' = Stream
<1>1. UNCHANGED <<rest, toClient>>
  BY EnvironmentKeeps DEF ReadFails, linkVars
<1>2. PICK i \in DOMAIN readOps : FirstPendingRead(i) /\ readOps' = [readOps EXCEPT ![i].st = "error"]
  BY DEF ReadFails
<1>3. i = 1 /\ readOps \in Seq(ReadOp) /\ Len(readOps) = 1 /\ rest = <<>> /\ Stream = toClient
  BY <1>2, ReaderWaits
<1>4. ReadData' = <<>>
  <2>1. 1 \in DOMAIN readOps /\ readOps[1] \in ReadOp
    BY <1>3, ElementOfSeq, LenProperties
  <2>2. readOps'[1] = [readOps[1] EXCEPT !.st = "error"]
    BY <1>2, <1>3, <2>1
  <2>3. \A o \in ReadOp : [o EXCEPT !.st = "error"].st = "error"
    BY DEF ReadOp
  <2> QED BY <2>1, <2>2, <2>3 DEF ReadData
<1>5. Stream' = Stream
  BY <1>1, <1>3, <1>4, ConcatEmptySeq DEF Stream, PairTyped
<1> QED BY <1>5

\* A read that ends inside of a reply halves it.
LEMMA CutPiece ==
    ASSUME NEW u \in Seq(Unit), NEW n \in 0 .. Len(u) - 1, u[n + 1].part = "whole",
           NEW later, later = SubSeq(u, n + 1, Len(u)),
           NEW v, v = Append(SubSeq(u, 1, n), [later[1] EXCEPT !.part = "first"])
                        \o [later EXCEPT ![1].part = "second"]
    PROVE  Halved(u, v)
<1> DEFINE k == n + 1
           whole  == SubSeq(u, 1, n)
           first  == [u[k] EXCEPT !.part = "first"]
           second == [u[k] EXCEPT !.part = "second"]
<1>1. Len(u) \in Nat /\ n \in Nat /\ k \in 1 .. Len(u) /\ n \in 0 .. Len(u) /\ k \in 1 .. Len(u) + 1
  BY LenProperties
<1>2. u[k] \in Unit /\ first \in Unit /\ second \in Unit
  <2>1. u[k] \in Unit
    BY <1>1, ElementOfSeq
  <2> QED BY <2>1, ReplyTypes
<1>3. /\ whole \in Seq(Unit) /\ Len(whole) = n /\ \A i \in 1 .. n : whole[i] = u[i]
  BY <1>1, PrefixProperties
<1>4. /\ later \in Seq(Unit) /\ Len(later) = Len(u) - n
      /\ \A i \in 1 .. Len(u) - n : later[i] = u[n + i]
  <2>1. /\ later \in Seq(Unit) /\ Len(later) = Len(u) - k + 1
        /\ \A i \in 1 .. Len(u) - k + 1 : later[i] = u[k + i - 1]
    BY <1>1, SuffixProperties
  <2>2. Len(u) - k + 1 = Len(u) - n /\ \A i \in 1 .. Len(u) - n : k + i - 1 = n + i
    BY <1>1
  <2> HIDE DEF k
  <2> QED BY <2>1, <2>2
<1>5. 1 \in 1 .. Len(later) /\ 1 \in DOMAIN later /\ later[1] = u[k]
  BY <1>1, <1>4, LenProperties
<1>6. v = Append(whole, first) \o [later EXCEPT ![1] = second]
  BY <1>5
<1> DEFINE a == Append(whole, first)
           b == [later EXCEPT ![1] = second]
<1>7. a \in Seq(Unit) /\ Len(a) = n + 1 /\ a[n + 1] = first /\ \A i \in 1 .. n : a[i] = u[i]
  <2> HIDE DEF whole, first
  <2> QED BY <1>2, <1>3, AppendProperties
<1>8. /\ b \in Seq(Unit) /\ Len(b) = Len(u) - n /\ b[1] = second
      /\ \A i \in 2 .. Len(u) - n : b[i] = u[n + i]
  <2> HIDE DEF second, k
  <2>1. b \in Seq(Unit) /\ Len(b) = Len(u) - n
    BY <1>2, <1>4, <1>5, ReplaceType
  <2>2. b[1] = second
    BY <1>5
  <2>3. ASSUME NEW i \in 2 .. Len(u) - n PROVE b[i] = u[n + i]
    <3>1. i \in DOMAIN later /\ i # 1 /\ i \in 1 .. Len(u) - n
      BY <1>1, <1>4, LenProperties
    <3> QED BY <1>4, <3>1
  <2> QED BY <2>1, <2>2, <2>3
<1> HIDE DEF a, b, first, second, whole, k
<1>9. /\ v \in Seq(Unit) /\ Len(v) = Len(u) + 1
      /\ \A i \in 1 .. Len(u) + 1 : v[i] = IF i <= n + 1 THEN a[i] ELSE b[i - (n + 1)]
  <2>1. v = a \o b
    BY <1>6 DEF a, b
  <2>2. Len(a) + Len(b) = Len(u) + 1
    BY <1>1, <1>7, <1>8
  <2>3. /\ a \o b \in Seq(Unit) /\ Len(a \o b) = Len(a) + Len(b)
        /\ \A i \in 1 .. Len(a) + Len(b) : (a \o b)[i] = IF i <= Len(a) THEN a[i] ELSE b[i - Len(a)]
    BY <1>7, <1>8, ConcatProperties
  <2> QED BY <1>7, <2>1, <2>2, <2>3
<1>10. k = n + 1
  BY DEF k
<1>11. \A i \in 1 .. k - 1 : v[i] = u[i]
  <2> SUFFICES ASSUME NEW i \in 1 .. k - 1 PROVE v[i] = u[i]
    OBVIOUS
  <2>1. i \in 1 .. n /\ i \in 1 .. Len(u) + 1 /\ i <= n + 1
    BY <1>1, <1>10
  <2> QED BY <1>7, <1>9, <2>1
<1>12. v[k] = first
  <2>1. n + 1 \in 1 .. Len(u) + 1 /\ n + 1 <= n + 1
    BY <1>1
  <2> QED BY <1>7, <1>9, <1>10, <2>1
<1>13. v[k + 1] = second
  <2>1. k + 1 \in 1 .. Len(u) + 1 /\ ~(k + 1 <= n + 1) /\ (k + 1) - (n + 1) = 1
    BY <1>1, <1>10
  <2>2. v[k + 1] = b[(k + 1) - (n + 1)]
    BY <1>9, <2>1
  <2> QED BY <1>8, <2>1, <2>2
<1>14. \A i \in k + 2 .. Len(v) : v[i] = u[i - 1]
  <2> SUFFICES ASSUME NEW i \in k + 2 .. Len(v) PROVE v[i] = u[i - 1]
    OBVIOUS
  <2>0. i \in k + 2 .. Len(u) + 1
    BY <1>9
  <2>1. /\ i \in 1 .. Len(u) + 1 /\ ~(i <= n + 1)
        /\ i - (n + 1) \in 2 .. Len(u) - n /\ n + (i - (n + 1)) = i - 1
    BY <1>1, <1>10, <2>0
  <2> QED BY <1>8, <1>9, <2>1
<1>15. u[k].part = "whole"
  BY <1>10
<1>16. v[k] = [u[k] EXCEPT !.part = "first"] /\ v[k + 1] = [u[k] EXCEPT !.part = "second"]
  BY <1>12, <1>13 DEF first, second
<1>17. k \in 1 .. Len(u) /\ k \in DOMAIN u /\ Len(v) = Len(u) + 1
  BY <1>1, <1>9, LenProperties
<1> QED BY <1>11, <1>14, <1>15, <1>16, <1>17 DEF Halved, CutAt

\* A read moves a stretch of the stream into buf, and perhaps halves a reply.
LEMMA ReadSomeStream ==
    ASSUME TypeOK, PairTyped, PairTyped', ConnInv, RestParsed, ReadSome, UNCHANGED clientVars
    PROVE  Stream # <<>> /\ (Stream' = Stream \/ Halved(Stream, Stream'))
<1> DEFINE whole(n) == SubSeq(toClient, 1, n)
           later(n) == SubSeq(toClient, n + 1, Len(toClient))
           data(n, cut) == IF cut THEN Append(whole(n), [later(n)[1] EXCEPT !.part = "first"]) ELSE whole(n)
           Reads(i, n, cut) ==
              /\ FirstPendingRead(i)
              /\ n > 0 \/ cut
              /\ cut => later(n) # <<>> /\ later(n)[1].part = "whole"
              /\ toClient' = IF cut THEN [later(n) EXCEPT ![1].part = "second"] ELSE later(n)
              /\ readOps' = [j \in DOMAIN readOps |->
                               IF j = i THEN [st |-> "ok", data |-> data(n, cut)]
                                        ELSE Overwrite(readOps[j], data(n, cut))]
<1>1. UNCHANGED rest
  BY EnvironmentKeeps
<1>2. PICK i \in DOMAIN readOps, n \in 0 .. Len(toClient), cut \in BOOLEAN : Reads(i, n, cut)
  BY Zenon DEF ReadSome
<1>3. i = 1 /\ readOps \in Seq(ReadOp) /\ Len(readOps) = 1 /\ frame = "none" /\ rest = <<>> /\ Stream = toClient
  BY <1>2, ReaderWaits
<1>4. ReadData' = data(n, cut)
  <2> DEFINE d == data(n, cut)
             op == [st |-> "ok", data |-> d]
  <2>0. op.st = "ok" /\ op.data = d
    OBVIOUS
  <2>1. 1 \in DOMAIN readOps
    BY <1>3, LenProperties
  <2>2. readOps' = [j \in DOMAIN readOps |-> IF j = i THEN op ELSE Overwrite(readOps[j], d)]
    BY <1>2
  <2> HIDE DEF op, d
  <2>3. 1 \in DOMAIN readOps' /\ readOps'[1] = op
    BY <1>3, <2>1, <2>2
  <2>4. readOps' # <<>>
    BY <2>3
  <2> QED BY <2>0, <2>3, <2>4 DEF ReadData, d
<1>5. Stream' = data(n, cut) \o toClient'
  <2>1. ReadData' \in Seq(Unit) /\ toClient' \in Seq(Unit)
    BY DEF PairTyped
  <2>2. ReadData' \o toClient' \in Seq(Unit)
    BY <2>1, ConcatProperties
  <2>3. Stream' = <<>> \o (ReadData' \o toClient')
    BY <1>1, <1>3 DEF Stream
  <2>4. Stream' = ReadData' \o toClient'
    BY <2>2, <2>3, ConcatEmptySeq
  <2> QED BY <1>4, <2>4
<1>6. toClient \in Seq(Unit) /\ Len(toClient) \in Nat /\ n \in Nat /\ n <= Len(toClient)
  BY LenProperties DEF PairTyped
<1>7. n > 0 \/ cut
  BY <1>2
<1>8. ASSUME cut PROVE n \in 0 .. Len(toClient) - 1
  <2>1. later(n) # <<>>
    BY <1>2, <1>8
  <2>2. CASE n = Len(toClient)
    <3>1. later(n) = <<>>
      BY <1>6, <2>2, SubSeqEmpty
    <3> QED BY <2>1, <3>1
  <2> QED BY <1>6, <2>2
<1>9. toClient # <<>>
  <2>1. Len(toClient) # 0
    BY <1>6, <1>7, <1>8
  <2> QED BY <2>1, EmptySeq
<1>10. CASE cut
  <2>1. later(n)[1].part = "whole"
    BY <1>2, <1>10
  <2>2. later(n)[1] = toClient[n + 1]
    <3>0. n + 1 \in 1 .. Len(toClient) + 1 /\ 1 \in 1 .. Len(toClient) - (n + 1) + 1 /\ (n + 1) + 1 - 1 = n + 1
      BY <1>6, <1>8, <1>10
    <3>1. \A j \in 1 .. Len(toClient) - (n + 1) + 1 : later(n)[j] = toClient[(n + 1) + j - 1]
      BY <1>6, <3>0, SuffixProperties
    <3> HIDE DEF later
    <3> QED BY <3>0, <3>1
  <2>3. Stream' = Append(SubSeq(toClient, 1, n), [later(n)[1] EXCEPT !.part = "first"])
                    \o [later(n) EXCEPT ![1].part = "second"]
    BY <1>2, <1>5, <1>10
  <2>4. toClient[n + 1].part = "whole" /\ n \in 0 .. Len(toClient) - 1 /\ toClient \in Seq(Unit)
    BY <1>6, <1>8, <1>10, <2>1, <2>2
  <2>5. later(n) = SubSeq(toClient, n + 1, Len(toClient))
    OBVIOUS
  <2> HIDE DEF later, whole, data, Reads
  <2>6. \A l, v : /\ l = SubSeq(toClient, n + 1, Len(toClient))
                 /\ v = Append(SubSeq(toClient, 1, n), [l[1] EXCEPT !.part = "first"])
                           \o [l EXCEPT ![1].part = "second"]
                 => Halved(toClient, v)
    BY <2>4, CutPiece
  <2> QED BY <1>3, <1>9, <2>3, <2>5, <2>6
<1>11. CASE ~cut
  <2>1. Stream' = SubSeq(toClient, 1, n) \o SubSeq(toClient, n + 1, Len(toClient))
    BY <1>2, <1>5, <1>11
  <2>2. Stream' = toClient
    BY <1>6, <2>1, Cut
  <2> QED BY <1>3, <1>9, <2>2
<1> QED BY <1>10, <1>11

-----------------------------------------------------------------------------
(* The steps keep the pairing.                                             *)

LEMMA HandlersKept ==
    ASSUME HandlersPaired, UNCHANGED <<delivered, handlers, strand, issued>>,
           frame' = "handler" <=> frame = "handler"
    PROVE  HandlersPaired' /\ Popped' = Popped /\ Queued' = Queued
<1>1. Popped' = Popped
  BY DEF Popped
<1>2. Queued' = Queued
  BY <1>1 DEF Queued
<1> QED BY <1>1, <1>2 DEF HandlersPaired

LEMMA RepliesKept ==
    ASSUME PairTyped, RepliesComing, Stream' = Stream, redisParser' = redisParser,
           Len(delivered') = Len(delivered), Asked' \in Int, Asked <= Asked',
           link' = "up" => link = "up" /\ Back' = Back
    PROVE  RepliesComing'
<1>1. At' = At
  BY DEF At
<1>2. Follow(Stream, At, Asked')
  <2>1. Follow(Stream, At, Asked) /\ Stream \in Seq(Unit) /\ Asked \in Int
    BY DEF RepliesComing, PairTyped
  <2> QED BY <2>1, FollowUpTo
<1>3. Follow(Stream', At', Asked')
  BY <1>1, <1>2
<1>4. link' = "up" => EndsAt(Stream', At', 2 * Back')
  BY <1>1 DEF RepliesComing
<1>5. At' <= 2 * Asked'
  <2>1. At <= 2 * Asked /\ At \in Int /\ Asked \in Int
    BY DEF RepliesComing, PairTyped
  <2>2. \A a, b, c \in Int : a <= 2 * b /\ b <= c => a <= 2 * c
    OBVIOUS
  <2>3. At <= 2 * Asked'
    BY <2>1, <2>2
  <2> QED BY <1>1, <2>3
<1>6. redisParser' \in {NoReply, ReplyTo(Len(delivered') + 1)}
  BY DEF RepliesComing
<1> QED BY <1>3, <1>4, <1>5, <1>6 DEF RepliesComing

\* Where nothing is under way, nothing is asked for, and the reply to come is to the next request.
LEMMA NothingComing ==
    PairTyped /\ frame # "handler" /\ NothingLeft =>
        /\ dataQueued = <<>> /\ rest = <<>> /\ ReadData = <<>> /\ toClient = <<>>
        /\ RepliesComing /\ Commands(Sent, Back)
<1> SUFFICES ASSUME PairTyped, frame # "handler", NothingLeft
             PROVE  /\ dataQueued = <<>> /\ rest = <<>> /\ ReadData = <<>> /\ toClient = <<>>
                    /\ RepliesComing /\ Commands(Sent, Back)
  OBVIOUS
<1>1. dataQueued = <<>>
  <2>1. Left \o dataQueued = <<>>
    <3>1. Left \o dataQueued \in Seq(Request)
      BY ConcatProperties DEF PairTyped
    <3> QED BY <3>1, ConcatEqualIffEmpty DEF PairTyped, NothingLeft, Sent
  <2> QED BY <2>1, ConcatEqualIffEmpty DEF PairTyped
<1>2. rest = <<>> /\ ReadData = <<>> /\ toClient = <<>>
  <2>1. ReadData \o toClient \in Seq(Unit)
    BY ConcatProperties DEF PairTyped
  <2>2. rest = <<>> /\ ReadData \o toClient = <<>>
    BY <2>1, ConcatEqualIffEmpty DEF PairTyped, NothingLeft, Stream
  <2> QED BY <2>2, ConcatEqualIffEmpty DEF PairTyped
<1>3. Len(handlers) = 0 /\ Len(dataQueued) = 0 /\ Len(Sent) = 0
  BY <1>1, EmptySeq DEF NothingLeft
<1>4. Popped = Len(delivered) /\ Queued = Len(delivered) /\ Asked = Len(delivered) /\ Back = Len(delivered)
  BY <1>3 DEF Popped, Queued, Asked, Back, PairTyped
<1>5. At = 2 * Len(delivered)
  BY DEF At, NothingLeft, PairTyped
<1>6. RepliesComing
  <2>1. Stream = <<>> /\ redisParser = NoReply
    BY DEF NothingLeft
  <2>2. At <= 2 * Asked /\ At = 2 * Back
    BY <1>4, <1>5 DEF PairTyped
  <2>3. Follow(Stream, At, Asked) /\ EndsAt(Stream, At, 2 * Back)
    BY <2>1, <2>2, FollowNothing
  <2> QED BY <2>1, <2>2, <2>3 DEF RepliesComing
<1>7. Commands(Sent, Back)
  BY <1>3 DEF Commands
<1> QED BY <1>1, <1>2, <1>6, <1>7

LEMMA NothingComingNext ==
    PairTyped' /\ frame' # "handler" /\ NothingLeft' => RepliesComing' /\ Commands(Sent', Back')
<1>1. (PairTyped /\ frame # "handler" /\ NothingLeft => RepliesComing /\ Commands(Sent, Back))'
  BY NothingComing, PTL
<1> QED BY <1>1

\* What is under way is the same, wherever in the client the replies are.
LEMMA Unmoved ==
    ASSUME PairTyped, PairInv,
           UNCHANGED <<delivered, handlers, strand, issued, redisParser, dataQueued, subs,
                       writeOps, toServer>>,
           Stream' = Stream, frame' = "handler" <=> frame = "handler", link' = "up" => link = "up"
    PROVE  HandlersPaired' /\ RepliesComing' /\ RequestsGoing' /\ (NothingLeft => NothingLeft')
<1>1. HandlersPaired' /\ Queued' = Queued
  BY HandlersKept DEF PairInv
<1>2. Left' = Left
  BY DEF Left
<1>3. Sent' = Sent
  BY <1>2 DEF Sent
<1>4. Asked' = Asked /\ Back' = Back
  BY <1>1, <1>3 DEF Asked, Back
<1>5. RepliesComing'
  <2>1. Asked' \in Int /\ Asked <= Asked' /\ Len(delivered') = Len(delivered)
    BY <1>4 DEF PairTyped
  <2> QED BY <1>4, <2>1, RepliesKept DEF PairInv
<1>6. RequestsGoing'
  BY <1>3, <1>4 DEF PairInv, RequestsGoing
<1>7. NothingLeft => NothingLeft'
  BY <1>3 DEF NothingLeft
<1> QED BY <1>1, <1>5, <1>6, <1>7

\* An application that is settled is owed nothing.
LEMMA SettledIsOver ==
    ASSUME PairTyped, PairInv, Settled
    PROVE  Stream = <<>> /\ redisParser = NoReply /\ dataQueued = <<>>
<1>1. frame = "none" /\ handlers = <<>> /\ Len(handlers) = 0
  BY EmptySeq DEF Settled, Outside
<1>2. Popped = Len(delivered) /\ Queued = Len(delivered) /\ Asked = Len(delivered) - Len(dataQueued)
  BY <1>1 DEF Popped, Queued, Asked, PairTyped
<1>3. At <= 2 * Asked
  BY DEF PairInv, RepliesComing
<1>4. Len(dataQueued) = 0 /\ redisParser = NoReply /\ At = 2 * Len(delivered)
  <2>1. redisParser = NoReply => At = 2 * Len(delivered)
    BY DEF At, PairTyped
  <2>2. redisParser # NoReply => At = 2 * Len(delivered) + 1
    BY DEF At, PairTyped
  <2> QED BY <1>2, <1>3, <2>1, <2>2 DEF PairTyped
<1>5. dataQueued = <<>>
  BY <1>4, NoneOf DEF PairTyped
<1>6. Stream = <<>>
  <2> SUFFICES ASSUME Stream # <<>> PROVE FALSE
    OBVIOUS
  <2>1. Len(Stream) \in Nat \ {0} /\ Stream[1] \in Unit
    BY EmptySeq, ElementOfSeq DEF PairTyped
  <2>2. StartOf(Stream[1]) = At /\ Stream[1].reply.id <= Asked
    BY <2>1 DEF PairInv, RepliesComing, Follow
  <2>3. Stream[1].reply.id \in Nat
    BY <2>1, PieceTypes
  <2>4. StartOf(Stream[1]) <= 2 * Stream[1].reply.id - 1
    BY <2>3 DEF StartOf
  <2>5. Asked = Len(delivered) /\ Len(delivered) \in Nat
    BY <1>2, <1>4 DEF PairTyped
  <2> QED BY <1>4, <2>2, <2>3, <2>4, <2>5
<1> QED BY <1>4, <1>5, <1>6

LEMMA ConnectPair ==
    ASSUME PairTyped, PairInv, Connect
    PROVE  PairInv'
<1>1. /\ UNCHANGED <<handlers, dataQueued, strand, frame, rest, issued, delivered, readOps, writeOps>>
      /\ UNCHANGED <<toServer, toClient, subs>>
      /\ link' = "up" => link = "up"
      /\ \/ state' = "Connecting" /\ state # "Connected" /\ redisParser' \in {NoReply, redisParser}
         \/ state' = state /\ redisParser' = redisParser
  BY DEF Connect, StartConnect, queueVars, linkVars
<1>2. redisParser' = redisParser
  BY <1>1 DEF PairInv, PlainConn, RestParsed, NothingLeft
<1>3. Stream' = Stream
  BY <1>1 DEF Stream, ReadData
<1>4. HandlersPaired' /\ RepliesComing' /\ RequestsGoing' /\ (NothingLeft => NothingLeft')
  BY <1>1, <1>2, <1>3, Unmoved
<1>5. PlainConn'
  BY <1>1, <1>4 DEF PairInv, PlainConn, RestParsed
<1> QED BY <1>4, <1>5 DEF PairInv

LEMMA DisconnectPair ==
    ASSUME CommandsOnly, TypeOK, TypeOK', PairTyped, PairTyped', PairInv, Disconnect
    PROVE  PairInv'
<1>1. /\ UNCHANGED <<delivered, strand, issued, frame, rest, redisParser, dataQueued>>
      /\ handlers' = <<>> /\ CloseSocket /\ state' = "Closed"
      /\ Settled
  BY DEF Disconnect, Close, MayDisconnect, CommandsOnly, loopVars
<1>2. /\ frame = "none" /\ handlers = <<>> /\ strand = <<>> /\ writeOps = <<>>
      /\ Stream = <<>> /\ redisParser = NoReply /\ dataQueued = <<>>
  BY <1>1, SettledIsOver DEF Settled, Outside
<1>3. writeOps' = <<>>
  BY <1>1, <1>2 DEF CloseSocket
<1>4. link' = "closed" /\ toServer' = <<>> /\ toClient' = <<>> /\ subs' = {}
  BY <1>1 DEF CloseSocket
<1>5. rest = <<>> /\ ReadData = <<>>
  <2>1. ReadData \o toClient \in Seq(Unit)
    BY ConcatProperties DEF PairTyped
  <2>2. rest = <<>> /\ ReadData \o toClient = <<>>
    BY <1>2, <2>1, ConcatEqualIffEmpty DEF PairTyped, Stream
  <2> QED BY <2>2, ConcatEqualIffEmpty DEF PairTyped
<1>6. ReadData' = <<>>
  <2>1. CASE readOps = <<>>
    <3>1. readOps' = <<>>
      BY <1>1, <2>1 DEF CloseSocket
    <3> QED BY <3>1 DEF ReadData
  <2>2. CASE readOps # <<>>
    <3>1. 1 \in DOMAIN readOps /\ readOps[1] \in ReadOp
      <4>1. readOps \in Seq(ReadOp)
        BY DEF TypeOK, EnvTypeOK
      <4> QED BY <2>2, <4>1, EmptySeq, ElementOfSeq, LenProperties
    <3>2. readOps'[1] = IF readOps[1].st = "pending" THEN [readOps[1] EXCEPT !.st = "aborted"]
                                                     ELSE readOps[1]
      BY <1>1, <3>1 DEF CloseSocket
    <3>3. \A op \in ReadOp : [op EXCEPT !.st = "aborted"].st = "aborted"
      BY DEF ReadOp
    <3>4. CASE readOps[1].st = "pending"
      BY <3>1, <3>2, <3>3, <3>4 DEF ReadData
    <3>5. CASE readOps[1].st # "pending"
      BY <1>5, <2>2, <3>2, <3>5 DEF ReadData
    <3> QED BY <3>4, <3>5
  <2> QED BY <2>1, <2>2
<1>7. NothingLeft'
  <2>1. Stream' = <<>>
    BY <1>1, <1>4, <1>5, <1>6, EmptySeq, ConcatEqualIffEmpty DEF Stream
  <2>2. Left' = <<>>
    BY <1>3 DEF Left
  <2>3. Sent' = <<>>
    BY <1>1, <1>2, <1>4, <2>2, EmptySeq, ConcatEqualIffEmpty DEF Sent
  <2> QED BY <1>1, <1>2, <1>3, <2>1, <2>3 DEF NothingLeft
<1>8. HandlersPaired'
  <2>1. handlers' = handlers
    BY <1>1, <1>2
  <2> QED BY <1>1, <2>1, HandlersKept DEF PairInv
<1>9. RepliesComing' /\ Commands(Sent', Back')
  BY <1>1, <1>2, <1>7, NothingComingNext
<1>10. RequestsGoing'
  BY <1>3, <1>4, <1>9, EmptySeq DEF RequestsGoing
<1>11. PlainConn'
  BY <1>1, <1>2, <1>5, <1>7 DEF PlainConn, RestParsed
<1> QED BY <1>8, <1>9, <1>10, <1>11 DEF PairInv

LEMMA CommandPair ==
    ASSUME TypeOK, TypeOK', PairTyped, PairInv, Command \/ Publish
    PROVE  PairInv'
<1>1. /\ UNCHANGED <<state, handlers, dataQueued, frame, rest, redisParser, delivered>>
      /\ UNCHANGED <<link, toServer, toClient, subs, readOps, writeOps>>
  BY DEF Command, Publish, Request1, loopVars, envVars, linkVars, opVars
<1>2. /\ Stream' = Stream /\ Left' = Left /\ Popped' = Popped
  BY <1>1 DEF Stream, ReadData, Left, Popped
<1>3. Sent' = Sent /\ Queued' = Queued
  BY <1>1, <1>2 DEF Sent, Queued
<1>4. CASE UNCHANGED <<strand, issued>>
  <2>1. HandlersPaired' /\ RepliesComing' /\ RequestsGoing' /\ (NothingLeft => NothingLeft')
    BY <1>1, <1>2, <1>4, Unmoved
  <2> QED BY <1>1, <2>1 DEF PairInv, PlainConn, RestParsed
<1>5. CASE state = "Connected" /\ Post("command", NoChannel)
  <2>1. Asked' = Asked /\ Back' = Back
    BY <1>1, <1>3 DEF Asked, Back
  <2>2. RepliesComing'
    <3>1. Asked' \in Int /\ Asked <= Asked' /\ Len(delivered') = Len(delivered)
      BY <1>1, <2>1 DEF PairTyped
    <3> QED BY <1>1, <1>2, <2>1, <3>1, RepliesKept DEF PairInv
  <2>3. RequestsGoing'
    BY <1>1, <1>3, <2>1 DEF PairInv, RequestsGoing
  <2>4. PlainConn'
    BY <1>1, <1>5 DEF PairInv, PlainConn, RestParsed
  <2>5. HandlersPaired'
    <3> DEFINE job == [run |-> "doAsyncCommand",
                       req |-> [kind |-> "command", id |-> issued + 1, chan |-> NoChannel]]
    <3>1. issued' = issued + 1 /\ strand' = Append(strand, job)
      BY <1>5 DEF Post
    <3>2. issued = Queued + Len(strand) /\ issued \in Nat
      BY DEF PairInv, HandlersPaired, TypeOK
    <3>3. strand \in Seq(Job) /\ job \in Job
      <4>1. [kind |-> "command", id |-> issued + 1, chan |-> NoChannel] \in Request
        BY <3>2 DEF Request
      <4> QED BY <4>1, JobTypes DEF TypeOK
    <3>4. job.run = "doAsyncCommand" /\ job.req.kind = "command" /\ job.req.id = issued + 1
      OBVIOUS
    <3> HIDE DEF job
    <3>5. /\ Len(strand') = Len(strand) + 1 /\ strand'[Len(strand) + 1] = job
          /\ \A i \in 1 .. Len(strand) : strand'[i] = strand[i]
      BY <3>1, <3>3, AppendProperties
    <3>6. ASSUME NEW i \in 1 .. Len(strand')
          PROVE  /\ strand'[i].run = "doAsyncCommand"
                 /\ strand'[i].req.kind = "command" /\ strand'[i].req.id = Queued' + i
      <4>1. i \in 1 .. Len(strand) \/ i = Len(strand) + 1
        <5>1. i \in 1 .. Len(strand) + 1 /\ Len(strand) \in Nat
          BY <3>5 DEF PairTyped
        <5> QED BY <5>1
      <4>2. CASE i \in 1 .. Len(strand)
        <5>1. /\ strand[i].run = "doAsyncCommand"
              /\ strand[i].req.kind = "command" /\ strand[i].req.id = Queued + i
          BY <4>2 DEF PairInv, HandlersPaired
        <5> QED BY <1>3, <3>5, <4>2, <5>1
      <4>3. CASE i = Len(strand) + 1
        <5>1. issued + 1 = Queued + (Len(strand) + 1)
          BY <3>2 DEF PairTyped
        <5> QED BY <1>3, <3>4, <3>5, <4>3, <5>1
      <4> QED BY <4>1, <4>2, <4>3
    <3>7. issued' = Queued' + Len(strand')
      BY <1>3, <3>1, <3>2, <3>5 DEF PairTyped
    <3> QED BY <1>1, <1>2, <3>6, <3>7 DEF PairInv, HandlersPaired
  <2> QED BY <2>2, <2>3, <2>4, <2>5 DEF PairInv
<1> QED BY <1>4, <1>5 DEF Command, Publish, Request1

LEMMA OneMore == \A n \in Nat : \A i \in 1 .. n + 1 : i \in 1 .. n \/ i = n + 1
OBVIOUS

\* The writer starts on all that is queued.
LEMMA TransmitAll ==
    ASSUME NEW q \in Seq(Request), NEW ops, ops = <<>>, Transmit(q, ops), link # "closed"
    PROVE  /\ dataQueued' = <<>> /\ Left' = q
           /\ \A i \in 1 .. Len(writeOps') : writeOps'[i].st = "pending"
<1>1. CASE q = <<>>
  <2>1. writeOps' = <<>> /\ Len(writeOps') = 0
    BY <1>1 DEF Transmit
  <2> QED BY <1>1, <2>1 DEF Left, Transmit
<1>2. CASE q # <<>>
  <2> DEFINE op == [st |-> "pending", left |-> q]
  <2>1. writeOps' = Append(<<>>, op)
    BY <1>2 DEF Transmit, StartedWrite
  <2>2. op.st = "pending" /\ op.left = q
    OBVIOUS
  <2> HIDE DEF op
  <2>3. writeOps' # <<>> /\ Len(writeOps') = 1 /\ writeOps'[1] = op
    BY <2>1
  <2> QED BY <2>2, <2>3 DEF Left, Transmit
<1> QED BY <1>1, <1>2

LEMMA DoAsyncCommandPair ==
    ASSUME TypeOK, PairTyped, PairTyped', SingleWriter, ConnInv, PairInv, DoAsyncCommand
    PROVE  PairInv'
<1> DEFINE req == Head(strand).req
<1>1. /\ UNCHANGED <<state, rest, redisParser, frame, delivered, issued>>
      /\ UNCHANGED <<link, toServer, toClient, subs, readOps>>
      /\ frame = "none" /\ strand # <<>>
      /\ handlers' = Append(handlers, req.id) /\ strand' = Tail(strand)
      /\ \/ WriterIdle /\ Transmit(Append(dataQueued, req), writeOps)
         \/ dataQueued' = Append(dataQueued, req) /\ UNCHANGED <<dataWrited, writeOps>>
  BY DEF DoAsyncCommand, loopVars, historyVars, linkVars
<1>2. /\ Len(strand) \in Nat \ {0} /\ Head(strand) = strand[1] /\ strand[1] \in Job
      /\ Len(strand') = Len(strand) - 1
      /\ \A i \in 1 .. Len(strand) - 1 : strand'[i] = strand[i + 1]
  <2>1. strand \in Seq(Job)
    BY DEF TypeOK
  <2> QED BY <1>1, <2>1, EmptySeq, HeadTailProperties, ElementOfSeq
<1>3. req \in Request /\ req.kind = "command" /\ req.id = Queued + 1
  <2>1. strand[1].run = "doAsyncCommand" /\ strand[1].req.kind = "command" /\ strand[1].req.id = Queued + 1
    BY <1>2 DEF PairInv, HandlersPaired
  <2> QED BY <1>2, <2>1, JobTypes
<1> HIDE DEF req
<1>4. /\ Len(handlers') = Len(handlers) + 1
      /\ handlers'[Len(handlers) + 1] = Queued + 1
      /\ \A i \in 1 .. Len(handlers) : handlers'[i] = handlers[i]
  <2>1. handlers \in Seq(Nat) /\ req.id \in Nat
    BY <1>3, ReplyTypes DEF TypeOK
  <2> QED BY <1>1, <1>3, <2>1, AppendProperties
<1>5. Popped' = Popped /\ Queued' = Queued + 1
  <2>1. Popped' = Popped
    BY <1>1 DEF Popped
  <2> QED BY <1>4, <2>1 DEF Queued, PairTyped
<1>6. HandlersPaired'
  <2>1. \A i \in 1 .. Len(handlers') : handlers'[i] = Popped' + i
    <3> SUFFICES ASSUME NEW i \in 1 .. Len(handlers') PROVE handlers'[i] = Popped' + i
      OBVIOUS
    <3>0. Len(handlers') = Len(handlers) + 1 /\ Len(handlers) \in Nat
      BY <1>4 DEF PairTyped
    <3>1. i \in 1 .. Len(handlers) \/ i = Len(handlers) + 1
      BY <3>0, OneMore
    <3>2. CASE i \in 1 .. Len(handlers)
      BY <1>4, <1>5, <3>2 DEF PairInv, HandlersPaired
    <3>3. CASE i = Len(handlers) + 1
      <4>1. Queued + 1 = Popped + i
        BY <3>3 DEF Queued, PairTyped
      <4> QED BY <1>4, <1>5, <3>3, <4>1
    <3> QED BY <3>1, <3>2, <3>3
  <2>2. ASSUME NEW i \in 1 .. Len(strand')
        PROVE  /\ strand'[i].run = "doAsyncCommand"
               /\ strand'[i].req.kind = "command" /\ strand'[i].req.id = Queued' + i
    <3>1. i + 1 \in 1 .. Len(strand) /\ strand'[i] = strand[i + 1]
      BY <1>2
    <3>2. Queued + (i + 1) = Queued' + i
      BY <1>5 DEF PairTyped
    <3> QED BY <3>1, <3>2 DEF PairInv, HandlersPaired
  <2>3. issued' = Queued' + Len(strand')
    <3>1. issued = Queued + Len(strand)
      BY DEF PairInv, HandlersPaired
    <3> QED BY <1>1, <1>2, <1>5, <3>1 DEF PairTyped
  <2> QED BY <1>1, <2>1, <2>2, <2>3 DEF PairInv, HandlersPaired
<1>7. link \in {"up", "dropped"} /\ state = "Connected"
  <2>1. state = "Connected"
    BY <1>1 DEF PairInv, PlainConn, RestParsed, NothingLeft
  <2> QED BY <2>1 DEF ConnInv
<1>8. Append(dataQueued, req) \in Seq(Request) /\ Len(Append(dataQueued, req)) = Len(dataQueued) + 1
  BY <1>3, AppendProperties DEF PairTyped
<1>9. /\ Left' \o dataQueued' = Left \o Append(dataQueued, req)
      /\ Asked <= Asked'
      /\ \A i \in 1 .. Len(writeOps') : /\ writeOps'[i].st = "ok" => writeOps'[i].left = <<>>
                                        /\ writeOps'[i].st = "error" => link # "up"
  <2>1. CASE WriterIdle /\ Transmit(Append(dataQueued, req), writeOps)
    <3>1. writeOps = <<>>
      BY <2>1, NoneOf DEF WriterIdle, SingleWriter, TypeOK, EnvTypeOK
    <3>2. /\ dataQueued' = <<>> /\ Left' = Append(dataQueued, req)
          /\ \A i \in 1 .. Len(writeOps') : writeOps'[i].st = "pending"
      BY <1>7, <1>8, <2>1, <3>1, TransmitAll
    <3>3. Left = <<>>
      BY <3>1 DEF Left
    <3>4. Asked <= Asked'
      <4>1. Len(dataQueued') = 0
        BY <3>2, EmptySeq
      <4> QED BY <1>5, <4>1 DEF Asked, PairTyped
    <3> QED BY <1>8, <3>2, <3>3, <3>4, ConcatEmptySeq
  <2>2. CASE dataQueued' = Append(dataQueued, req) /\ UNCHANGED <<dataWrited, writeOps>>
    <3>1. Left' = Left
      BY <2>2 DEF Left
    <3>2. Asked' = Asked
      BY <1>5, <1>8, <2>2 DEF Asked, PairTyped
    <3> QED BY <2>2, <3>1, <3>2 DEF PairTyped, PairInv, RequestsGoing
  <2> QED BY <1>1, <2>1, <2>2
<1>10. Sent' = Append(Sent, req)
  <2>0. Left \in Seq(Request) /\ dataQueued \in Seq(Request) /\ toServer \in Seq(Request) /\ req \in Request
    BY <1>3 DEF PairTyped
  <2>1. Left \o Append(dataQueued, req) = Append(Left \o dataQueued, req)
    BY <2>0, ConcatAppend
  <2>2. Left \o dataQueued \in Seq(Request)
    BY ConcatProperties DEF PairTyped
  <2>3. toServer \o Append(Left \o dataQueued, req) = Append(toServer \o (Left \o dataQueued), req)
    BY <2>0, <2>2, ConcatAppend
  <2> QED BY <1>1, <1>9, <2>1, <2>3 DEF Sent
<1>11. /\ Len(Sent') = Len(Sent) + 1 /\ Sent'[Len(Sent) + 1] = req
       /\ \A i \in 1 .. Len(Sent) : Sent'[i] = Sent[i]
  BY <1>3, <1>10, AppendProperties DEF PairTyped
<1>12. Back' = Back
  BY <1>5, <1>11 DEF Back, PairTyped
<1>13. RepliesComing'
  <2>1. Stream' = Stream
    BY <1>1 DEF Stream, ReadData
  <2>2. Asked' \in Int
    BY DEF PairTyped
  <2> QED BY <1>1, <1>9, <1>12, <2>1, <2>2, RepliesKept DEF PairInv
<1>14. RequestsGoing'
  <2>1. ASSUME link = "up" PROVE Commands(Sent', Back')
    <3>1. ASSUME NEW i \in 1 .. Len(Sent') PROVE Sent'[i].kind = "command" /\ Sent'[i].id = Back' + i
      <4>0. Len(Sent') = Len(Sent) + 1 /\ Len(Sent) \in Nat
        BY <1>11 DEF PairTyped
      <4>1. i \in 1 .. Len(Sent) \/ i = Len(Sent) + 1
        BY <4>0, OneMore
      <4>2. CASE i \in 1 .. Len(Sent)
        BY <1>11, <1>12, <2>1, <4>2 DEF PairInv, RequestsGoing, Commands
      <4>3. CASE i = Len(Sent) + 1
        <5>1. Queued + 1 = Back + i
          BY <4>3 DEF Back, PairTyped
        <5> QED BY <1>3, <1>11, <1>12, <4>3, <5>1
      <4> QED BY <4>1, <4>2, <4>3
    <3> QED BY <3>1 DEF Commands
  <2> QED BY <1>1, <1>9, <2>1 DEF PairInv, RequestsGoing
<1>15. PlainConn'
  BY <1>1, <1>7 DEF PairInv, PlainConn, RestParsed
<1> QED BY <1>6, <1>13, <1>14, <1>15 DEF PairInv

LEMMA AsyncWritePair ==
    ASSUME TypeOK, PairTyped, PairTyped', SingleWriter, ConnInv, PairInv, AsyncWrite
    PROVE  PairInv'
<1>1. /\ UNCHANGED <<state, handlers, strand, rest, redisParser, frame, delivered, issued>>
      /\ UNCHANGED <<link, toServer, toClient, subs, readOps>>
  BY DEF AsyncWrite, loopVars, linkVars
<1>2. PICK i \in DOMAIN writeOps :
         \/ writeOps[i].st = "ok" /\ Transmit(dataQueued, RemoveAt(writeOps, i))
         \/ writeOps[i].st = "error" /\ writeOps' = RemoveAt(writeOps, i) /\ UNCHANGED dataQueued
  BY DEF AsyncWrite
<1>3. RemoveAt(writeOps, i) = <<>> /\ Len(writeOps) = 1 /\ i = 1 /\ writeOps # <<>>
  <2>1. writeOps \in Seq(WriteOp) /\ DOMAIN writeOps = 1 .. Len(writeOps)
    BY LenProperties DEF TypeOK, EnvTypeOK
  <2>2. Len(writeOps) = 1
    BY <2>1 DEF SingleWriter
  <2>3. i = 1 /\ writeOps # <<>>
    <3>1. i \in 1 .. 1
      BY <2>1, <2>2
    <3> QED BY <2>2, <3>1, EmptySeq
  <2> QED BY <2>1, <2>2, <2>3, RemovedAll
<1>4. link \in {"up", "dropped"} /\ state = "Connected"
  <2>1. state = "Connected"
    BY <1>3 DEF PairInv, PlainConn, RestParsed, NothingLeft
  <2> QED BY <2>1 DEF ConnInv
<1>5. HandlersPaired' /\ Queued' = Queued
  BY <1>1, HandlersKept DEF PairInv
<1>6. /\ link = "up" => Left' \o dataQueued' = Left \o dataQueued
      /\ Asked <= Asked'
      /\ \A j \in 1 .. Len(writeOps') : /\ writeOps'[j].st = "ok" => writeOps'[j].left = <<>>
                                        /\ writeOps'[j].st = "error" => link # "up"
  <2>1. CASE writeOps[i].st = "ok" /\ Transmit(dataQueued, RemoveAt(writeOps, i))
    <3>1. Left = <<>>
      BY <1>3, <2>1 DEF Left, PairInv, RequestsGoing
    <3>2. /\ dataQueued' = <<>> /\ Left' = dataQueued
          /\ \A j \in 1 .. Len(writeOps') : writeOps'[j].st = "pending"
      BY <1>3, <1>4, <2>1, TransmitAll DEF PairTyped
    <3>3. Left' \o dataQueued' = Left \o dataQueued
      BY <3>1, <3>2, ConcatEmptySeq DEF PairTyped
    <3>4. Asked <= Asked'
      <4>1. Len(dataQueued') = 0
        BY <3>2, EmptySeq
      <4> QED BY <1>5, <4>1 DEF Asked, PairTyped
    <3> QED BY <3>2, <3>3, <3>4
  <2>2. CASE writeOps[i].st = "error" /\ writeOps' = RemoveAt(writeOps, i) /\ UNCHANGED dataQueued
    <3>1. link # "up"
      BY <1>3, <2>2 DEF PairInv, RequestsGoing
    <3>2. Asked' = Asked
      BY <1>5, <2>2 DEF Asked
    <3>3. Len(writeOps') = 0
      BY <1>3, <2>2
    <3> QED BY <3>1, <3>2, <3>3 DEF PairTyped
  <2> QED BY <1>2, <2>1, <2>2
<1>7. link = "up" => Sent' = Sent /\ Back' = Back
  BY <1>1, <1>5, <1>6 DEF Sent, Back
<1>8. RepliesComing'
  <2>1. Stream' = Stream
    BY <1>1 DEF Stream, ReadData
  <2>2. Asked' \in Int
    BY DEF PairTyped
  <2> QED BY <1>1, <1>6, <1>7, <2>1, <2>2, RepliesKept DEF PairInv
<1>9. RequestsGoing'
  BY <1>1, <1>6, <1>7 DEF PairInv, RequestsGoing
<1>10. PlainConn'
  BY <1>1, <1>4 DEF PairInv, PlainConn, RestParsed
<1> QED BY <1>5, <1>8, <1>9, <1>10 DEF PairInv

LEMMA HandleConnectPair ==
    ASSUME TypeOK, PairTyped, ConnInv, PairInv, HandleAsyncConnect
    PROVE  PairInv'
<1>1. /\ UNCHANGED <<handlers, dataQueued, strand, redisParser, rest, issued, delivered>>
      /\ UNCHANGED <<link, toServer, toClient, subs, readOps, writeOps>>
      /\ frame = "none" /\ connectOps # <<>>
      /\ \/ state' = "Connected" /\ frame' = "connect"
         \/ state' = "Unconnected" /\ frame' = frame
  BY DEF HandleAsyncConnect, queueVars, linkVars
<1>2. Stream' = Stream
  BY <1>1 DEF Stream, ReadData
<1>3. HandlersPaired' /\ RepliesComing' /\ RequestsGoing' /\ (NothingLeft => NothingLeft')
  BY <1>1, <1>2, Unmoved
<1>4. state = "Connecting" /\ NothingLeft /\ rest = <<>>
  BY <1>1 DEF ConnInv, PairInv, PlainConn, RestParsed
<1>5. PlainConn'
  BY <1>1, <1>3, <1>4 DEF PlainConn, RestParsed
<1> QED BY <1>3, <1>5 DEF PairInv

\* With one place to be at, no read is outstanding while a callback or the loop is running.
LEMMA ProcessMessagePair ==
    ASSUME TypeOK, PairTyped, ConnInv, PairInv, ProcessMessage, rest = <<>>, frame \in {"connect", "parse"},
           UNCHANGED <<state, handlers, dataQueued, strand, redisParser, rest, issued, delivered>>,
           UNCHANGED <<link, toServer, toClient, subs, writeOps>>
    PROVE  PairInv'
<1>1. Stream' = Stream /\ frame' = "none"
  BY ProcessMessageStream DEF ProcessMessage
<1>2. HandlersPaired' /\ RepliesComing' /\ RequestsGoing' /\ (NothingLeft => NothingLeft')
  BY <1>1, Unmoved
<1>3. PlainConn'
  BY <1>1, <1>2 DEF PairInv, PlainConn, RestParsed
<1> QED BY <1>2, <1>3 DEF PairInv

LEMMA AsyncReadPair ==
    ASSUME TypeOK, PairTyped, ConnInv, PairInv, AsyncRead
    PROVE  PairInv'
<1>1. /\ UNCHANGED <<state, handlers, dataQueued, strand, redisParser, issued, delivered>>
      /\ UNCHANGED <<link, toServer, toClient, subs, writeOps>>
      /\ frame = "none"
  BY DEF AsyncRead, queueVars, linkVars
<1>2. frame' \in {"none", "parse"} /\ (frame' = "none" => rest' = rest)
  BY <1>1 DEF AsyncRead
<1>3. Stream' = Stream /\ rest = <<>>
  BY AsyncReadStream DEF PairInv, PlainConn
<1>4. HandlersPaired' /\ RepliesComing' /\ RequestsGoing' /\ (NothingLeft => NothingLeft')
  BY <1>1, <1>2, <1>3, Unmoved
<1>5. PlainConn'
  BY <1>1, <1>2, <1>3, <1>4 DEF PairInv, PlainConn, RestParsed
<1> QED BY <1>4, <1>5 DEF PairInv

LEMMA HandlerReturnsPair ==
    ASSUME TypeOK, PairTyped, ConnInv, PairInv, HandlerReturns
    PROVE  PairInv'
<1>1. /\ UNCHANGED <<state, dataQueued, strand, redisParser, rest, issued, delivered>>
      /\ UNCHANGED <<link, toServer, toClient, subs, readOps, writeOps>>
      /\ frame = "handler" /\ frame' = "parse" /\ handlers # <<>> /\ handlers' = Tail(handlers)
  BY DEF HandlerReturns, ConnInv, historyVars, envVars, linkVars, opVars
<1>2. /\ Len(handlers') = Len(handlers) - 1 /\ Len(handlers) \in Nat \ {0}
      /\ \A i \in 1 .. Len(handlers) - 1 : handlers'[i] = handlers[i + 1]
  <2>1. handlers \in Seq(Nat)
    BY DEF TypeOK
  <2> QED BY <1>1, <2>1, HeadTailProperties, EmptySeq
<1>3. Popped' = Popped + 1 /\ Queued' = Queued
  <2>1. Popped = Len(delivered) - 1 /\ Popped' = Len(delivered)
    BY <1>1 DEF Popped, PairTyped
  <2>2. Popped' = Popped + 1
    BY <2>1 DEF PairTyped
  <2> QED BY <1>2, <2>2 DEF Queued, PairTyped
<1>4. HandlersPaired'
  <2>1. ASSUME NEW i \in 1 .. Len(handlers') PROVE handlers'[i] = Popped' + i
    <3>1. i + 1 \in 1 .. Len(handlers) /\ handlers'[i] = handlers[i + 1]
      BY <1>2
    <3>2. Popped + (i + 1) = Popped' + i
      BY <1>3 DEF PairTyped
    <3> QED BY <3>1, <3>2 DEF PairInv, HandlersPaired
  <2> QED BY <1>1, <1>3, <2>1 DEF PairInv, HandlersPaired
<1>5. Sent' = Sent /\ Stream' = Stream
  BY <1>1 DEF Sent, Left, Stream, ReadData
<1>6. Asked' = Asked /\ Back' = Back
  BY <1>1, <1>3, <1>5 DEF Asked, Back
<1>7. RepliesComing'
  <2>1. Asked' \in Int /\ Asked <= Asked'
    BY <1>6 DEF PairTyped
  <2> QED BY <1>1, <1>5, <1>6, <2>1, RepliesKept DEF PairInv
<1>8. RequestsGoing'
  BY <1>1, <1>5, <1>6 DEF PairInv, RequestsGoing
<1>9. PlainConn'
  BY <1>1 DEF PairInv, PlainConn, RestParsed, NothingLeft
<1> QED BY <1>4, <1>7, <1>8, <1>9 DEF PairInv

\* The next piece of the stream is what the parser is waiting for, and the handler at the
\* front is that of its request.
LEMMA NextPiece ==
    ASSUME TypeOK, PairTyped, PairInv, frame = "parse", rest # <<>>
    PROVE  /\ Head(rest) \in Unit /\ Head(rest).reply = ReplyTo(Len(delivered) + 1)
           /\ EndOf(Head(rest)) <= 2 * Asked
           /\ handlers # <<>> /\ Head(handlers) = Len(delivered) + 1
           /\ \/ redisParser = NoReply /\ Head(rest).part \in {"whole", "first"}
              \/ redisParser = ReplyTo(Len(delivered) + 1) /\ Head(rest).part = "second"
           /\ state = "Connected"
<1> DEFINE u == Head(rest)
           d == Len(delivered)
<1>1. rest \in Seq(Unit) /\ ReadData \o toClient \in Seq(Unit)
  BY ConcatProperties DEF PairTyped
<1>2. Stream # <<>> /\ Head(Stream) = u
  BY <1>1, ConcatTail DEF Stream
<1>3. u \in Unit
  BY <1>1, EmptySeq, ElementOfSeq
<1>4. /\ u.reply = ReplyTo(u.reply.id) /\ u.reply.id <= Asked /\ StartOf(u) = At
  <2>1. Stream \in Seq(Unit)
    BY DEF PairTyped
  <2>2. 1 \in 1 .. Len(Stream) /\ Stream[1] = u
    BY <1>2, <2>1, EmptySeq
  <2> QED BY <1>2, <2>2 DEF PairInv, RepliesComing, Follow
<1> HIDE DEF u
<1>5. u.reply.id \in Nat /\ u.part \in {"whole", "first", "second"} /\ d \in Nat /\ Asked \in Int
  BY <1>3, PieceTypes DEF PairTyped
<1>6. /\ u.reply.id = d + 1
      /\ \/ redisParser = NoReply /\ u.part \in {"whole", "first"}
         \/ redisParser = ReplyTo(d + 1) /\ u.part = "second"
  <2> DEFINE id == u.reply.id
  <2>1. redisParser = NoReply \/ redisParser = ReplyTo(d + 1)
    BY DEF PairInv, RepliesComing
  <2>2. NoReply # ReplyTo(d + 1)
    BY DEF NoReply, ReplyTo
  <2>3. CASE redisParser = NoReply
    <3>1. StartOf(u) = 2 * d
      BY <1>4, <1>5, <2>3 DEF At
    <3>2. CASE u.part = "second"
      <4>1. 2 * id - 1 = 2 * d
        BY <3>1, <3>2 DEF StartOf
      <4> QED BY <1>5, <4>1
    <3>3. CASE u.part # "second"
      <4>1. 2 * id - 2 = 2 * d
        BY <3>1, <3>3 DEF StartOf
      <4>2. id = d + 1
        BY <1>5, <4>1
      <4> QED BY <1>5, <2>3, <3>3, <4>2
    <3> QED BY <3>2, <3>3
  <2>4. CASE redisParser = ReplyTo(d + 1)
    <3>1. StartOf(u) = 2 * d + 1
      BY <1>4, <1>5, <2>2, <2>4 DEF At
    <3>2. CASE u.part = "second"
      <4>1. 2 * id - 1 = 2 * d + 1
        BY <3>1, <3>2 DEF StartOf
      <4>2. id = d + 1
        BY <1>5, <4>1
      <4> QED BY <2>4, <3>2, <4>2
    <3>3. CASE u.part # "second"
      <4>1. 2 * id - 2 = 2 * d + 1
        BY <3>1, <3>3 DEF StartOf
      <4> QED BY <1>5, <4>1
    <3> QED BY <3>2, <3>3
  <2> QED BY <2>1, <2>3, <2>4
<1>7. EndOf(u) <= 2 * Asked
  <2>1. EndOf(u) <= 2 * u.reply.id
    BY <1>5 DEF EndOf
  <2>2. EndOf(u) \in Int
    BY <1>3, PieceTypes
  <2>3. u.reply.id <= Asked
    BY <1>4
  <2> QED BY <1>5, <2>1, <2>2, <2>3
<1>8. handlers # <<>> /\ Head(handlers) = d + 1
  <2>1. Popped = d
    BY <1>5 DEF Popped
  <2>2. d + 1 <= d + Len(handlers) - Len(dataQueued)
    BY <1>4, <1>6, <2>1 DEF Asked, Queued
  <2>3. Len(handlers) \in Nat /\ Len(dataQueued) \in Nat
    BY DEF PairTyped
  <2>4. 1 \in 1 .. Len(handlers)
    BY <1>5, <2>2, <2>3
  <2>5. handlers[1] = d + 1
    BY <2>1, <2>4 DEF PairInv, HandlersPaired
  <2>6. handlers # <<>>
    BY <2>4, EmptySeq
  <2> QED BY <2>5, <2>6
<1>9. state = "Connected"
  BY <1>2 DEF PairInv, PlainConn, RestParsed, NothingLeft
<1> QED BY <1>3, <1>4, <1>6, <1>7, <1>8, <1>9 DEF u

\* What the parser makes of the next piece: the handler is called at the end of a reply.
LEMMA ParseOutcome ==
    ASSUME TypeOK, PairTyped, PairInv, ParseChunk
    PROVE  /\ rest' = Tail(rest) /\ UNCHANGED <<strand, reported>>
           /\ \/ /\ Head(rest).part = "first" /\ redisParser' = Head(rest).reply
                 /\ UNCHANGED <<frame, delivered>>
              \/ /\ Head(rest).part # "first" /\ redisParser' = NoReply /\ frame' = "handler"
                 /\ delivered' = Append(delivered, [handler |-> Len(delivered) + 1, reply |-> Head(rest).reply])
<1> DEFINE u == Head(rest)
           d == Len(delivered)
<1>1. /\ u \in Unit /\ u.reply = ReplyTo(d + 1)
      /\ handlers # <<>> /\ Head(handlers) = d + 1
      /\ \/ redisParser = NoReply /\ u.part \in {"whole", "first"}
         \/ redisParser = ReplyTo(d + 1) /\ u.part = "second"
      /\ state = "Connected"
  BY NextPiece DEF ParseChunk
<1>2. NoReply # ReplyTo(d + 1)
  BY DEF NoReply, ReplyTo
<1>3. PICK out \in Parse(u) :
         /\ redisParser' = out.parser
         /\ CASE out.result = "Completed" -> rest' = Remains(out.left) /\ DoProcessMessage(out.value)
              [] out.result = "Incompleted" ->
                   /\ rest' = Tail(rest)
                   /\ UNCHANGED <<frame, strand, singleShotMsgHandlers, delivered, reported>>
              [] out.result = "Error" ->
                   /\ rest' = <<>> /\ frame' = "none" /\ Report1("parser")
                   /\ UNCHANGED <<strand, singleShotMsgHandlers, delivered>>
  BY DEF ParseChunk
<1>4. \/ u.part = "first" /\ out.result = "Incompleted" /\ out.parser = u.reply
      \/ /\ u.part # "first" /\ out.result = "Completed" /\ out.value = u.reply
         /\ out.parser = NoReply /\ out.left = 0
  BY <1>1, <1>2 DEF Parse
<1> HIDE DEF u
<1>5. CASE u.part = "first" /\ out.result = "Incompleted" /\ out.parser = u.reply
  BY <1>3, <1>5 DEF u
<1>6. CASE /\ u.part # "first" /\ out.result = "Completed" /\ out.value = u.reply
           /\ out.parser = NoReply /\ out.left = 0
  <2>1. redisParser' = NoReply /\ rest' = Tail(rest) /\ DoProcessMessage(u.reply)
    BY <1>3, <1>6 DEF Remains
  <2>2. CallFront(u.reply)
    BY <1>1, <2>1 DEF DoProcessMessage
  <2> QED BY <1>1, <1>6, <2>1, <2>2 DEF CallFront, u
<1> QED BY <1>4, <1>5, <1>6

LEMMA ParsePair ==
    ASSUME TypeOK, PairTyped, ConnInv, PairInv, ParseChunk
    PROVE  PairInv'
<1> DEFINE u == Head(rest)
           d == Len(delivered)
<1>1. /\ UNCHANGED <<state, handlers, dataQueued, issued>>
      /\ UNCHANGED <<link, toServer, toClient, subs, readOps, writeOps>>
      /\ frame = "parse" /\ rest # <<>>
  BY DEF ParseChunk, envVars, linkVars, opVars
<1>2. /\ u \in Unit /\ u.reply = ReplyTo(d + 1) /\ EndOf(u) <= 2 * Asked
      /\ handlers # <<>> /\ Head(handlers) = d + 1
      /\ \/ redisParser = NoReply /\ u.part \in {"whole", "first"}
         \/ redisParser = ReplyTo(d + 1) /\ u.part = "second"
      /\ state = "Connected"
  BY <1>1, NextPiece
<1>3. NoReply # ReplyTo(d + 1) /\ ReplyTo(d + 1).id = d + 1 /\ d \in Nat
  BY DEF NoReply, ReplyTo, PairTyped
<1>4. /\ rest' = Tail(rest) /\ UNCHANGED strand
      /\ \/ /\ u.part = "first" /\ redisParser' = u.reply /\ UNCHANGED <<frame, delivered>>
         \/ /\ u.part # "first" /\ redisParser' = NoReply /\ frame' = "handler"
            /\ delivered' = Append(delivered, [handler |-> d + 1, reply |-> u.reply])
  BY ParseOutcome
<1> HIDE DEF u
<1>5. Stream' = Tail(Stream) /\ Stream # <<>> /\ Head(Stream) = u
  BY <1>1, <1>4, StreamShrinks DEF u
<1>6. Sent' = Sent
  BY <1>1 DEF Sent, Left
\* At the second piece, or a whole one, the handler is called.
<1>7. /\ HandlersPaired' /\ Queued' = Queued /\ At' = EndOf(u)
      /\ redisParser' \in {NoReply, ReplyTo(Len(delivered') + 1)}
  <2>1. CASE u.part = "first" /\ redisParser' = u.reply /\ UNCHANGED <<frame, delivered>>
    <3>1. HandlersPaired' /\ Queued' = Queued
      BY <1>1, <1>4, <2>1, HandlersKept DEF PairInv
    <3>2. At' = 2 * d + 1
      BY <1>2, <1>3, <2>1 DEF At
    <3>3. EndOf(u) = 2 * (d + 1) - 1
      BY <1>2, <1>3, <2>1 DEF EndOf
    <3>4. At' = EndOf(u)
      BY <1>3, <3>2, <3>3
    <3> QED BY <1>2, <2>1, <3>1, <3>4
  <2>2. CASE /\ u.part # "first" /\ redisParser' = NoReply /\ frame' = "handler"
             /\ delivered' = Append(delivered, [handler |-> d + 1, reply |-> u.reply])
    <3> DEFINE call == [handler |-> d + 1, reply |-> u.reply]
    <3>1. call.handler = d + 1 /\ call.reply.id = d + 1
      BY <1>2, <1>3
    <3>2. call \in [handler : Nat, reply : Reply] /\ delivered \in Seq([handler : Nat, reply : Reply])
      BY <1>2, <1>3, PieceTypes DEF TypeOK
    <3> HIDE DEF call
    <3>3. /\ Len(delivered') = d + 1 /\ delivered'[d + 1] = call
          /\ \A i \in 1 .. d : delivered'[i] = delivered[i]
      BY <2>2, <3>2, AppendProperties DEF call
    <3>4. delivered' # <<>>
      <4>1. Len(delivered') # 0
        BY <1>3, <3>3
      <4> QED BY <4>1, EmptySeq
    <3>5. ASSUME NEW i \in 1 .. Len(delivered')
          PROVE  delivered'[i].handler = i /\ delivered'[i].reply.id = i
      <4>1. i \in 1 .. d \/ i = d + 1
        <5>1. Len(delivered') = d + 1
          BY <3>3
        <5> QED BY <1>3, <5>1, OneMore
      <4>2. CASE i \in 1 .. d
        BY <3>3, <4>2 DEF PairInv, HandlersPaired
      <4>3. CASE i = d + 1
        BY <3>1, <3>3, <4>3
      <4> QED BY <4>1, <4>2, <4>3
    <3>6. Popped' = Popped
      <4>1. Popped = d /\ Popped' = (d + 1) - 1
        BY <1>1, <1>3, <2>2, <3>3 DEF Popped
      <4> QED BY <1>3, <4>1
    <3>7. Queued' = Queued
      BY <1>1, <3>6 DEF Queued
    <3>8. HandlersPaired'
      BY <1>1, <1>4, <3>4, <3>5, <3>6, <3>7 DEF PairInv, HandlersPaired
    <3>9. At' = 2 * (d + 1)
      BY <1>3, <2>2, <3>3 DEF At
    <3>10. EndOf(u) = 2 * (d + 1)
      BY <1>2, <1>3, <2>2 DEF EndOf
    <3> QED BY <2>2, <3>7, <3>8, <3>9, <3>10
  <2> QED BY <1>4, <2>1, <2>2
<1>8. Asked' = Asked /\ Back' = Back
  BY <1>1, <1>6, <1>7 DEF Asked, Back
<1>9. RepliesComing'
  <2>1. Stream \in Seq(Unit) /\ Follow(Stream, At, Asked)
    BY DEF PairTyped, PairInv, RepliesComing
  <2>2. /\ Follow(Tail(Stream), EndOf(Head(Stream)), Asked)
        /\ \A end : EndsAt(Stream, At, end) => EndsAt(Tail(Stream), EndOf(Head(Stream)), end)
    BY <1>5, <2>1, FollowTail
  <2>3. Follow(Stream', At', Asked')
    BY <1>5, <1>7, <1>8, <2>2
  <2>4. link' = "up" => EndsAt(Stream', At', 2 * Back')
    BY <1>1, <1>5, <1>7, <1>8, <2>2 DEF PairInv, RepliesComing
  <2>5. At' <= 2 * Asked'
    BY <1>2, <1>7, <1>8
  <2> QED BY <1>7, <2>3, <2>4, <2>5 DEF RepliesComing
<1>10. RequestsGoing'
  BY <1>1, <1>6, <1>8 DEF PairInv, RequestsGoing
<1>11. PlainConn'
  <2>1. frame' \in {"parse", "handler"}
    BY <1>1, <1>4
  <2> QED BY <1>1, <1>2, <2>1 DEF PlainConn, RestParsed
<1> QED BY <1>7, <1>9, <1>10, <1>11 DEF PairInv

LEMMA HandlerPair ==
    ASSUME TypeOK, TypeOK', PairTyped, PairTyped', SingleWriter, ConnInv, PairInv, Handler
    PROVE  PairInv'
<1>1. CASE DoAsyncCommand
  BY <1>1, DoAsyncCommandPair
<1>2. CASE CallMessageHandler
  <2>1. strand # <<>> /\ Head(strand).run = "msgHandler" /\ strand \in Seq(Job)
    BY <1>2 DEF CallMessageHandler, TypeOK
  <2>2. Head(strand) = strand[1] /\ 1 \in 1 .. Len(strand)
    BY <2>1, EmptySeq
  <2> QED BY <2>1, <2>2 DEF PairInv, HandlersPaired
<1>3. CASE AsyncWrite
  BY <1>3, AsyncWritePair
<1>4. CASE HandleAsyncConnect
  BY <1>4, HandleConnectPair
<1>5. CASE ConnectHandlerReturns
  BY <1>5, ProcessMessagePair DEF ConnectHandlerReturns, PairInv, PlainConn, RestParsed, queueVars, historyVars, linkVars
<1>6. CASE AsyncRead
  BY <1>6, AsyncReadPair
<1>7. CASE ReadAgain
  BY <1>7, ProcessMessagePair DEF ReadAgain, queueVars, historyVars, linkVars
<1>8. CASE ParseChunk
  BY <1>8, ParsePair
<1>9. CASE HandlerReturns
  BY <1>9, HandlerReturnsPair
<1>10. CASE ErrorHandlerReturns
  BY <1>10 DEF ErrorHandlerReturns, PairInv, PlainConn, RestParsed
<1> QED BY <1>1, <1>2, <1>3, <1>4, <1>5, <1>6, <1>7, <1>8, <1>9, <1>10 DEF Handler, ReadLoop

LEMMA AppCallPair ==
    ASSUME CommandsOnly, TypeOK, TypeOK', PairTyped, PairTyped', PairInv, AppCall
    PROVE  PairInv'
<1>1. CASE Connect
  BY <1>1, ConnectPair
<1>2. CASE Disconnect
  BY <1>2, DisconnectPair
<1>3. CASE Command \/ Publish
  BY <1>3, CommandPair
<1>4. CASE \/ \E ch \in Channels : Subscribe(ch) \/ SingleShotSubscribe(ch)
           \/ \E h \in held : Unsubscribe(h)
  <2>1. \/ "subscribe" \in Calls \/ "singleShotSubscribe" \in Calls \/ "unsubscribe" \in Calls
    BY <1>4 DEF Subscribe, SingleShotSubscribe, Unsubscribe, AppMayCall
  <2> QED BY <2>1 DEF CommandsOnly
<1> QED BY <1>1, <1>2, <1>3, <1>4 DEF AppCall

LEMMA ConnectDonePair ==
    ASSUME TypeOK, PairTyped, PairTyped', ConnInv, PairInv, ConnectDone, UNCHANGED clientVars
    PROVE  PairInv'
<1>1. /\ UNCHANGED <<state, handlers, dataQueued, strand, redisParser, frame, rest, issued, delivered>>
      /\ UNCHANGED <<toServer, toClient, subs, readOps, writeOps>>
      /\ connectOps # <<>>
  BY EnvironmentKeeps DEF ConnectDone
<1>2. state = "Connecting" /\ NothingLeft
  BY <1>1 DEF ConnInv, PairInv, PlainConn, RestParsed
<1>3. frame # "handler"
  <2>1. Len(connectOps) # 0
    BY <1>1, NoneOf DEF TypeOK, EnvTypeOK
  <2>2. Running = 0
    BY <2>1, PlaceTypes DEF ConnInv, OnePlace
  <2> QED BY <2>2 DEF Running
<1>4. HandlersPaired'
  BY <1>1, HandlersKept DEF PairInv
<1>5. NothingLeft'
  BY <1>1, <1>2 DEF NothingLeft, Stream, ReadData, Sent, Left
<1>6. RepliesComing' /\ Commands(Sent', Back')
  BY <1>1, <1>3, <1>5, NothingComingNext
<1>7. RequestsGoing'
  <2>1. Len(writeOps') = 0
    BY <1>5, EmptySeq DEF NothingLeft
  <2> QED BY <1>1, <1>6, <2>1 DEF PairInv, RequestsGoing
<1>8. PlainConn'
  BY <1>1, <1>5 DEF PairInv, PlainConn, RestParsed
<1> QED BY <1>4, <1>6, <1>7, <1>8 DEF PairInv

\* Steps of the writing half: what is sent stays the same as long as the connection is up.
LEMMA WritingPair ==
    ASSUME PairTyped, PairInv, state = "Connected", UNCHANGED clientVars,
           UNCHANGED <<link, toClient, subs, readOps>>, link = "up" => Sent' = Sent,
           \A i \in 1 .. Len(writeOps') : /\ writeOps'[i].st = "ok" => writeOps'[i].left = <<>>
                                          /\ writeOps'[i].st = "error" => link # "up"
    PROVE  PairInv'
<1>1. UNCHANGED <<state, handlers, dataQueued, strand, redisParser, frame, rest, issued, delivered>>
  BY EnvironmentKeeps
<1>2. HandlersPaired' /\ Queued' = Queued
  BY <1>1, HandlersKept DEF PairInv
<1>3. Asked' = Asked /\ (link = "up" => Back' = Back)
  BY <1>1, <1>2 DEF Asked, Back
<1>4. RepliesComing'
  <2>1. Stream' = Stream
    BY <1>1 DEF Stream, ReadData
  <2>2. Asked' \in Int /\ Asked <= Asked' /\ Len(delivered') = Len(delivered)
    BY <1>1, <1>3 DEF PairTyped
  <2> QED BY <1>1, <1>3, <2>1, <2>2, RepliesKept DEF PairInv
<1>5. RequestsGoing'
  BY <1>3 DEF PairInv, RequestsGoing
<1>6. PlainConn'
  BY <1>1 DEF PairInv, PlainConn, RestParsed
<1> QED BY <1>2, <1>4, <1>5, <1>6 DEF PairInv

LEMMA WriteSomePair ==
    ASSUME TypeOK, PairTyped, SingleWriter, PairInv, WriteSome, UNCHANGED clientVars
    PROVE  PairInv'
<1> DEFINE taken(i, n) == SubSeq(writeOps[i].left, 1, n)
           kept(i, n)  == SubSeq(writeOps[i].left, n + 1, Len(writeOps[i].left))
           op(i, n)    == [st |-> IF kept(i, n) = <<>> THEN "ok" ELSE "pending", left |-> kept(i, n)]
           Taken(i, n) == /\ toServer' = IF link = "up" THEN toServer \o taken(i, n) ELSE toServer
                          /\ writeOps' = [writeOps EXCEPT ![i] = op(i, n)]
<1>1. UNCHANGED <<link, toClient, subs, readOps>> /\ UNCHANGED dataQueued
  BY EnvironmentKeeps DEF WriteSome
<1>2. PICK i \in DOMAIN writeOps : \E n \in 1 .. Len(writeOps[i].left) : Taken(i, n)
  BY Zenon DEF WriteSome
<1>3. PICK n \in 1 .. Len(writeOps[i].left) : Taken(i, n)
  BY <1>2
<1>4. writeOps \in Seq(WriteOp) /\ DOMAIN writeOps = 1 .. Len(writeOps) /\ writeOps[i] \in WriteOp
  BY ElementOfSeq, LenProperties DEF TypeOK, EnvTypeOK
<1>5. Len(writeOps) = 1
  BY <1>4 DEF SingleWriter
<1>6. i = 1 /\ writeOps # <<>>
  <2>1. i \in 1 .. 1
    BY <1>4, <1>5
  <2> QED BY <1>5, <2>1, EmptySeq
<1>7. Left = writeOps[i].left /\ Left \in Seq(Request)
  BY <1>6 DEF Left, PairTyped
<1>8. /\ taken(i, n) \in Seq(Request) /\ kept(i, n) \in Seq(Request)
      /\ taken(i, n) \o kept(i, n) = Left
  <2>1. n \in 0 .. Len(Left)
    BY <1>7, LenProperties
  <2> QED BY <1>7, <2>1, Cut
<1>9. op(i, n).left = kept(i, n) /\ op(i, n).st # "error" /\ (op(i, n).st = "ok" => kept(i, n) = <<>>)
  OBVIOUS
<1>10. Len(writeOps') = 1 /\ writeOps'[1] = op(i, n) /\ writeOps' # <<>>
  <2>1. op(i, n) \in WriteOp
    BY <1>8, OpTypes
  <2> HIDE DEF op
  <2>2. Len(writeOps') = 1 /\ writeOps'[1] = op(i, n)
    BY <1>3, <1>4, <1>5, <1>6, <2>1, ReplaceType
  <2> QED BY <2>2, EmptySeq
<1>11. Left' = kept(i, n)
  <2> HIDE DEF op, kept
  <2> QED BY <1>9, <1>10 DEF Left
<1>12. toServer' = IF link = "up" THEN toServer \o taken(i, n) ELSE toServer
  BY <1>3
<1> HIDE DEF op, taken, kept
<1>13. ASSUME link = "up" PROVE Sent' = Sent
  <2>0. \A s, t, v \in Seq(Request) : (s \o t) \o v = s \o (t \o v)
    BY ConcatRegroup
  <2>1. toServer \in Seq(Request) /\ dataQueued \in Seq(Request) /\ kept(i, n) \o dataQueued \in Seq(Request)
    BY <1>8, ConcatProperties DEF PairTyped
  <2>2. Sent' = (toServer \o taken(i, n)) \o (kept(i, n) \o dataQueued)
    BY <1>1, <1>11, <1>12, <1>13 DEF Sent
  <2>3. @ = toServer \o (taken(i, n) \o (kept(i, n) \o dataQueued))
    BY <1>8, <2>0, <2>1
  <2>4. taken(i, n) \o (kept(i, n) \o dataQueued) = Left \o dataQueued
    <3>1. (taken(i, n) \o kept(i, n)) \o dataQueued = taken(i, n) \o (kept(i, n) \o dataQueued)
      BY <1>8, <2>0, <2>1
    <3> QED BY <1>8, <3>1
  <2> QED BY <2>2, <2>3, <2>4 DEF Sent
<1>14. \A j \in 1 .. Len(writeOps') : /\ writeOps'[j].st = "ok" => writeOps'[j].left = <<>>
                                      /\ writeOps'[j].st = "error" => link # "up"
  BY <1>9, <1>10
<1>15. state = "Connected"
  BY <1>6 DEF PairInv, PlainConn, RestParsed, NothingLeft
<1> QED BY <1>1, <1>13, <1>14, <1>15, WritingPair

LEMMA WriteFailsPair ==
    ASSUME TypeOK, PairTyped, SingleWriter, PairInv, WriteFails, UNCHANGED clientVars
    PROVE  PairInv'
<1>1. UNCHANGED <<link, toClient, subs, readOps>> /\ link # "up"
  BY DEF WriteFails, Unconnectable, linkVars
<1>2. PICK i \in DOMAIN writeOps : writeOps' = [writeOps EXCEPT ![i] = [st |-> "error", left |-> <<>>]]
  BY DEF WriteFails
<1> DEFINE failed == [st |-> "error", left |-> <<>>]
<1>3. writeOps \in Seq(WriteOp) /\ DOMAIN writeOps = 1 .. Len(writeOps) /\ failed \in WriteOp
  BY LenProperties, OpTypes, EmptySeq DEF TypeOK, EnvTypeOK
<1>4. failed.st = "error" /\ failed.left = <<>>
  OBVIOUS
<1> HIDE DEF failed
<1>5. Len(writeOps') = Len(writeOps)
  BY <1>2, <1>3, ReplaceType DEF failed
<1>6. ASSUME NEW j \in 1 .. Len(writeOps')
      PROVE  /\ writeOps'[j].st = "ok" => writeOps'[j].left = <<>>
             /\ writeOps'[j].st = "error" => link # "up"
  <2>1. writeOps'[j] = failed \/ writeOps'[j] = writeOps[j]
    BY <1>2, <1>3, <1>5 DEF failed
  <2> QED BY <1>1, <1>4, <1>5, <2>1 DEF PairInv, RequestsGoing
<1>7. state = "Connected"
  <2>1. writeOps # <<>>
    BY <1>2, <1>3
  <2> QED BY <2>1 DEF PairInv, PlainConn, RestParsed, NothingLeft
<1> QED BY <1>1, <1>6, <1>7, WritingPair

LEMMA ReadFailsPair ==
    ASSUME TypeOK, PairTyped, ConnInv, PairInv, ReadFails, UNCHANGED clientVars
    PROVE  PairInv'
<1>1. /\ UNCHANGED <<state, handlers, dataQueued, strand, redisParser, frame, rest, issued, delivered>>
      /\ UNCHANGED <<link, toServer, toClient, subs, writeOps>>
  BY EnvironmentKeeps DEF ReadFails, linkVars
<1>2. Stream' = Stream
  BY ReadFailsStream DEF PairInv, PlainConn
<1>3. HandlersPaired' /\ RepliesComing' /\ RequestsGoing' /\ (NothingLeft => NothingLeft')
  BY <1>1, <1>2, Unmoved
<1>4. PlainConn'
  BY <1>1, <1>3 DEF PairInv, PlainConn, RestParsed
<1> QED BY <1>3, <1>4 DEF PairInv

LEMMA ReadSomePair ==
    ASSUME TypeOK, PairTyped, PairTyped', ConnInv, PairInv, ReadSome, UNCHANGED clientVars
    PROVE  PairInv'
<1>1. /\ UNCHANGED <<state, handlers, dataQueued, strand, redisParser, frame, rest, issued, delivered>>
      /\ UNCHANGED <<link, toServer, subs, writeOps>>
  BY EnvironmentKeeps DEF ReadSome
<1>2. Stream # <<>> /\ (Stream' = Stream \/ Halved(Stream, Stream'))
  BY ReadSomeStream DEF PairInv, PlainConn
<1>3. HandlersPaired' /\ Queued' = Queued
  BY <1>1, HandlersKept DEF PairInv
<1>4. Sent' = Sent
  BY <1>1 DEF Sent, Left
<1>5. Asked' = Asked /\ Back' = Back /\ At' = At
  BY <1>1, <1>3, <1>4 DEF Asked, Back, At
<1>6. /\ Follow(Stream', At, Asked)
      /\ \A end : EndsAt(Stream, At, end) => EndsAt(Stream', At, end)
  <2>1. Follow(Stream, At, Asked) /\ Stream \in Seq(Unit) /\ Stream' \in Seq(Unit)
    BY DEF PairInv, RepliesComing, PairTyped
  <2> QED BY <1>2, <2>1, FollowCut
<1>7. RepliesComing'
  <2>1. Follow(Stream', At', Asked')
    BY <1>5, <1>6
  <2>2. link' = "up" => EndsAt(Stream', At', 2 * Back')
    BY <1>1, <1>5, <1>6 DEF PairInv, RepliesComing
  <2> QED BY <1>1, <1>5, <2>1, <2>2 DEF PairInv, RepliesComing
<1>8. RequestsGoing'
  BY <1>1, <1>4, <1>5 DEF PairInv, RequestsGoing
<1>9. PlainConn'
  <2>1. state = "Connected"
    BY <1>2 DEF PairInv, PlainConn, NothingLeft
  <2> QED BY <1>1, <2>1 DEF PairInv, PlainConn, RestParsed
<1> QED BY <1>3, <1>7, <1>8, <1>9 DEF PairInv

LEMMA ServerReplyPair ==
    ASSUME TypeOK, PairTyped, PairInv, ServerReply, UNCHANGED clientVars
    PROVE  PairInv'
<1> DEFINE r == Head(toServer)
           id == Back + 1
           x == [reply |-> ReplyTo(id), part |-> "whole"]
<1>1. /\ UNCHANGED <<state, handlers, dataQueued, strand, redisParser, frame, rest, issued, delivered>>
      /\ UNCHANGED <<link, readOps, writeOps>>
      /\ link = "up" /\ toServer # <<>> /\ toServer' = Tail(toServer)
  BY EnvironmentKeeps DEF ServerReply, opVars
<1>2. toServer \in Seq(Request) /\ Left \o dataQueued \in Seq(Request)
  BY ConcatProperties DEF PairTyped
<1>3. Sent # <<>> /\ Head(Sent) = r /\ Tail(Sent) = Tail(toServer) \o (Left \o dataQueued)
  BY <1>1, <1>2, ConcatTail DEF Sent
<1>4. /\ Len(Sent) \in Nat \ {0} /\ Head(Sent) = Sent[1] /\ Sent[1] \in Request
      /\ Len(Tail(Sent)) = Len(Sent) - 1
      /\ \A i \in 1 .. Len(Sent) - 1 : Tail(Sent)[i] = Sent[i + 1]
  <2>1. Sent \in Seq(Request)
    BY DEF PairTyped
  <2> QED BY <1>3, <2>1, EmptySeq, HeadTailProperties, ElementOfSeq
<1>5. r \in Request /\ r.kind = "command" /\ r.id = id /\ r.chan = NoChannel
  <2>1. Sent[1].kind = "command" /\ Sent[1].id = Back + 1
    BY <1>1, <1>4 DEF PairInv, RequestsGoing, Commands
  <2>2. \A q \in Request : q.kind = "command" => q.chan = NoChannel
    BY DEF Request
  <2> QED BY <1>3, <1>4, <2>1, <2>2
<1>6. toClient' = Append(toClient, x) /\ subs' = subs
  BY <1>5 DEF ServerReply, ReplyTo
<1>7. x \in Unit /\ x.reply = ReplyTo(x.reply.id) /\ x.reply.id = id /\ StartOf(x) = 2 * id - 2 /\ EndOf(x) = 2 * id
  <2>1. id \in Nat
    BY <1>5, ReplyTypes
  <2> QED BY <2>1 DEF Unit, Reply, ReplyTo, Chan, StartOf, EndOf
<1> HIDE DEF x, r
<1>8. Stream' = Append(Stream, x)
  BY <1>1, <1>6, <1>7, StreamGrows
<1>9. Sent' = Tail(Sent)
  BY <1>1, <1>3 DEF Sent, Left
<1>10. HandlersPaired' /\ Queued' = Queued
  BY <1>1, HandlersKept DEF PairInv
<1>11. Asked' = Asked /\ At' = At
  BY <1>1, <1>10 DEF Asked, At
<1>12. Back' = Back + 1 /\ Back \in Int
  BY <1>4, <1>9, <1>10 DEF Back, PairTyped
<1>13. id <= Asked
  <2>1. Len(Sent) = Len(toServer) + (Len(Left) + Len(dataQueued))
    BY <1>2, ConcatProperties DEF Sent, PairTyped
  <2>2. Len(toServer) \in Nat \ {0} /\ Len(Left) \in Nat /\ Len(dataQueued) \in Nat /\ Queued \in Int
    BY <1>1, <1>2, EmptySeq, LenProperties DEF PairTyped
  <2>3. id = Queued - Len(Sent) + 1 /\ Asked = Queued - Len(dataQueued)
    BY DEF Back, Asked
  <2> HIDE DEF id
  <2> QED BY ONLY <2>1, <2>2, <2>3
<1>14. RepliesComing'
  <2>1. Stream \in Seq(Unit) /\ Follow(Stream, At, Asked) /\ EndsAt(Stream, At, 2 * Back)
    BY <1>1 DEF PairTyped, PairInv, RepliesComing
  <2>2. StartOf(x) = 2 * Back /\ EndOf(x) = 2 * Back'
    <3>1. 2 * id - 2 = 2 * Back /\ 2 * id = 2 * (Back + 1)
      BY <1>12
    <3> QED BY <1>7, <1>12, <3>1
  <2>3. EndsAt(Stream, At, StartOf(x))
    BY <2>1, <2>2
  <2>4. Follow(Append(Stream, x), At, Asked) /\ EndsAt(Append(Stream, x), At, EndOf(x))
    BY <1>7, <1>13, <2>1, <2>3, FollowAppend
  <2>5. Follow(Stream', At', Asked') /\ EndsAt(Stream', At', 2 * Back')
    BY <1>8, <1>11, <2>2, <2>4
  <2> QED BY <1>1, <1>11, <2>5 DEF PairInv, RepliesComing
<1>15. RequestsGoing'
  <2>1. ASSUME NEW i \in 1 .. Len(Sent') PROVE Sent'[i].kind = "command" /\ Sent'[i].id = Back' + i
    <3>1. i + 1 \in 1 .. Len(Sent) /\ Sent'[i] = Sent[i + 1]
      <4>1. Len(Sent') = Len(Sent) - 1
        BY <1>4, <1>9
      <4> QED BY <1>4, <1>9, <4>1
    <3>2. Back + (i + 1) = Back' + i
      BY <1>12
    <3> QED BY <1>1, <3>1, <3>2 DEF PairInv, RequestsGoing, Commands
  <2>2. Commands(Sent', Back')
    BY <2>1 DEF Commands
  <2> QED BY <1>1, <1>6, <2>2 DEF PairInv, RequestsGoing
<1>16. PlainConn'
  <2>1. state = "Connected"
    BY <1>3 DEF PairInv, PlainConn, RestParsed, NothingLeft
  <2> QED BY <1>1, <2>1 DEF PairInv, PlainConn, RestParsed
<1> QED BY <1>10, <1>14, <1>15, <1>16 DEF PairInv

LEMMA LinkDropsPair ==
    ASSUME TypeOK, PairTyped, PairInv, LinkDrops, UNCHANGED clientVars
    PROVE  PairInv'
<1>1. /\ UNCHANGED <<state, handlers, dataQueued, strand, redisParser, frame, rest, issued, delivered>>
      /\ UNCHANGED <<toClient, readOps, writeOps>>
      /\ link' = "dropped" /\ toServer' = <<>> /\ subs' = {}
  BY EnvironmentKeeps DEF LinkDrops, opVars
<1>2. HandlersPaired' /\ Queued' = Queued
  BY <1>1, HandlersKept DEF PairInv
<1>3. Asked' = Asked /\ Stream' = Stream /\ Left' = Left
  BY <1>1, <1>2 DEF Asked, Stream, ReadData, Left
<1>4. RepliesComing'
  <2>1. Asked' \in Int /\ Asked <= Asked' /\ Len(delivered') = Len(delivered)
    BY <1>1, <1>3 DEF PairTyped
  <2> QED BY <1>1, <1>3, <2>1, RepliesKept DEF PairInv
<1>5. RequestsGoing'
  BY <1>1 DEF PairInv, RequestsGoing
<1>6. ASSUME NothingLeft PROVE NothingLeft'
  <2>1. Left \o dataQueued \in Seq(Request)
    BY ConcatProperties DEF PairTyped
  <2>2. Left \o dataQueued = <<>>
    BY <1>6, <2>1, ConcatEqualIffEmpty DEF NothingLeft, Sent, PairTyped
  <2>3. Sent' = <<>>
    BY <1>1, <1>3, <2>1, <2>2, ConcatEmptySeq DEF Sent
  <2> QED BY <1>1, <1>3, <1>6, <2>3 DEF NothingLeft
<1>7. PlainConn'
  BY <1>1, <1>6 DEF PairInv, PlainConn, RestParsed
<1> QED BY <1>2, <1>4, <1>5, <1>7 DEF PairInv

LEMMA EnvironmentPair ==
    ASSUME TypeOK, TypeOK', PairTyped, PairTyped', SingleWriter, ConnInv, PairInv, Environment
    PROVE  PairInv'
<1>1. UNCHANGED clientVars
  BY DEF Environment
<1>2. CASE ConnectDone
  BY <1>1, <1>2, ConnectDonePair
<1>3. CASE WriteSome
  BY <1>1, <1>3, WriteSomePair
<1>4. CASE WriteFails
  BY <1>1, <1>4, WriteFailsPair
<1>5. CASE ReadSome
  BY <1>1, <1>5, ReadSomePair
<1>6. CASE ReadFails
  BY <1>1, <1>6, ReadFailsPair
<1>7. CASE ServerReply
  BY <1>1, <1>7, ServerReplyPair
<1>8. CASE LinkDrops
  BY <1>1, <1>8, LinkDropsPair
<1>9. CASE \E ch \in Channels : ServerPublish(ch, Audience(ch))
  BY <1>9 DEF ServerPublish, PairInv, RequestsGoing
<1> QED BY <1>2, <1>3, <1>4, <1>5, <1>6, <1>7, <1>8, <1>9 DEF Environment

LEMMA PairInit == Init => PairInv
<1> SUFFICES ASSUME Init PROVE PairInv
  OBVIOUS
<1>1. /\ state = "Unconnected" /\ frame = "none" /\ redisParser = NoReply /\ issued = 0 /\ subs = {}
      /\ handlers = <<>> /\ dataQueued = <<>> /\ strand = <<>> /\ rest = <<>> /\ delivered = <<>>
      /\ link = "closed" /\ readOps = <<>> /\ writeOps = <<>> /\ toServer = <<>> /\ toClient = <<>>
  BY DEF Init, EnvInit
<1>2. Len(delivered) = 0 /\ Len(handlers) = 0 /\ Len(strand) = 0 /\ Len(writeOps) = 0 /\ Len(dataQueued) = 0
  BY <1>1, EmptySeq
<1>3. Stream = <<>> /\ Sent = <<>>
  BY <1>1, EmptySeq, ConcatEmptySeq DEF Stream, ReadData, Sent, Left
<1>4. Popped = 0 /\ Queued = 0 /\ Asked = 0 /\ At = 0
  BY <1>1, <1>2 DEF Popped, Queued, Asked, At
<1>5. Follow(Stream, At, Asked)
  BY <1>3, FollowNothing
<1>6. NothingLeft
  BY <1>1, <1>3 DEF NothingLeft
<1>7. HandlersPaired
  BY <1>1, <1>2, <1>4 DEF HandlersPaired
<1>8. RepliesComing
  BY <1>1, <1>4, <1>5 DEF RepliesComing
<1> QED BY <1>1, <1>2, <1>6, <1>7, <1>8 DEF PairInv, RequestsGoing, PlainConn, RestParsed

LEMMA PairSame ==
    ASSUME PairTyped, PairInv, UNCHANGED vars
    PROVE  PairInv'
<1>1. /\ UNCHANGED <<state, handlers, dataQueued, strand, redisParser, frame, rest, issued, delivered>>
      /\ UNCHANGED <<link, toServer, toClient, subs, readOps, writeOps>>
  BY EnvironmentKeeps DEF vars, envVars, linkVars, opVars
<1>2. Stream' = Stream
  BY <1>1 DEF Stream, ReadData
<1>3. HandlersPaired' /\ RepliesComing' /\ RequestsGoing' /\ (NothingLeft => NothingLeft')
  BY <1>1, <1>2, Unmoved
<1> QED BY <1>1, <1>3 DEF PairInv, PlainConn, RestParsed

PairStepInv == TypeOK /\ PairTyped /\ SingleWriter /\ ConnInv /\ PairInv

LEMMA PairStep ==
    CommandsOnly /\ PairStepInv /\ TypeOK' /\ PairTyped' /\ [Next]_vars => PairInv'
<1> SUFFICES ASSUME CommandsOnly, TypeOK, TypeOK', PairTyped, PairTyped', SingleWriter, ConnInv, PairInv, [Next]_vars
             PROVE  PairInv'
  BY DEF PairStepInv
<1>1. CASE AppCall
  BY <1>1, AppCallPair
<1>2. CASE Handler
  BY <1>2, HandlerPair
<1>3. CASE Environment
  BY <1>3, EnvironmentPair
<1>4. CASE UNCHANGED vars
  BY <1>4, PairSame
<1> QED BY <1>1, <1>2, <1>3, <1>4 DEF Next

\* The positions agree throughout: the n-th reply that comes out of the parser, the n-th handler
\* that doAsyncCommand pushed (redisclientimpl.cpp:499) and the n-th request that was written
\* belong to the same call, through split reads, partial writes, lost connections and any number
\* of connections.
THEOREM PairKept == ASSUME CommandsOnly PROVE Spec => []PairStepInv
<1>1. CommandsOnly /\ Discipline # "any"
  BY DEF CommandsOnly
<1>2. TypeOK /\ PairTyped /\ SingleWriter /\ ConnInv /\ PairInv => PairStepInv
  BY DEF PairStepInv
<1>3. PairStepInv => PairInv
  BY DEF PairStepInv
<1>4. PairStepInv /\ TypeOK' /\ PairTyped' /\ [Next]_vars => PairInv'
  BY <1>1, PairStep
<1> QED BY <1>1, <1>2, <1>3, <1>4, PairInit, PairTypes, TypeCorrect, OneWriter, ConnKeptThroughout, PTL DEF Spec

\* Every reply goes to the handler of its own request: processMessage calls handlers.front() for
\* whatever reply comes next (redisclientimpl.cpp:321), and nothing but the position pairs them.
THEOREM RepliesPaired == ASSUME CommandsOnly PROVE Spec => []ReplyMatching
<1>1. PairStepInv => ReplyMatching
  <2> SUFFICES ASSUME TypeOK, PairInv, NEW i \in DOMAIN delivered
               PROVE  delivered[i].reply.id = delivered[i].handler
    BY DEF ReplyMatching, PairStepInv
  <2>1. i \in 1 .. Len(delivered)
    BY LenProperties DEF TypeOK
  <2> QED BY <2>1 DEF PairInv, HandlersPaired
<1> QED BY <1>1, PairKept, PTL

\* What a step reports.
LEMMA ReportedStep ==
    ASSUME CommandsOnly, PairStepInv, [Next]_vars
    PROVE  \E what \in {"state", "io"} : reported' \in {reported, reported \cup {what}}
<1> USE DEF Report1
<1>1. CASE Connect \/ Disconnect \/ Command \/ Publish
  BY <1>1 DEF Connect, Disconnect, Command, Publish, Request1
<1>2. CASE \/ \E ch \in Channels : Subscribe(ch) \/ SingleShotSubscribe(ch)
           \/ \E h \in held : Unsubscribe(h)
  BY <1>2 DEF Subscribe, SingleShotSubscribe, Unsubscribe
<1>3. CASE DoAsyncCommand \/ CallMessageHandler \/ HandleAsyncConnect \/ ConnectHandlerReturns \/ ReadAgain
           \/ HandlerReturns \/ ErrorHandlerReturns
  BY <1>3 DEF DoAsyncCommand, CallMessageHandler, HandleAsyncConnect, ConnectHandlerReturns, ReadAgain,
              HandlerReturns, ErrorHandlerReturns, historyVars
<1>4. CASE AsyncWrite \/ AsyncRead
  BY <1>4 DEF AsyncWrite, AsyncRead
<1>5. CASE ParseChunk
  BY <1>5, ParseOutcome DEF PairStepInv
<1>6. CASE Environment \/ UNCHANGED vars
  BY <1>6 DEF Environment, vars, clientVars, historyVars
<1> QED BY <1>1, <1>2, <1>3, <1>4, <1>5, <1>6 DEF Next, AppCall, Handler, ReadLoop

\* A client that a settled application drives with commands never reports a fault of its own or of
\* the server: no reply comes while handlers is empty ("unexpected message", redisclientimpl.cpp:328), no
\* command is refused, and the parser never meets the end of one reply without its start.
THEOREM NeverFindsFault == ASSUME CommandsOnly PROVE Spec => []NoSpuriousProtocolError
<1>1. Init => NoSpuriousProtocolError
  BY DEF Init, NoSpuriousProtocolError
<1>2. PairStepInv /\ NoSpuriousProtocolError /\ [Next]_vars => NoSpuriousProtocolError'
  <2> SUFFICES ASSUME PairStepInv, NoSpuriousProtocolError, [Next]_vars PROVE NoSpuriousProtocolError'
    OBVIOUS
  <2>1. PICK what \in {"state", "io"} : reported' \in {reported, reported \cup {what}}
    BY ReportedStep
  <2> QED BY <2>1 DEF NoSpuriousProtocolError
<1> QED BY <1>1, <1>2, PairKept, PTL DEF Spec

-----------------------------------------------------------------------------
(* Refinement.  With its requests numbered without a gap, the client is    *)
(* two numbers to RequestReply: how many requests were made, how many      *)
(* answered.                                                               *)

Numbers(lo, hi) == [i \in 1 .. hi - lo |-> lo + i]
Answers(n) == [i \in 1 .. n |-> <<i, i>>]

LEMMA NumbersType ==
    ASSUME NEW lo \in Nat, NEW hi \in Nat, lo <= hi
    PROVE  Numbers(lo, hi) \in Seq(Nat) /\ Len(Numbers(lo, hi)) = hi - lo
<1>1. hi - lo \in Nat /\ Numbers(lo, hi) \in [1 .. hi - lo -> Nat]
  BY DEF Numbers
<1> QED BY <1>1, SequenceOf

LEMMA NumbersIssue ==
    ASSUME NEW lo \in Nat, NEW hi \in Nat, lo <= hi
    PROVE  Numbers(lo, hi + 1) = Numbers(lo, hi) \o [i \in 1 .. (hi + 1) - hi |-> hi + i]
<1> DEFINE s == Numbers(lo, hi)
           t == [i \in 1 .. (hi + 1) - hi |-> hi + i]
           u == Numbers(lo, hi + 1)
<1>1. s \in Seq(Nat) /\ Len(s) = hi - lo /\ \A i \in 1 .. hi - lo : s[i] = lo + i
  BY NumbersType DEF Numbers
<1>2. t \in Seq(Nat) /\ Len(t) = 1 /\ t[1] = hi + 1
  <2>1. t \in [1 .. 1 -> Nat] /\ t[1] = hi + 1
    OBVIOUS
  <2> QED BY <2>1, SequenceOf
<1>3. u \in Seq(Nat) /\ Len(u) = hi + 1 - lo /\ \A i \in 1 .. hi + 1 - lo : u[i] = lo + i
  <2>1. hi + 1 \in Nat /\ lo <= hi + 1
    OBVIOUS
  <2> QED BY <2>1, NumbersType DEF Numbers
<1> HIDE DEF s, t, u
<1>4. /\ s \o t \in Seq(Nat) /\ Len(s \o t) = Len(s) + Len(t)
      /\ \A i \in 1 .. Len(s) + Len(t) : (s \o t)[i] = IF i <= Len(s) THEN s[i] ELSE t[i - Len(s)]
  BY <1>1, <1>2, ConcatProperties
<1>5. Len(s \o t) = Len(u) /\ Len(u) = Len(s) + 1
  BY <1>1, <1>2, <1>3, <1>4
<1>6. ASSUME NEW i \in 1 .. Len(u) PROVE (s \o t)[i] = u[i]
  <2>0. i \in Int /\ Len(s) \in Nat /\ u[i] = lo + i /\ i \in 1 .. Len(s) + 1
    BY <1>1, <1>3, <1>5
  <2>1. i \in 1 .. Len(s) \/ i = Len(s) + 1
    BY <2>0, OneMore
  <2>2. CASE i \in 1 .. Len(s)
    <3>1. i <= Len(s) /\ i \in 1 .. Len(s) + Len(t)
      BY <1>2, <2>0, <2>2
    <3> QED BY <1>1, <1>4, <2>0, <2>2, <3>1
  <2>3. CASE i = Len(s) + 1
    <3>1. ~(i <= Len(s)) /\ i \in 1 .. Len(s) + Len(t) /\ i - Len(s) = 1 /\ lo + i = hi + 1
      BY <1>1, <1>2, <2>0, <2>3
    <3>2. (s \o t)[i] = t[i - Len(s)]
      BY <1>4, <3>1
    <3> QED BY <1>2, <2>0, <3>1, <3>2
  <2> QED BY <2>1, <2>2, <2>3
<1>7. s \o t = u
  BY <1>3, <1>4, <1>5, <1>6, SeqEqual
<1> QED BY <1>7 DEF s, t, u

LEMMA NumbersAnswer ==
    ASSUME NEW lo \in Nat, NEW hi \in Nat, lo < hi
    PROVE  /\ Numbers(lo, hi) # <<>> /\ Head(Numbers(lo, hi)) = lo + 1
           /\ Tail(Numbers(lo, hi)) = Numbers(lo + 1, hi)
<1> DEFINE s == Numbers(lo, hi)
           u == Numbers(lo + 1, hi)
<1>1. s \in Seq(Nat) /\ Len(s) = hi - lo /\ \A i \in 1 .. hi - lo : s[i] = lo + i
  BY NumbersType DEF Numbers
<1>2. u \in Seq(Nat) /\ Len(u) = hi - (lo + 1) /\ \A i \in 1 .. hi - (lo + 1) : u[i] = (lo + 1) + i
  <2>1. lo + 1 \in Nat /\ lo + 1 <= hi
    OBVIOUS
  <2> QED BY <2>1, NumbersType DEF Numbers
<1> HIDE DEF s, u
<1>3. s # <<>> /\ 1 \in 1 .. hi - lo
  <2>1. Len(s) # 0 /\ 1 \in 1 .. hi - lo
    BY <1>1
  <2> QED BY <2>1, EmptySeq
<1>4. Head(s) = lo + 1
  BY <1>1, <1>3
<1>5. Tail(s) \in Seq(Nat) /\ Len(Tail(s)) = Len(s) - 1 /\ \A i \in 1 .. Len(s) - 1 : Tail(s)[i] = s[i + 1]
  BY <1>1, <1>3, HeadTailProperties
<1>6. Len(Tail(s)) = Len(u)
  BY <1>1, <1>2, <1>5
<1>7. ASSUME NEW i \in 1 .. Len(u) PROVE Tail(s)[i] = u[i]
  <2>1. i \in 1 .. Len(s) - 1 /\ i + 1 \in 1 .. hi - lo /\ lo + (i + 1) = (lo + 1) + i
    BY <1>1, <1>2
  <2> QED BY <1>1, <1>2, <1>5, <2>1
<1>8. Tail(s) = u
  BY <1>2, <1>5, <1>6, <1>7, SeqEqual
<1> QED BY <1>3, <1>4, <1>8 DEF s, u

LEMMA AnswersAppend ==
    ASSUME NEW n \in Nat
    PROVE  Answers(n + 1) = Append(Answers(n), <<n + 1, n + 1>>)
<1> DEFINE s == Answers(n)
           u == Answers(n + 1)
           e == <<n + 1, n + 1>>
<1>1. s \in Seq(Nat \X Nat) /\ Len(s) = n /\ \A i \in 1 .. n : s[i] = <<i, i>>
  <2>1. s \in [1 .. n -> Nat \X Nat]
    BY DEF Answers
  <2> QED BY <2>1, SequenceOf DEF Answers
<1>2. u \in Seq(Nat \X Nat) /\ Len(u) = n + 1 /\ \A i \in 1 .. n + 1 : u[i] = <<i, i>>
  <2>1. u \in [1 .. n + 1 -> Nat \X Nat]
    BY DEF Answers
  <2>2. n + 1 \in Nat
    OBVIOUS
  <2> QED BY <2>1, <2>2, SequenceOf DEF Answers
<1>3. e \in Nat \X Nat
  OBVIOUS
<1> DEFINE v == Append(s, e)
<1> HIDE DEF s, u
<1>4. v \in Seq(Nat \X Nat) /\ Len(v) = n + 1 /\ v[n + 1] = e /\ \A i \in 1 .. n : v[i] = s[i]
  BY <1>1, <1>3, AppendProperties
<1> HIDE DEF v
<1>5. ASSUME NEW i \in 1 .. Len(u) PROVE v[i] = u[i]
  <2>1. i \in 1 .. n + 1
    BY <1>2
  <2>2. i \in 1 .. n \/ i = n + 1
    BY <2>1, OneMore
  <2> QED BY <1>1, <1>2, <1>4, <2>1, <2>2
<1>6. v = u
  BY <1>2, <1>4, <1>5, SeqEqual
<1> QED BY <1>6 DEF s, u, v

\* The requests that have not been answered, and the answered ones with what they got, as the
\* refinement of AsyncClient maps them.
Outstanding == Uncalled \o StrandIds
AnsweredPairs   == [i \in DOMAIN delivered |-> <<delivered[i].handler, delivered[i].reply.id>>]

TwoNumbers ==
    /\ Len(delivered) \in Nat /\ issued \in Nat /\ Len(delivered) <= issued
    /\ Outstanding = Numbers(Len(delivered), issued)
    /\ AnsweredPairs = Answers(Len(delivered))

LEMMA AreTwoNumbers == PairStepInv => TwoNumbers
<1> SUFFICES ASSUME PairStepInv PROVE TwoNumbers
  OBVIOUS
<1> DEFINE d == Len(delivered)
           s == Uncalled
           t == StrandIds
<1>1. TypeOK /\ PairTyped /\ ConnInv /\ HandlersPaired
  BY DEF PairStepInv, PairInv
<1>2. /\ d \in Nat /\ issued \in Nat /\ Len(handlers) \in Nat /\ Len(strand) \in Nat
      /\ Popped \in Int /\ Queued \in Int
      /\ delivered \in Seq([handler : Nat, reply : Reply]) /\ handlers \in Seq(Nat) /\ strand \in Seq(Job)
  BY <1>1 DEF PairTyped, TypeOK
<1>3. Queued = Popped + Len(handlers) /\ issued = Queued + Len(strand)
  BY <1>1 DEF Queued, HandlersPaired
<1>4. s \in Seq(Nat) /\ Len(s) = Queued - d /\ \A i \in 1 .. Len(s) : s[i] = d + i
  <2>1. CASE frame = "handler"
    <3>1. handlers # <<>> /\ s = Tail(handlers) /\ Popped = d - 1
      BY <1>1, <2>1 DEF ConnInv, Uncalled, Popped
    <3>2. /\ s \in Seq(Nat) /\ Len(s) = Len(handlers) - 1
          /\ \A i \in 1 .. Len(handlers) - 1 : s[i] = handlers[i + 1]
      BY <1>2, <3>1, HeadTailProperties
    <3> HIDE DEF s
    <3>3. Len(s) = Queued - d
      BY <1>2, <1>3, <3>1, <3>2
    <3>4. ASSUME NEW i \in 1 .. Len(s) PROVE s[i] = d + i
      <4>1. i \in 1 .. Len(handlers) - 1 /\ i + 1 \in 1 .. Len(handlers) /\ Popped + (i + 1) = d + i
        BY <1>2, <3>1, <3>2
      <4> QED BY <1>1, <3>2, <4>1 DEF HandlersPaired
    <3> QED BY <3>2, <3>3, <3>4
  <2>2. CASE frame # "handler"
    <3>1. s = handlers /\ Popped = d
      BY <1>2, <2>2 DEF Uncalled, Popped
    <3> HIDE DEF s
    <3>2. Len(s) = Queued - d
      BY <1>2, <1>3, <3>1
    <3> QED BY <1>1, <1>2, <3>1, <3>2 DEF HandlersPaired
  <2> QED BY <2>1, <2>2
<1>5. t \in Seq(Nat) /\ Len(t) = Len(strand) /\ \A i \in 1 .. Len(strand) : t[i] = Queued + i
  <2>1. DOMAIN strand = 1 .. Len(strand)
    BY <1>2, LenProperties
  <2>2. \A i \in 1 .. Len(strand) : strand[i].run = "doAsyncCommand" /\ strand[i].req.id = Queued + i
    BY <1>1 DEF HandlersPaired
  <2>3. ASSUME NEW i \in 1 .. Len(strand) PROVE strand[i].req.id \in Nat
    <3>1. strand[i] \in Job
      BY <1>2, ElementOfSeq
    <3>2. strand[i].req \in Request
      BY <2>2, <3>1, JobTypes
    <3> QED BY <3>2, ReplyTypes
  <2>4. t \in [1 .. Len(strand) -> Nat] /\ \A i \in 1 .. Len(strand) : t[i] = Queued + i
    BY <2>1, <2>2, <2>3 DEF StrandIds
  <2> QED BY <1>2, <2>4, SequenceOf
<1> HIDE DEF s, t
<1>6. /\ s \o t \in Seq(Nat) /\ Len(s \o t) = Len(s) + Len(t) /\ Len(s) \in Nat /\ Len(t) \in Nat
      /\ \A i \in 1 .. Len(s) + Len(t) : (s \o t)[i] = IF i <= Len(s) THEN s[i] ELSE t[i - Len(s)]
  <2>1. s \in Seq(Nat) /\ t \in Seq(Nat)
    BY <1>4, <1>5
  <2>2. Len(s) \in Nat /\ Len(t) \in Nat
    BY <2>1, LenProperties
  <2> QED BY <2>1, <2>2, ConcatProperties
<1>7. Len(s) + Len(t) = issued - d /\ d <= issued
  BY <1>2, <1>3, <1>4, <1>5, <1>6
<1> DEFINE u == Numbers(d, issued)
<1>8. u \in Seq(Nat) /\ Len(u) = issued - d /\ \A i \in 1 .. issued - d : u[i] = d + i
  BY <1>2, <1>7, NumbersType DEF Numbers
<1> HIDE DEF u, d
<1>9. ASSUME NEW i \in 1 .. Len(u) PROVE (s \o t)[i] = u[i]
  <2>1. i \in 1 .. Len(s) + Len(t) /\ i \in Int /\ u[i] = d + i
    BY <1>7, <1>8
  <2>2. CASE i <= Len(s)
    <3>1. i \in 1 .. Len(s)
      BY <2>1, <2>2
    <3> QED BY <1>4, <1>6, <2>1, <2>2, <3>1
  <2>3. CASE ~(i <= Len(s))
    <3>1. i - Len(s) \in 1 .. Len(strand)
      BY <1>5, <1>6, <2>1, <2>3
    <3>2. Queued + (i - Len(s)) = d + i
      BY <1>2, <1>4, <2>1
    <3> QED BY <1>5, <1>6, <2>1, <2>3, <3>1, <3>2
  <2> QED BY <2>2, <2>3
<1>10. s \o t = u
  BY <1>6, <1>7, <1>8, <1>9, SeqEqual
<1>11. AnsweredPairs = Answers(d)
  <2>1. DOMAIN delivered = 1 .. d
    BY <1>2, LenProperties DEF d
  <2>2. \A i \in 1 .. d : delivered[i].handler = i /\ delivered[i].reply.id = i
    BY <1>1 DEF HandlersPaired, d
  <2> QED BY <2>1, <2>2 DEF AnsweredPairs, Answers
<1> QED BY <1>2, <1>7, <1>10, <1>11 DEF TwoNumbers, Outstanding, s, t, u, d

LEMMA CountsStep ==
    ASSUME PairStepInv, [Next]_vars
    PROVE  \/ UNCHANGED issued /\ UNCHANGED delivered
           \/ issued' = issued + 1 /\ UNCHANGED delivered
           \/ UNCHANGED issued /\ Len(delivered') = Len(delivered) + 1
<1>1. CASE Connect \/ Disconnect \/ Command \/ Publish
  BY <1>1 DEF Connect, Disconnect, Command, Publish, Request1, Post, historyVars
<1>2. CASE \/ \E ch \in Channels : Subscribe(ch) \/ SingleShotSubscribe(ch)
           \/ \E h \in held : Unsubscribe(h)
  BY <1>2 DEF Subscribe, SingleShotSubscribe, Unsubscribe, Post
<1>3. CASE DoAsyncCommand \/ CallMessageHandler \/ HandleAsyncConnect \/ ConnectHandlerReturns \/ ReadAgain
           \/ HandlerReturns \/ ErrorHandlerReturns \/ AsyncWrite \/ AsyncRead
  BY <1>3 DEF DoAsyncCommand, CallMessageHandler, HandleAsyncConnect, ConnectHandlerReturns, ReadAgain,
              HandlerReturns, ErrorHandlerReturns, AsyncWrite, AsyncRead, historyVars
<1>4. CASE ParseChunk
  <2>1. issued' = issued
    BY <1>4 DEF ParseChunk
  <2>2. TypeOK /\ PairTyped /\ PairInv /\ frame = "parse" /\ rest # <<>>
    BY <1>4 DEF PairStepInv, ParseChunk
  <2>3. CASE UNCHANGED delivered
    BY <2>1, <2>3
  <2>4. CASE delivered' = Append(delivered, [handler |-> Len(delivered) + 1, reply |-> Head(rest).reply])
    <3>1. delivered \in Seq([handler : Nat, reply : Reply]) /\ Head(rest).reply \in Reply
      BY <2>2, NextPiece, PieceTypes DEF TypeOK
    <3>2. Len(delivered) + 1 \in Nat
      BY <2>2 DEF PairTyped
    <3>3. [handler |-> Len(delivered) + 1, reply |-> Head(rest).reply] \in [handler : Nat, reply : Reply]
      BY <3>1, <3>2
    <3>4. Len(delivered') = Len(delivered) + 1
      BY <2>4, <3>1, <3>3, AppendProperties
    <3> QED BY <2>1, <3>4
  <2> QED BY <1>4, <2>2, <2>3, <2>4, ParseOutcome
<1>5. CASE Environment \/ UNCHANGED vars
  BY <1>5 DEF Environment, vars, clientVars, historyVars
<1> QED BY <1>1, <1>2, <1>3, <1>4, <1>5 DEF Next, AppCall, Handler, ReadLoop

LEMMA ChannelInit == Init => Abstract!Init
<1> SUFFICES ASSUME Init PROVE Abstract!Init
  OBVIOUS
<1>1. issued = 0 /\ handlers = <<>> /\ strand = <<>> /\ delivered = <<>>
  BY DEF Init
<1>2. Uncalled = <<>> /\ StrandIds = <<>> /\ AnsweredPairs = <<>>
  BY <1>1 DEF Init, Uncalled, StrandIds, AnsweredPairs
<1>3. Uncalled \o StrandIds = <<>>
  BY <1>2, EmptySeq, ConcatEmptySeq
<1> QED BY <1>1, <1>2, <1>3 DEF Abstract!Init, AnsweredPairs

LEMMA ChannelStep ==
    ASSUME PairStepInv, TwoNumbers, TwoNumbers', [Next]_vars
    PROVE  [Abstract!Next]_Abstract!vars
<1>1. /\ Len(delivered) \in Nat /\ issued \in Nat /\ Len(delivered) <= issued
      /\ Outstanding = Numbers(Len(delivered), issued) /\ AnsweredPairs = Answers(Len(delivered))
  BY DEF TwoNumbers
<1>2. /\ Len(delivered') <= issued'
      /\ Outstanding' = Numbers(Len(delivered'), issued') /\ AnsweredPairs' = Answers(Len(delivered'))
  BY DEF TwoNumbers
<1>3. CASE UNCHANGED issued /\ UNCHANGED delivered
  <2>1. Outstanding' = Outstanding /\ AnsweredPairs' = AnsweredPairs
    BY <1>1, <1>2, <1>3
  <2> QED BY <1>3, <2>1 DEF Abstract!vars, Outstanding, AnsweredPairs
<1>4. CASE issued' = issued + 1 /\ UNCHANGED delivered
  <2>1. AnsweredPairs' = AnsweredPairs
    BY <1>1, <1>2, <1>4
  <2>2. Outstanding' = Outstanding \o [i \in 1 .. issued' - issued |-> issued + i]
    BY <1>1, <1>2, <1>4, NumbersIssue
  <2>3. issued' > issued
    BY <1>1, <1>4
  <2>4. Abstract!Issue
    BY <2>1, <2>2, <2>3 DEF Abstract!Issue, Outstanding, AnsweredPairs
  <2> QED BY <2>4 DEF Abstract!Next
<1>5. CASE UNCHANGED issued /\ Len(delivered') = Len(delivered) + 1
  <2> DEFINE d == Len(delivered)
  <2>1. d < issued
    BY <1>1, <1>2, <1>5
  <2>2. /\ Outstanding # <<>> /\ Head(Outstanding) = d + 1
        /\ Outstanding' = Tail(Outstanding)
    BY <1>1, <1>2, <1>5, <2>1, NumbersAnswer
  <2>3. AnsweredPairs' = Append(AnsweredPairs, <<Head(Outstanding), Head(Outstanding)>>)
    BY <1>1, <1>2, <1>5, <2>2, AnswersAppend
  <2>4. Abstract!Answer
    BY <1>5, <2>2, <2>3 DEF Abstract!Answer, Outstanding, AnsweredPairs
  <2> QED BY <2>4 DEF Abstract!Next
<1> QED BY <1>3, <1>4, <1>5, CountsStep

\* The client implements RequestReply for an application that only makes commands: a request
\* becomes outstanding when it is made, and every step of the strand, of the writer, of the
\* reader, of the parser and of the environment either answers the oldest outstanding one
\* (redisclientimpl.cpp:321, 322) or leaves them all alone.
THEOREM AsyncImplementsRequestReply ==
    ASSUME CommandsOnly PROVE Spec => ImplementsRequestReply
<1>1. PairStepInv /\ TwoNumbers /\ TwoNumbers' /\ [Next]_vars => [Abstract!Next]_Abstract!vars
  BY ChannelStep
<1> QED
  BY <1>1, ChannelInit, AreTwoNumbers, PairKept, PTL DEF Spec, ImplementsRequestReply, Abstract!Spec
============================================================================
