------------------------ MODULE AsyncMessages_proofs ------------------------
(***************************************************************************)
(* Published messages, for every value of the bounds, of an application    *)
(* that does not connect and disconnect at any moment: no message handler  *)
(* gets a message twice or out of order, and a subscription misses none.   *)
(***************************************************************************)
EXTENDS AsyncSettled_proofs

-----------------------------------------------------------------------------
(* Messages.  asyncRead does not call the message handlers, it posts them  *)
(* to the strand (redisclientimpl.cpp:279, 288).  A call and a posted job  *)
(* both give a message to handlers; each comes after those before it.      *)

Call == [to : Handle, msg : Nat]

\* b may come after a: not with an older message, to none of a's handlers with the same one,
\* and to no single-shot handler again.  A message nobody published (0) has no place in the order.
NobodyPublished(a, b) == 0 \in {a.msg, b.msg}
Comes(a, b) ==
    /\ NobodyPublished(a, b) \/ a.msg <= b.msg
    /\ \A h \in a.to \cap b.to : ~h.shot /\ (NobodyPublished(a, b) \/ a.msg < b.msg)

CalledJob(c) == MsgJob({c.to}, c.msg)
CallOrder    == {p \in Call \X Call : Comes(CalledJob(p[1]), CalledJob(p[2]))}
JobOrder     == {p \in Job \X Job : p[1].run = "msgHandler" /\ p[2].run = "msgHandler"
                                       => Comes(p[1], p[2])}
MessageJobs(js) == {j \in Range(js) : j.run = "msgHandler"}

\* The calls cs and the posted jobs js give the messages up to `at`, in order.
GivenInOrder(cs, js, at) ==
    /\ Chained(cs, CallOrder) /\ Chained(js, JobOrder)
    /\ \A c \in Range(cs) : c.msg <= at /\ \A j \in MessageJobs(js) : Comes(CalledJob(c), j)
    /\ \A j \in MessageJobs(js) : j.msg <= at

\* The handlers that have been given one.
Taken(cs, js) == {c.to : c \in Range(cs)} \cup UNION {j.to : j \in MessageJobs(js)}

LEMMA CalledJobIs ==
    ASSUME NEW c \in Call
    PROVE  CalledJob(c).to = {c.to} /\ CalledJob(c).msg = c.msg /\ c.to \in Handle /\ c.msg \in Nat
BY DEF CalledJob, MsgJob, Call

LEMMA ComesFewer ==
    ASSUME NEW a, NEW b, Comes(a, b), NEW c, NEW d, c.to \subseteq a.to, c.msg = a.msg,
           d.to \subseteq b.to, d.msg = b.msg
    PROVE  Comes(c, d)
BY DEF Comes, NobodyPublished

LEMMA MessageJobsAppend ==
    ASSUME NEW js \in Seq(Job), NEW e \in Job
    PROVE  MessageJobs(Append(js, e)) = MessageJobs(js) \cup (IF e.run = "msgHandler" THEN {e} ELSE {})
BY RangeAppend DEF MessageJobs

LEMMA MessageJobsTail ==
    ASSUME NEW js \in Seq(Job), js # <<>>
    PROVE  MessageJobs(js) = MessageJobs(Tail(js)) \cup (IF Head(js).run = "msgHandler" THEN {Head(js)} ELSE {})
BY RangeTail DEF MessageJobs

LEMMA NothingGiven == \A at : GivenInOrder(<<>>, <<>>, at) /\ Taken(<<>>, <<>>) = {}
<1>1. Range(<<>>) = {} /\ MessageJobs(<<>>) = {}
  BY EmptySeq DEF Range, MessageJobs
<1> QED BY <1>1, ChainedEmpty DEF GivenInOrder, Taken

\* What is posted last comes after all that has been given.
LEMMA GivenPost ==
    ASSUME NEW cs \in Seq(Call), NEW js \in Seq(Job), NEW at \in Nat, NEW m \in Nat, at <= m,
           GivenInOrder(cs, js, at), NEW e \in Job,
           e.run = "msgHandler" => /\ e.msg <= m
                                   /\ \A c \in Range(cs) : Comes(CalledJob(c), e)
                                   /\ \A j \in MessageJobs(js) : Comes(j, e)
    PROVE  GivenInOrder(cs, Append(js, e), m)
<1>1. \A c \in Range(cs) : c \in Call /\ c.msg \in Nat
  BY RangeOfSeq, CalledJobIs
<1>2. \A j \in Range(js) : j \in Job /\ (j.run = "msgHandler" => j.msg \in Nat)
  BY RangeOfSeq, JobTypes
<1>3. Chained(Append(js, e), JobOrder)
  <2>1. \A j \in Range(js) : <<j, e>> \in JobOrder
    BY <1>2 DEF JobOrder, MessageJobs
  <2> QED BY <2>1, ChainedAppend DEF GivenInOrder
<1>4. \A j \in MessageJobs(Append(js, e)) : j.msg <= m
  <2>1. \A j \in MessageJobs(js) : j.msg <= at /\ j.msg \in Nat
    BY <1>2 DEF GivenInOrder, MessageJobs
  <2>2. e.run = "msgHandler" => e.msg <= m
    OBVIOUS
  <2>3. \A j \in MessageJobs(js) : j.msg <= m
    BY <2>1
  <2> QED BY <2>2, <2>3, MessageJobsAppend
<1>5. \A c \in Range(cs) : c.msg <= m
  BY <1>1 DEF GivenInOrder
<1>6. \A c \in Range(cs) : \A j \in MessageJobs(Append(js, e)) : Comes(CalledJob(c), j)
  BY MessageJobsAppend DEF GivenInOrder
<1> QED BY <1>3, <1>4, <1>5, <1>6 DEF GivenInOrder

LEMMA TakenPost ==
    ASSUME NEW cs \in Seq(Call), NEW js \in Seq(Job), NEW e \in Job
    PROVE  Taken(cs, Append(js, e)) = Taken(cs, js) \cup (IF e.run = "msgHandler" THEN e.to ELSE {})
<1>1. CASE e.run = "msgHandler"
  <2>1. MessageJobs(Append(js, e)) = MessageJobs(js) \cup {e}
    BY <1>1, MessageJobsAppend
  <2> QED BY <1>1, <2>1 DEF Taken
<1>2. CASE e.run # "msgHandler"
  <2>1. MessageJobs(Append(js, e)) = MessageJobs(js)
    BY <1>2, MessageJobsAppend
  <2> QED BY <1>2, <2>1 DEF Taken
<1> QED BY <1>1, <1>2

\* A job that calls no message handler is run.
LEMMA GivenTail ==
    ASSUME NEW cs \in Seq(Call), NEW js \in Seq(Job), js # <<>>, NEW at, GivenInOrder(cs, js, at)
    PROVE  GivenInOrder(cs, Tail(js), at) /\ Taken(cs, Tail(js)) \subseteq Taken(cs, js)
<1>1. MessageJobs(Tail(js)) \subseteq MessageJobs(js)
  BY MessageJobsTail
<1>2. Chained(Tail(js), JobOrder)
  BY ChainedTail DEF GivenInOrder
<1> QED BY <1>1, <1>2 DEF GivenInOrder, Taken

\* What is left of the job at the front once h has been called.
CallsFirst(js, h, left) ==
    left = IF Head(js).to = {h} THEN Tail(js)
           ELSE [js EXCEPT ![1] = [Head(js) EXCEPT !.to = Head(js).to \ {h}]]

LEMMA JobsLeft ==
    ASSUME NEW js \in Seq(Job), js # <<>>, NEW h \in Head(js).to, Head(js).run = "msgHandler",
           NEW left, CallsFirst(js, h, left), Chained(js, JobOrder)
    PROVE  /\ left \in Seq(Job) /\ Chained(left, JobOrder)
           /\ \A j \in MessageJobs(left) :
                 \/ j \in MessageJobs(Tail(js))
                 \/ j.to = Head(js).to \ {h} /\ j.msg = Head(js).msg
<1> DEFINE job == Head(js)
           less == [job EXCEPT !.to = job.to \ {h}]
<1>1. job \in Job /\ Tail(js) \in Seq(Job)
  BY HeadTailProperties
<1>2. less \in Job /\ less.run = "msgHandler" /\ less.to = job.to \ {h} /\ less.msg = job.msg
  <2>1. \A j \in Job : \A g : j.run = "msgHandler" =>
           /\ [j EXCEPT !.to = j.to \ {g}] \in Job
           /\ [j EXCEPT !.to = j.to \ {g}].run = "msgHandler"
           /\ [j EXCEPT !.to = j.to \ {g}].to = j.to \ {g}
           /\ [j EXCEPT !.to = j.to \ {g}].msg = j.msg
    BY DEF Job
  <2> QED BY <1>1, <2>1
<1>3. Chained(Tail(js), JobOrder) /\ \A j \in Range(Tail(js)) : <<job, j>> \in JobOrder
  BY ChainedTail
<1>4. CASE job.to = {h}
  <2>1. left = Tail(js)
    BY <1>4 DEF CallsFirst
  <2> QED BY <1>1, <1>3, <2>1
<1>5. CASE job.to # {h}
  <2>0. left = [js EXCEPT ![1] = less]
    BY <1>5 DEF CallsFirst
  <2> HIDE DEF less
  <2>1. left \in Seq(Job) /\ left # <<>> /\ Head(left) = less /\ Tail(left) = Tail(js)
    BY <1>2, <2>0, FirstReplaced
  <2>2. \A j \in Range(Tail(js)) : <<less, j>> \in JobOrder
    <3> SUFFICES ASSUME NEW j \in Range(Tail(js)) PROVE <<less, j>> \in JobOrder
      OBVIOUS
    <3>1. j \in Job
      BY <1>1, RangeOfSeq
    <3>2. j.run = "msgHandler" => Comes(job, j)
      BY <1>3 DEF JobOrder
    <3>3. j.run = "msgHandler" => Comes(less, j)
      BY <1>2, <3>2, ComesFewer
    <3> QED BY <1>2, <3>1, <3>3 DEF JobOrder
  <2>3. Chained(left, JobOrder)
    BY <1>3, <2>1, <2>2, ChainedFirst
  <2>4. MessageJobs(left) = MessageJobs(Tail(js)) \cup {less}
    BY <1>2, <2>1, MessageJobsTail
  <2> QED BY <1>2, <2>1, <2>3, <2>4
<1> QED BY <1>4, <1>5

LEMMA GivenCall ==
    ASSUME NEW cs \in Seq(Call), NEW js \in Seq(Job), js # <<>>, NEW at \in Nat,
           GivenInOrder(cs, js, at), Head(js).run = "msgHandler", NEW h \in Head(js).to,
           NEW left, CallsFirst(js, h, left)
    PROVE  /\ GivenInOrder(Append(cs, [to |-> h, msg |-> Head(js).msg]), left, at)
           /\ Taken(Append(cs, [to |-> h, msg |-> Head(js).msg]), left) \subseteq Taken(cs, js)
<1> DEFINE job == Head(js)
           c == [to |-> h, msg |-> job.msg]
<1>1. job \in Job /\ job \in MessageJobs(js) /\ job.to \in SUBSET Handle /\ job.msg \in Nat /\ h \in Handle
  BY MessageJobsTail, HeadTailProperties, JobTypes
<1>2. c \in Call /\ c.to = h /\ c.msg = job.msg /\ CalledJob(c).to = {h} /\ CalledJob(c).msg = job.msg
  BY <1>1, CalledJobIs DEF Call
<1>3. /\ left \in Seq(Job) /\ Chained(left, JobOrder)
      /\ \A j \in MessageJobs(left) :
            j \in MessageJobs(Tail(js)) \/ (j.to = job.to \ {h} /\ j.msg = job.msg)
  BY JobsLeft DEF GivenInOrder
<1> HIDE DEF c, job
<1>4. \A x \in Range(cs) : x \in Call /\ x.msg <= at /\ Comes(CalledJob(x), job) /\ Comes(CalledJob(x), CalledJob(c))
  <2> SUFFICES ASSUME NEW x \in Range(cs)
               PROVE  x \in Call /\ x.msg <= at /\ Comes(CalledJob(x), job) /\ Comes(CalledJob(x), CalledJob(c))
    OBVIOUS
  <2>1. x \in Call /\ x.msg <= at /\ Comes(CalledJob(x), job)
    BY <1>1, RangeOfSeq DEF GivenInOrder
  <2>2. CalledJob(c).to \subseteq job.to
    BY <1>2 DEF job
  <2> QED BY <1>2, <2>1, <2>2, ComesFewer
<1>5. Chained(Append(cs, c), CallOrder)
  <2>1. \A x \in Range(cs) : <<x, c>> \in CallOrder
    BY <1>2, <1>4 DEF CallOrder
  <2> QED BY <1>2, <2>1, ChainedAppend DEF GivenInOrder
<1>6. \A x \in Range(Append(cs, c)) : x = c \/ x \in Range(cs)
  BY <1>2, RangeAppend
<1>7. MessageJobs(Tail(js)) \subseteq MessageJobs(js)
  BY MessageJobsTail
<1>8. ASSUME NEW j \in MessageJobs(left)
      PROVE  /\ j.msg <= at /\ Comes(CalledJob(c), j)
             /\ \A x \in Range(cs) : Comes(CalledJob(x), j)
             /\ j.to \subseteq Taken(cs, js)
  <2>1. CASE j \in MessageJobs(Tail(js))
    <3>1. Comes(job, j)
      <4>1. <<job, j>> \in JobOrder
        BY <2>1, ChainedTail DEF GivenInOrder, MessageJobs, job
      <4> QED BY <1>1, <2>1, <4>1 DEF JobOrder, MessageJobs
    <3>2. Comes(CalledJob(c), j)
      <4>1. CalledJob(c).to \subseteq job.to
        BY <1>2 DEF job
      <4> QED BY <1>2, <3>1, <4>1, ComesFewer
    <3> QED BY <1>7, <2>1, <3>2 DEF GivenInOrder, Taken
  <2>2. CASE j.to = job.to \ {h} /\ j.msg = job.msg
    <3>1. Comes(CalledJob(c), j)
      BY <1>1, <1>2, <2>2 DEF Comes
    <3>2. \A x \in Range(cs) : Comes(CalledJob(x), j)
      BY <1>4, <2>2, ComesFewer
    <3> QED BY <1>1, <2>2, <3>1, <3>2 DEF GivenInOrder, Taken
  <2> QED BY <1>3, <2>1, <2>2
<1>9. c.msg <= at
  BY <1>1, <1>2 DEF GivenInOrder
<1>10. GivenInOrder(Append(cs, c), left, at)
  BY <1>3, <1>4, <1>5, <1>6, <1>8, <1>9 DEF GivenInOrder
<1>11. Taken(Append(cs, c), left) \subseteq Taken(cs, js)
  <2>1. h \in Taken(cs, js)
    BY <1>1 DEF Taken, job
  <2> QED BY <1>2, <1>6, <1>8, <2>1 DEF Taken
<1> QED BY <1>10, <1>11 DEF c, job

-----------------------------------------------------------------------------
(* The stream of a client that disconnects only from outside of the        *)
(* callbacks.                                                              *)

\* One part of s is lost.
Lost(s, r) == \E p, q \in Seq(Unit) : s = p \o q /\ r \in {p, q}

LEMMA RestStep ==
    ASSUME RestParsed, [Next]_vars
    PROVE  RestParsed'
<1>1. CASE Connect \/ Disconnect \/ Command \/ Publish
  BY <1>1 DEF Connect, Disconnect, Command, Publish, Request1, loopVars, RestParsed
<1>2. CASE \/ \E ch \in Channels : Subscribe(ch) \/ SingleShotSubscribe(ch)
           \/ \E h \in held : Unsubscribe(h)
  BY <1>2 DEF Subscribe, SingleShotSubscribe, Unsubscribe, loopVars, RestParsed
<1>3. CASE DoAsyncCommand \/ CallMessageHandler \/ AsyncWrite
  BY <1>3 DEF DoAsyncCommand, CallMessageHandler, AsyncWrite, loopVars, RestParsed
<1>4. CASE HandleAsyncConnect \/ ConnectHandlerReturns \/ AsyncRead \/ ReadAgain
  BY <1>4 DEF HandleAsyncConnect, ConnectHandlerReturns, AsyncRead, ReadAgain, ProcessMessage, RestParsed
<1>5. CASE HandlerReturns \/ ErrorHandlerReturns
  BY <1>5 DEF HandlerReturns, ErrorHandlerReturns, RestParsed
<1>6. CASE ParseChunk
  <2>1. frame = "parse"
    BY <1>6 DEF ParseChunk
  <2>2. PICK out \in Parse(Head(rest)) :
           CASE out.result = "Completed" -> rest' = Remains(out.left) /\ DoProcessMessage(out.value)
             [] out.result = "Incompleted" ->
                  /\ rest' = Tail(rest)
                  /\ UNCHANGED <<frame, strand, singleShotMsgHandlers, delivered, reported>>
             [] out.result = "Error" ->
                  /\ rest' = <<>> /\ frame' = "none" /\ Report1("parser")
                  /\ UNCHANGED <<strand, singleShotMsgHandlers, delivered>>
    BY <1>6 DEF ParseChunk
  <2>3. out.result \in {"Completed", "Incompleted", "Error"}
    BY DEF Parse, OutOfStep
  <2>4. frame' \in {"parse", "handler", "error"} \/ rest' = <<>>
    BY <2>1, <2>2, <2>3 DEF DoProcessMessage, PostMessage, CallFront, Refuse
  <2> QED BY <2>4 DEF RestParsed
<1>7. CASE Environment \/ UNCHANGED vars
  BY <1>7 DEF Environment, vars, clientVars, loopVars, RestParsed
<1> QED BY <1>1, <1>2, <1>3, <1>4, <1>5, <1>6, <1>7 DEF Next, AppCall, Handler, ReadLoop

\* disconnect drops what the server has sent; what a read has brought already stays.
LEMMA DisconnectStream ==
    ASSUME TypeOK, PairTyped, RestParsed, Discipline # "any", Disconnect
    PROVE  Lost(Stream, Stream')
<1>1. frame = "none" /\ rest = <<>> /\ rest' = rest /\ CloseSocket
  BY DEF Disconnect, MayDisconnect, Settled, Outside, Close, loopVars, RestParsed
<1>2. toClient' = <<>>
  BY <1>1 DEF CloseSocket
<1>3. ReadData' = ReadData
  <2>1. CASE readOps = <<>>
    <3>1. readOps' = <<>>
      BY <1>1, <2>1 DEF CloseSocket
    <3> QED BY <2>1, <3>1 DEF ReadData
  <2>2. CASE readOps # <<>>
    <3>1. 1 \in DOMAIN readOps /\ readOps[1] \in ReadOp
      <4>1. readOps \in Seq(ReadOp)
        BY DEF TypeOK, EnvTypeOK
      <4> QED BY <2>2, <4>1, EmptySeq, ElementOfSeq, LenProperties
    <3>2. readOps'[1] = IF readOps[1].st = "pending" THEN [readOps[1] EXCEPT !.st = "aborted"]
                                                     ELSE readOps[1]
      BY <1>1, <3>1 DEF CloseSocket
    <3>3. \A op \in ReadOp : [op EXCEPT !.st = "aborted"].st = "aborted"
      BY DEF ReadOp
    <3>4. readOps' # <<>>
      BY <1>1, <3>1 DEF CloseSocket
    <3>5. CASE readOps[1].st = "pending"
      <4>1. ReadData = <<>>
        BY <3>5 DEF ReadData
      <4>2. ReadData' = <<>>
        BY <3>1, <3>2, <3>3, <3>5 DEF ReadData
      <4> QED BY <4>1, <4>2
    <3>6. CASE readOps[1].st # "pending"
      BY <2>2, <3>2, <3>4, <3>6 DEF ReadData
    <3> QED BY <3>5, <3>6
  <2> QED BY <2>1, <2>2
<1>4. ReadData \in Seq(Unit) /\ toClient \in Seq(Unit) /\ ReadData \o toClient \in Seq(Unit)
  BY ConcatProperties DEF PairTyped
<1>5. Stream = ReadData \o toClient
  BY <1>1, <1>4, ConcatEmptySeq DEF Stream
<1>6. Stream' = ReadData
  BY <1>1, <1>2, <1>3, <1>4, ConcatEmptySeq DEF Stream
<1> QED BY <1>4, <1>5, <1>6 DEF Lost

\* A loop that is left with bytes unparsed drops them.
LEMMA RestLost ==
    ASSUME PairTyped, rest' = <<>>, UNCHANGED <<readOps, toClient>>
    PROVE  Lost(Stream, Stream')
<1>1. rest \in Seq(Unit) /\ ReadData \o toClient \in Seq(Unit)
  BY ConcatProperties DEF PairTyped
<1>2. ReadData' \o toClient' = ReadData \o toClient
  BY DEF ReadData
<1>3. Stream' = ReadData \o toClient
  BY <1>1, <1>2, ConcatEmptySeq DEF Stream
<1> QED BY <1>1, <1>3 DEF Stream, Lost

LEMMA StreamSame ==
    ASSUME UNCHANGED <<rest, readOps, toClient>>
    PROVE  Stream' = Stream
BY DEF Stream, ReadData

\* What the steps that run no reply through the parser do to the stream.
StreamKept == Stream' = Stream \/ Halved(Stream, Stream') \/ Lost(Stream, Stream')

LEMMA HandlerStream ==
    ASSUME TypeOK, PairTyped, ConnInv, RestParsed, Handler, ~ParseChunk
    PROVE  /\ UNCHANGED <<published, msgHandlers, singleShotMsgHandlers, issued>>
           /\ Stream' = Stream \/ Lost(Stream, Stream')
<1>1. CASE DoAsyncCommand \/ CallMessageHandler \/ AsyncWrite \/ HandleAsyncConnect
  <2>1. UNCHANGED <<rest, readOps, toClient>>
    BY <1>1 DEF DoAsyncCommand, CallMessageHandler, AsyncWrite, HandleAsyncConnect, loopVars, linkVars,
                envVars, opVars
  <2>2. UNCHANGED <<published, msgHandlers, singleShotMsgHandlers, issued>>
    BY <1>1 DEF DoAsyncCommand, CallMessageHandler, AsyncWrite, HandleAsyncConnect, pubsubVars, logVars,
                envVars, historyVars
  <2> QED BY <2>1, <2>2, StreamSame
<1>2. CASE ConnectHandlerReturns
  <2>1. UNCHANGED <<rest, toClient, published, msgHandlers, singleShotMsgHandlers, issued>>
    BY <1>2 DEF ConnectHandlerReturns, pubsubVars, historyVars, linkVars, logVars
  <2> QED BY <1>2, <2>1, ProcessMessageStream DEF ConnectHandlerReturns
<1>3. CASE ReadAgain
  <2>1. UNCHANGED <<rest, toClient, published, msgHandlers, singleShotMsgHandlers, issued>>
    BY <1>3 DEF ReadAgain, pubsubVars, historyVars, linkVars, logVars
  <2> QED BY <1>3, <2>1, ProcessMessageStream DEF ReadAgain
<1>4. CASE AsyncRead
  <2>1. UNCHANGED <<published, msgHandlers, singleShotMsgHandlers, issued>>
    BY <1>4 DEF AsyncRead, pubsubVars, logVars
  <2> QED BY <1>4, <2>1, AsyncReadStream
<1>5. CASE HandlerReturns
  <2>1. UNCHANGED <<rest, readOps, toClient, published, msgHandlers, singleShotMsgHandlers, issued>>
    BY <1>5 DEF HandlerReturns, pubsubVars, historyVars, envVars, linkVars, opVars, logVars
  <2> QED BY <2>1, StreamSame
<1>6. CASE ErrorHandlerReturns
  <2>1. UNCHANGED <<readOps, toClient, published, msgHandlers, singleShotMsgHandlers, issued>>
    BY <1>6 DEF ErrorHandlerReturns, pubsubVars, historyVars, envVars, linkVars, opVars, logVars
  <2>2. rest' = <<>> \/ UNCHANGED rest
    BY <1>6 DEF ErrorHandlerReturns
  <2> QED BY <2>1, <2>2, StreamSame, RestLost
<1> QED BY <1>1, <1>2, <1>3, <1>4, <1>5, <1>6 DEF Handler, ReadLoop

LEMMA CallStream ==
    ASSUME TypeOK, PairTyped, RestParsed, Discipline # "any", AppCall
    PROVE  /\ UNCHANGED published
           /\ Stream' = Stream \/ Lost(Stream, Stream')
<1>1. CASE Disconnect
  BY <1>1, DisconnectStream DEF Disconnect, logVars
<1>2. CASE Connect
  BY <1>2, StreamSame DEF Connect, linkVars, StartConnect, logVars
<1>3. CASE \/ Command \/ Publish
           \/ \E ch \in Channels : Subscribe(ch) \/ SingleShotSubscribe(ch)
           \/ \E h \in held : Unsubscribe(h)
  <2>1. UNCHANGED <<rest, readOps, toClient, published>>
    BY <1>3 DEF Command, Publish, Request1, Subscribe, SingleShotSubscribe, Unsubscribe, envVars, opVars,
                linkVars, logVars, loopVars
  <2> QED BY <2>1, StreamSame
<1> QED BY <1>1, <1>2, <1>3 DEF AppCall

\* The server's replies, and the messages it passes on.
Message(m, ch) == [kind |-> "message", id |-> m, chan |-> ch]

LEMMA EnvironmentStream ==
    ASSUME TypeOK, PairTyped, PairTyped', ConnInv, RestParsed, Environment
    PROVE  \/ UNCHANGED published /\ (Stream' = Stream \/ Halved(Stream, Stream'))
           \/ /\ UNCHANGED published /\ link = "up"
              /\ \E u \in Unit : /\ u.reply.kind # "message" /\ u.part = "whole"
                                 /\ Stream' = Append(Stream, u)
           \/ /\ link = "up"
              /\ \E ch \in Channels, u \in Unit :
                    /\ published' = Append(published, [chan |-> ch, audience |-> Audience(ch)])
                    /\ u.reply = Message(Len(published'), ch) /\ u.part = "whole"
                    /\ Stream' = Append(Stream, u)
<1>0. UNCHANGED clientVars
  BY DEF Environment
<1>1. UNCHANGED rest
  BY <1>0, EnvironmentKeeps
<1>2. CASE ConnectDone \/ WriteSome \/ WriteFails \/ LinkDrops
  <2>1. UNCHANGED <<readOps, toClient, published>>
    BY <1>2 DEF ConnectDone, WriteSome, WriteFails, LinkDrops, logVars, opVars, linkVars
  <2> QED BY <1>1, <2>1, StreamSame
<1>3. CASE ReadSome
  BY <1>0, <1>3, ReadSomeStream DEF ReadSome, logVars
<1>4. CASE ReadFails
  BY <1>0, <1>4, ReadFailsStream DEF ReadFails, logVars
<1>5. CASE ServerReply
  <2> DEFINE r == Head(toServer)
             kind == IF r.kind = "command" THEN "reply" ELSE r.kind
             u == [reply |-> [kind |-> kind, id |-> r.id, chan |-> r.chan], part |-> "whole"]
  <2>1. toClient' = Append(toClient, u) /\ UNCHANGED <<readOps, published>> /\ link = "up"
    BY <1>5 DEF ServerReply, opVars, logVars
  <2>2. r \in Request
    BY <1>5, HeadTailProperties DEF ServerReply, PairTyped
  <2>3. kind \in {"reply", "subscribe", "unsubscribe"}
    BY <2>2 DEF Request
  <2>4. [kind |-> kind, id |-> r.id, chan |-> r.chan] \in Reply
    BY <2>2, <2>3, ReplyTypes
  <2>5. u \in Unit /\ u.reply.kind # "message" /\ u.part = "whole"
    BY <2>3, <2>4 DEF Unit
  <2> HIDE DEF u
  <2>6. Stream' = Append(Stream, u)
    BY <1>1, <2>1, <2>5, StreamGrows
  <2> QED BY <2>1, <2>5, <2>6
<1>6. ASSUME NEW ch \in Channels, ServerPublish(ch, Audience(ch))
      PROVE  /\ link = "up"
             /\ published' = Append(published, [chan |-> ch, audience |-> Audience(ch)])
             /\ \E u \in Unit : /\ u.reply = Message(Len(published'), ch) /\ u.part = "whole"
                                /\ Stream' = Append(Stream, u)
  <2> DEFINE u == [reply |-> Message(Len(published'), ch), part |-> "whole"]
  <2>1. /\ link = "up" /\ published' = Append(published, [chan |-> ch, audience |-> Audience(ch)])
        /\ toClient' = Append(toClient, u) /\ UNCHANGED readOps
    BY <1>6 DEF ServerPublish, opVars, Message
  <2>2. Len(published') \in Nat
    <3>1. published \in Seq(Publication)
      BY DEF TypeOK, EnvTypeOK
    <3>2. [chan |-> ch, audience |-> Audience(ch)] \in Publication
      BY DEF Publication, Audience, TypeOK
    <3> QED BY <2>1, <3>1, <3>2, AppendProperties, LenProperties
  <2>3. u \in Unit /\ u.reply = Message(Len(published'), ch) /\ u.part = "whole"
    BY <2>2, ReplyTypes DEF Unit, Message
  <2> HIDE DEF u
  <2>4. Stream' = Append(Stream, u)
    BY <1>1, <2>1, <2>3, StreamGrows
  <2> QED BY <2>1, <2>3, <2>4
<1> QED BY <1>2, <1>3, <1>4, <1>5, <1>6 DEF Environment

-----------------------------------------------------------------------------
(* The invariant of the messages.  Message m is in the stream between      *)
(* m - 1 and m; up to `at` they have been given, those after it are on     *)
(* their way.  A single-shot handler is looked up and erased when it is    *)
(* given a message (redisclientimpl.cpp:276-280), a later one has another  *)
(* id.                                                                     *)

RealMessage  == {u \in Unit : u.reply.kind = "message"}
MessageStart == [u \in Unit |-> u.reply.id - 1]
MessageEnd   == [u \in Unit |-> IF u.part = "first" THEN u.reply.id - 1 ELSE u.reply.id]

OnTheirWay(at) == InOrder(Stream, RealMessage, MessageStart, MessageEnd, at, Len(published))

ShotInv ==
    /\ \A h \in msgHandlers : ~h.shot
    /\ \A h \in singleShotMsgHandlers : h.shot /\ h.id <= issued
    /\ \A h \in Taken(called, strand) : h.shot => h.id <= issued /\ h \notin singleShotMsgHandlers

MsgInv ==
    /\ RestParsed /\ ShotInv
    /\ \E at \in 0 .. Len(published) : GivenInOrder(called, strand, at) /\ OnTheirWay(at)

LEMMA WayTypes ==
    /\ RealMessage \in SUBSET Unit
    /\ MessageStart \in [Unit -> Int] /\ MessageEnd \in [Unit -> Int]
    /\ \A u \in Unit : /\ u.reply.id \in Nat /\ MessageStart[u] = u.reply.id - 1
                       /\ MessageEnd[u] = IF u.part = "first" THEN u.reply.id - 1 ELSE u.reply.id
                       /\ MessageStart[u] \in Int /\ MessageEnd[u] \in Int
BY PieceTypes DEF RealMessage, MessageStart, MessageEnd

\* Nothing but the place of a reply in the stream changes when it is halved.
LEMMA HalvesOrder ==
    ASSUME NEW s \in Seq(Unit), NEW c \in Seq(Unit), Halved(s, c), NEW lo \in Int, NEW hi \in Int,
           InOrder(s, RealMessage, MessageStart, MessageEnd, lo, hi)
    PROVE  InOrder(c, RealMessage, MessageStart, MessageEnd, lo, hi)
<1>1. PICK k \in DOMAIN s :
         /\ s[k].part = "whole"
         /\ CutAt(s, c, k, [s[k] EXCEPT !.part = "first"], [s[k] EXCEPT !.part = "second"])
  BY DEF Halved
<1> DEFINE first == [s[k] EXCEPT !.part = "first"]
           second == [s[k] EXCEPT !.part = "second"]
<1>2. k \in Nat /\ s[k] \in Unit
  BY <1>1, ElementOfSeq, LenProperties
<1>3. /\ first \in Unit /\ first.reply = s[k].reply /\ first.part = "first"
      /\ second \in Unit /\ second.reply = s[k].reply /\ second.part = "second"
  <2>1. \A x \in Unit, p \in {"first", "second"} :
           /\ [x EXCEPT !.part = p] \in Unit
           /\ [x EXCEPT !.part = p].reply = x.reply /\ [x EXCEPT !.part = p].part = p
    BY DEF Unit
  <2> QED BY <1>2, <2>1
<1>4. CutAt(s, c, k, first, second)
  BY <1>1
<1> HIDE DEF first, second
<1>5. \A x \in {first, second} : x \in RealMessage => s[k] \in RealMessage
  BY <1>2, <1>3 DEF RealMessage
<1> DEFINE n == s[k].reply.id
<1>6. /\ n \in Nat
      /\ MessageStart[s[k]] = n - 1 /\ MessageEnd[s[k]] = n
      /\ MessageStart[first] = n - 1 /\ MessageEnd[first] = n - 1
      /\ MessageStart[second] = n - 1 /\ MessageEnd[second] = n
  BY <1>1, <1>2, <1>3, WayTypes
<1> HIDE DEF n
<1>7. \A x \in {first, second} : MessageStart[s[k]] <= MessageStart[x] /\ MessageEnd[x] <= MessageEnd[s[k]]
  BY <1>6
<1>8. MessageEnd[first] <= MessageStart[second]
  BY <1>6
<1>9. RealMessage \in SUBSET Unit /\ \A u \in Unit : MessageStart[u] \in Int /\ MessageEnd[u] \in Int
  BY WayTypes
<1>10. \A x \in {first, second} :
          /\ x \in RealMessage => s[k] \in RealMessage
          /\ MessageStart[s[k]] <= MessageStart[x] /\ MessageEnd[x] <= MessageEnd[s[k]]
  BY <1>5, <1>7
<1>11. first \in Unit /\ second \in Unit /\ k \in Nat
  BY <1>2, <1>3
<1> QED BY <1>4, <1>8, <1>9, <1>10, <1>11, OrderCut

LEMMA WayKept ==
    ASSUME PairTyped, PairTyped', NEW at \in Int, Len(published) \in Int, OnTheirWay(at),
           UNCHANGED published, StreamKept
    PROVE  OnTheirWay(at)'
<1>1. Stream \in Seq(Unit) /\ Stream' \in Seq(Unit)
  BY DEF PairTyped
<1> DEFINE hi == Len(published)
           In(s) == InOrder(s, RealMessage, MessageStart, MessageEnd, at, hi)
<1>2. In(Stream)
  BY DEF OnTheirWay
<1>3. In(Stream')
  <2> HIDE DEF hi
  <2>1. CASE Stream' = Stream
    BY <1>2, <2>1
  <2>2. CASE Halved(Stream, Stream')
    <3>1. hi \in Int
      BY DEF hi
    <3> QED BY <1>1, <1>2, <2>2, <3>1, HalvesOrder
  <2>3. CASE Lost(Stream, Stream')
    <3>1. PICK p \in Seq(Unit), q \in Seq(Unit) : Stream = p \o q /\ Stream' \in {p, q}
      BY <2>3 DEF Lost
    <3>2. In(p \o q)
      BY <1>2, <3>1
    <3>3. In(p) /\ In(q)
      BY <3>2, WayTypes, OrderParts
    <3> QED BY <3>1, <3>3
  <2> QED BY <2>1, <2>2, <2>3 DEF StreamKept
<1>4. Len(published') = hi
  OBVIOUS
<1> QED BY <1>3, <1>4 DEF OnTheirWay

\* More in the stream: a message that has just been published, or something else.
LEMMA WayGrows ==
    ASSUME PairTyped, NEW at \in Int, Len(published) \in Int, Len(published') \in Int, at <= Len(published),
           OnTheirWay(at), Len(published) <= Len(published'), NEW u \in Unit, Stream' = Append(Stream, u),
           u.reply.kind = "message" => /\ Len(published) <= MessageStart[u]
                                       /\ MessageEnd[u] <= Len(published')
    PROVE  OnTheirWay(at)'
<1>1. Stream \in Seq(Unit)
  BY DEF PairTyped
<1> DEFINE m == Len(published)
           n == Len(published')
<1>2. /\ at \in Int /\ m \in Int /\ n \in Int /\ at <= m /\ m <= n
      /\ InOrder(Stream, RealMessage, MessageStart, MessageEnd, at, m)
      /\ u \in RealMessage => m <= MessageStart[u] /\ MessageEnd[u] <= n
  BY DEF OnTheirWay, RealMessage
<1> HIDE DEF m, n
<1>3. InOrder(Append(Stream, u), RealMessage, MessageStart, MessageEnd, at, n)
  BY <1>1, <1>2, WayTypes, OrderAppend
<1> QED BY <1>3 DEF OnTheirWay, n

\* The next piece of the stream has been parsed.
LEMMA WayShrinks ==
    ASSUME PairTyped, NEW at \in Int, Len(published) \in Int, OnTheirWay(at), UNCHANGED published,
           Stream # <<>>, Stream' = Tail(Stream)
    PROVE  /\ OnTheirWay(at)'
           /\ Head(Stream) \in RealMessage =>
                 /\ at <= MessageStart[Head(Stream)] /\ MessageEnd[Head(Stream)] <= Len(published)
                 /\ \E b \in Int : b = MessageEnd[Head(Stream)] /\ OnTheirWay(b)'
<1>1. Stream \in Seq(Unit)
  BY DEF PairTyped
<1> DEFINE s == Stream
           n == Len(published)
           e == MessageEnd[Head(s)]
<1>2. s \in Seq(Unit) /\ s # <<>> /\ n \in Int /\ InOrder(s, RealMessage, MessageStart, MessageEnd, at, n)
  BY <1>1 DEF OnTheirWay
<1> HIDE DEF s, n
<1>3. /\ InOrder(Tail(s), RealMessage, MessageStart, MessageEnd, at, n)
      /\ Head(s) \in RealMessage => /\ at <= MessageStart[Head(s)] /\ e <= n
                                    /\ InOrder(Tail(s), RealMessage, MessageStart, MessageEnd, e, n)
  BY <1>2, WayTypes, OrderTail
<1>4. Stream' = Tail(s) /\ Len(published') = n /\ Head(Stream) = Head(s)
  BY DEF s, n
<1>5. OnTheirWay(at)'
  BY <1>3, <1>4 DEF OnTheirWay
<1>6. ASSUME Head(s) \in RealMessage
      PROVE  \E b \in Int : b = MessageEnd[Head(Stream)] /\ OnTheirWay(b)'
  <2>1. PICK x \in Int : x = e
    BY <1>6, WayTypes DEF RealMessage
  <2>2. InOrder(Tail(s), RealMessage, MessageStart, MessageEnd, x, n)
    BY <1>3, <1>6, <2>1
  <2>3. OnTheirWay(x)'
    BY <1>4, <2>2 DEF OnTheirWay
  <2> QED BY <1>4, <2>1, <2>3
<1> QED BY <1>3, <1>4, <1>5, <1>6 DEF n, s

\* An order only names what it is built from; what is posted for a request is no message.
LEMMA PostJob ==
    ASSUME issued \in Nat, NEW kind, NEW chan, Post(kind, chan),
           \/ kind = "command" /\ chan = NoChannel
           \/ kind \in {"subscribe", "unsubscribe"} /\ chan \in Channels
    PROVE  \E e \in Job : e.run = "doAsyncCommand" /\ strand' = Append(strand, e)
<1> DEFINE req == [kind |-> kind, id |-> issued', chan |-> chan]
           e == [run |-> "doAsyncCommand", req |-> req]
<1>1. issued' \in Nat
  BY DEF Post
<1>2. req \in Request
  BY <1>1 DEF Request
<1>3. strand' = Append(strand, e)
  BY DEF Post
<1> HIDE DEF req
<1>4. e \in Job /\ e.run = "doAsyncCommand"
  BY <1>2, JobTypes
<1> QED BY <1>3, <1>4

\* A request that is posted, or nothing.
RequestPosted == \/ UNCHANGED strand
                 \/ \E e \in Job : e.run = "doAsyncCommand" /\ strand' = Append(strand, e)

LEMMA RequestGiven ==
    ASSUME TypeOK, NEW at \in Nat, GivenInOrder(called, strand, at), UNCHANGED called, RequestPosted
    PROVE  GivenInOrder(called', strand', at) /\ Taken(called', strand') = Taken(called, strand)
<1>1. called \in Seq(Call) /\ strand \in Seq(Job)
  BY DEF TypeOK, Call
<1>2. CASE UNCHANGED strand
  BY <1>2
<1>3. ASSUME NEW e \in Job, e.run = "doAsyncCommand", strand' = Append(strand, e)
      PROVE  GivenInOrder(called', strand', at) /\ Taken(called', strand') = Taken(called, strand)
  <2>1. at <= at
    OBVIOUS
  <2>2. GivenInOrder(called, Append(strand, e), at)
    BY <1>1, <1>3, <2>1, GivenPost
  <2>3. Taken(called, Append(strand, e)) = Taken(called, strand)
    BY <1>1, <1>3, TakenPost
  <2> QED BY <1>3, <2>2, <2>3
<1> QED BY <1>2, <1>3 DEF RequestPosted

LEMMA CallsPost ==
    ASSUME TypeOK, AppCall
    PROVE  /\ UNCHANGED called /\ RequestPosted
           /\ issued' \in {issued, issued + 1}
<1>0. issued \in Nat /\ held \in SUBSET Handle
  BY DEF TypeOK
<1>1. CASE Connect \/ Disconnect
  BY <1>1 DEF Connect, Disconnect, queueVars, RequestPosted
<1>2. CASE Command \/ Publish
  <2>1. UNCHANGED called /\ (UNCHANGED <<issued, strand>> \/ Post("command", NoChannel))
    BY <1>2 DEF Command, Publish, Request1
  <2> QED BY <1>0, <2>1, PostJob DEF RequestPosted, Post
<1>3. ASSUME NEW ch \in Channels, Subscribe(ch) \/ SingleShotSubscribe(ch)
      PROVE  UNCHANGED called /\ RequestPosted /\ issued' \in {issued, issued + 1}
  <2>1. UNCHANGED called /\ (UNCHANGED <<issued, strand>> \/ Post("subscribe", ch))
    BY <1>3 DEF Subscribe, SingleShotSubscribe
  <2> QED BY <1>0, <2>1, PostJob DEF RequestPosted, Post
<1>4. ASSUME NEW h \in held, Unsubscribe(h)
      PROVE  UNCHANGED called /\ RequestPosted /\ issued' \in {issued, issued + 1}
  <2>1. UNCHANGED called /\ (UNCHANGED <<issued, strand>> \/ Post("unsubscribe", h.chan))
    BY <1>4 DEF Unsubscribe
  <2>2. h.chan \in Channels
    BY <1>0 DEF Handle
  <2> QED BY <1>0, <2>1, <2>2, PostJob DEF RequestPosted, Post
<1> QED BY <1>1, <1>2, <1>3, <1>4 DEF AppCall

\* What a call does to the subscriptions: a new single-shot one has an id of its own.
LEMMA CallsSubscribe ==
    ASSUME TypeOK, AppCall
    PROVE  /\ \A h \in msgHandlers' : h \in msgHandlers \/ ~h.shot
           /\ \A h \in singleShotMsgHandlers' :
                 h \in singleShotMsgHandlers \/ (h.shot /\ h.id = issued + 1 /\ issued' = issued + 1)
<1>1. CASE Connect \/ Disconnect
  BY <1>1 DEF Connect, Disconnect, Close, pubsubVars
<1>2. CASE Command \/ Publish
  BY <1>2 DEF Command, Publish, Request1, pubsubVars
<1>3. ASSUME NEW ch \in Channels, Subscribe(ch)
      PROVE  /\ \A h \in msgHandlers' : h \in msgHandlers \/ ~h.shot
             /\ UNCHANGED singleShotMsgHandlers
  BY <1>3 DEF Subscribe
<1>4. ASSUME NEW ch \in Channels, SingleShotSubscribe(ch)
      PROVE  /\ UNCHANGED msgHandlers
             /\ \A h \in singleShotMsgHandlers' :
                 h \in singleShotMsgHandlers \/ (h.shot /\ h.id = issued + 1 /\ issued' = issued + 1)
  BY <1>4 DEF SingleShotSubscribe, Post
<1>5. ASSUME NEW g \in held, Unsubscribe(g)
      PROVE  msgHandlers' \subseteq msgHandlers /\ UNCHANGED singleShotMsgHandlers
  BY <1>5 DEF Unsubscribe, Remaining
<1> QED BY <1>1, <1>2, <1>3, <1>4, <1>5 DEF AppCall

LEMMA CallShots ==
    ASSUME TypeOK, ShotInv, AppCall, Taken(called', strand') = Taken(called, strand)
    PROVE  ShotInv'
<1>1. issued \in Nat /\ singleShotMsgHandlers \in SUBSET Handle /\ called \in Seq(Call) /\ strand \in Seq(Job)
  BY DEF TypeOK, Call
<1>2. issued' \in {issued, issued + 1}
  BY CallsPost
<1>3. \A h \in msgHandlers' : ~h.shot
  BY CallsSubscribe DEF ShotInv
<1>4. ASSUME NEW h \in singleShotMsgHandlers' PROVE h.shot /\ h.id <= issued'
  <2>1. CASE h \in singleShotMsgHandlers
    <3>1. h.shot /\ h.id <= issued /\ h.id \in Nat
      BY <1>1, <2>1 DEF ShotInv, Handle
    <3> QED BY <1>1, <1>2, <3>1
  <2>2. CASE h.shot /\ h.id = issued + 1 /\ issued' = issued + 1
    BY <1>1, <2>2
  <2> QED BY <2>1, <2>2, CallsSubscribe
<1>5. ASSUME NEW h \in Taken(called, strand), h.shot
      PROVE  h.id <= issued' /\ h \notin singleShotMsgHandlers'
  <2>1. h.id <= issued /\ h \notin singleShotMsgHandlers
    BY <1>5 DEF ShotInv
  <2>2. h \in Handle
    <3>1. \A c \in Range(called) : c.to \in Handle
      BY <1>1, RangeOfSeq, CalledJobIs
    <3>2. \A j \in MessageJobs(strand) : j.to \subseteq Handle
      BY <1>1, RangeOfSeq, JobTypes DEF MessageJobs
    <3> QED BY <3>1, <3>2 DEF Taken
  <2>3. h.id \in Nat
    BY <2>2 DEF Handle
  <2>4. h.id <= issued' /\ h.id # issued + 1
    BY <1>1, <1>2, <2>1, <2>3
  <2> QED BY <2>1, <2>4, CallsSubscribe
<1> QED BY <1>3, <1>4, <1>5 DEF ShotInv

\* What takes no new handler and makes no subscription keeps the single shots single.
LEMMA FewerShots ==
    ASSUME ShotInv, UNCHANGED <<msgHandlers, singleShotMsgHandlers, issued>>,
           Taken(called', strand') \subseteq Taken(called, strand)
    PROVE  ShotInv'
BY DEF ShotInv

LEMMA HandlerGiven ==
    ASSUME TypeOK, NEW at \in Nat, GivenInOrder(called, strand, at), Handler, ~ParseChunk
    PROVE  /\ GivenInOrder(called', strand', at)
           /\ Taken(called', strand') \subseteq Taken(called, strand)
<1>0. called \in Seq(Call) /\ strand \in Seq(Job)
  BY DEF TypeOK, Call
<1>1. CASE DoAsyncCommand
  <2>1. strand # <<>> /\ strand' = Tail(strand) /\ called' = called
    BY <1>1 DEF DoAsyncCommand, historyVars
  <2> QED BY <1>0, <2>1, GivenTail
<1>2. CASE CallMessageHandler
  <2>1. strand # <<>> /\ Head(strand).run = "msgHandler"
    BY <1>2 DEF CallMessageHandler
  <2>2. PICK h \in Head(strand).to :
           /\ called' = Append(called, [to |-> h, msg |-> Head(strand).msg])
           /\ strand' = IF Head(strand).to = {h} THEN Tail(strand)
                        ELSE [strand EXCEPT ![1] = [Head(strand) EXCEPT !.to = Head(strand).to \ {h}]]
    BY <1>2 DEF CallMessageHandler
  <2>3. CallsFirst(strand, h, strand')
    BY <2>2 DEF CallsFirst
  <2>4. PICK left : left = strand'
    OBVIOUS
  <2>5. CallsFirst(strand, h, left)
    BY <2>3, <2>4
  <2>6. /\ GivenInOrder(Append(called, [to |-> h, msg |-> Head(strand).msg]), left, at)
        /\ Taken(Append(called, [to |-> h, msg |-> Head(strand).msg]), left) \subseteq Taken(called, strand)
    BY <1>0, <2>1, <2>5, GivenCall
  <2> QED BY <2>2, <2>4, <2>6
<1>3. CASE AsyncWrite \/ HandleAsyncConnect \/ ConnectHandlerReturns \/ AsyncRead \/ ReadAgain
           \/ HandlerReturns \/ ErrorHandlerReturns
  <2>1. UNCHANGED <<called, strand>>
    BY <1>3 DEF AsyncWrite, HandleAsyncConnect, ConnectHandlerReturns, AsyncRead, ReadAgain, HandlerReturns,
                ErrorHandlerReturns, queueVars, historyVars
  <2> QED BY <2>1
<1> QED BY <1>1, <1>2, <1>3 DEF Handler, ReadLoop

-----------------------------------------------------------------------------
(* A message is posted to those who are to have it.                        *)

\* A message m that is newer than all before it, or one that nobody published.
LEMMA NewerComes ==
    ASSUME NEW cs \in Seq(Call), NEW js \in Seq(Job), NEW at \in Nat, NEW m \in Nat, m = 0 \/ at < m,
           GivenInOrder(cs, js, at), NEW e \in Job, e.run = "msgHandler", e.msg = m,
           \A h \in e.to : h.shot => h \notin Taken(cs, js)
    PROVE  /\ \A c \in Range(cs) : Comes(CalledJob(c), e)
           /\ \A j \in MessageJobs(js) : Comes(j, e)
<1>1. ASSUME NEW c \in Range(cs) PROVE Comes(CalledJob(c), e)
  <2>1. c \in Call /\ c.msg <= at /\ c.to \in Taken(cs, js)
    BY RangeOfSeq DEF GivenInOrder, Taken
  <2>2. c.msg \in Nat
    BY <2>1, CalledJobIs
  <2>3. m = 0 \/ (c.msg < m /\ c.msg <= m)
    BY <2>1, <2>2
  <2> QED BY <2>1, <2>3, CalledJobIs DEF Comes, NobodyPublished
<1>2. ASSUME NEW j \in MessageJobs(js) PROVE Comes(j, e)
  <2>1. j.msg <= at /\ j.to \subseteq Taken(cs, js)
    BY DEF GivenInOrder, Taken
  <2>2. j.msg \in Nat
    BY RangeOfSeq, JobTypes DEF MessageJobs
  <2>3. m = 0 \/ (j.msg < m /\ j.msg <= m)
    BY <2>1, <2>2
  <2> QED BY <2>1, <2>3 DEF Comes, NobodyPublished
<1> QED BY <1>1, <1>2

LEMMA GivenLater ==
    ASSUME NEW cs \in Seq(Call), NEW js \in Seq(Job), NEW at \in Nat, NEW m \in Nat, at <= m,
           GivenInOrder(cs, js, at)
    PROVE  GivenInOrder(cs, js, m)
<1>1. \A c \in Range(cs) : c.msg <= m
  <2> SUFFICES ASSUME NEW c \in Range(cs) PROVE c.msg <= m
    OBVIOUS
  <2>1. c \in Call /\ c.msg <= at
    BY RangeOfSeq DEF GivenInOrder
  <2>2. c.msg \in Nat
    BY <2>1, CalledJobIs
  <2> QED BY <2>1, <2>2
<1>2. \A j \in MessageJobs(js) : j.msg <= m
  <2> SUFFICES ASSUME NEW j \in MessageJobs(js) PROVE j.msg <= m
    OBVIOUS
  <2>1. j.msg <= at
    BY DEF GivenInOrder
  <2>2. j.msg \in Nat
    BY RangeOfSeq, JobTypes DEF MessageJobs
  <2> QED BY <2>1, <2>2
<1> QED BY <1>1, <1>2 DEF GivenInOrder

\* The jobs posted for the regular subscriptions of a channel: one, or none.
RegularJobs(ch, m) == IF Regular(ch) = {} THEN <<>> ELSE <<MsgJob(Regular(ch), m)>>

LEMMA RegularGiven ==
    ASSUME TypeOK, NEW js \in Seq(Job), NEW m \in Nat, NEW top \in Nat, m <= top, NEW ch,
           GivenInOrder(called, js, top),
           \A c \in Range(called) : Comes(CalledJob(c), MsgJob(Regular(ch), m)),
           \A j \in MessageJobs(js) : Comes(j, MsgJob(Regular(ch), m))
    PROVE  /\ GivenInOrder(called, js \o RegularJobs(ch, m), top)
           /\ Taken(called, js \o RegularJobs(ch, m)) = Taken(called, js) \cup Regular(ch)
<1>1. called \in Seq(Call) /\ top <= top /\ Regular(ch) \in SUBSET Handle
  BY DEF TypeOK, Call, Regular
<1>2. CASE Regular(ch) = {}
  <2>1. js \o RegularJobs(ch, m) = js
    BY <1>2, ConcatEmptySeq DEF RegularJobs
  <2> QED BY <1>2, <2>1
<1>3. CASE Regular(ch) # {}
  <2> DEFINE e == MsgJob(Regular(ch), m)
  <2>1. e \in Job /\ e.run = "msgHandler" /\ e.msg = m /\ e.to = Regular(ch)
    BY <1>1, JobTypes DEF MsgJob
  <2>2. js \o RegularJobs(ch, m) = Append(js, e)
    BY <1>3, <2>1, AppendIsConcat DEF RegularJobs
  <2>3. /\ \A c \in Range(called) : Comes(CalledJob(c), e)
        /\ \A j \in MessageJobs(js) : Comes(j, e)
    OBVIOUS
  <2> HIDE DEF e
  <2>4. GivenInOrder(called, Append(js, e), top)
    BY <1>1, <2>1, <2>3, GivenPost
  <2>5. Taken(called, Append(js, e)) = Taken(called, js) \cup Regular(ch)
    BY <1>1, <2>1, TakenPost
  <2> QED BY <2>2, <2>4, <2>5 DEF e
<1> QED BY <1>2, <1>3

\* A message newer than all before it, or one nobody published: first to one single-shot handler,
\* if there is one, then to the regular ones.
LEMMA PostGiven ==
    ASSUME TypeOK, ShotInv, NEW at \in Nat, NEW m \in Nat, m = 0 \/ at < m, NEW top \in Nat,
           at <= top, m <= top, GivenInOrder(called, strand, at), NEW v, v.id = m, PostMessage(v), UNCHANGED <<called, msgHandlers, issued>>
    PROVE  ShotInv' /\ GivenInOrder(called', strand', top)
<1> DEFINE ch == v.chan
           r == MsgJob(Regular(ch), m)
<1>1. /\ called \in Seq(Call) /\ strand \in Seq(Job) /\ Regular(ch) \in SUBSET Handle
      /\ singleShotMsgHandlers \in SUBSET Handle
  BY DEF TypeOK, Call, Regular
<1>2. r \in Job /\ r.run = "msgHandler" /\ r.msg = m /\ r.to = Regular(ch)
  BY <1>1, JobTypes DEF MsgJob
<1>3. \A h \in Regular(ch) : ~h.shot
  BY DEF Regular, ShotInv
<1>4. /\ \A c \in Range(called) : Comes(CalledJob(c), r)
      /\ \A j \in MessageJobs(strand) : Comes(j, r)
  <2>1. \A h \in r.to : h.shot => h \notin Taken(called, strand)
    BY <1>2, <1>3
  <2> HIDE DEF r
  <2> QED BY <1>1, <1>2, <2>1, NewerComes
<1>5. CASE strand' = strand \o RegularJobs(ch, m) /\ UNCHANGED singleShotMsgHandlers
  <2>1. GivenInOrder(called, strand, top)
    BY <1>1, GivenLater
  <2>2. /\ GivenInOrder(called, strand \o RegularJobs(ch, m), top)
        /\ Taken(called, strand \o RegularJobs(ch, m)) = Taken(called, strand) \cup Regular(ch)
    BY <1>1, <1>4, <2>1, RegularGiven
  <2>3. Taken(called', strand') = Taken(called, strand) \cup Regular(ch)
    BY <1>5, <2>2
  <2>4. ShotInv'
    BY <1>3, <1>5, <2>3 DEF ShotInv
  <2> QED BY <1>5, <2>2, <2>4
<1>6. ASSUME NEW it \in singleShotMsgHandlers, strand' = strand \o <<MsgJob({it}, m)>> \o RegularJobs(ch, m),
             singleShotMsgHandlers' = singleShotMsgHandlers \ {it}
      PROVE  ShotInv' /\ GivenInOrder(called', strand', top)
  <2> DEFINE s == MsgJob({it}, m)
             js == Append(strand, s)
  <2>1. s \in Job /\ s.run = "msgHandler" /\ s.msg = m /\ s.to = {it}
    BY <1>1, JobTypes DEF MsgJob
  <2>2. it.shot /\ it \notin Taken(called, strand) /\ it.id <= issued
    BY DEF ShotInv
  <2>3. js \in Seq(Job) /\ strand \o <<s>> = js
    BY <1>1, <2>1, AppendProperties, AppendIsConcat
  <2>4. strand' = js \o RegularJobs(ch, m)
    BY <1>6, <2>3
  <2> HIDE DEF s
  <2>5. /\ \A c \in Range(called) : Comes(CalledJob(c), s)
        /\ \A j \in MessageJobs(strand) : Comes(j, s)
    BY <1>1, <2>1, <2>2, NewerComes
  <2>6. GivenInOrder(called, js, top)
    BY <1>1, <2>1, <2>5, GivenPost
  <2>7. Taken(called, js) = Taken(called, strand) \cup {it}
    BY <1>1, <2>1, TakenPost
  <2>8. \A j \in MessageJobs(js) : Comes(j, r)
    <3>1. Comes(s, r)
      <4>1. s.to \cap r.to = {}
        BY <1>2, <1>3, <2>1, <2>2
      <4>2. s.msg <= r.msg
        BY <1>2, <2>1
      <4> QED BY <4>1, <4>2 DEF Comes, NobodyPublished
    <3> QED BY <1>1, <1>4, <2>1, <3>1, MessageJobsAppend
  <2> HIDE DEF js
  <2>9. /\ GivenInOrder(called, js \o RegularJobs(ch, m), top)
        /\ Taken(called, js \o RegularJobs(ch, m)) = Taken(called, js) \cup Regular(ch)
    BY <1>4, <2>3, <2>6, <2>8, RegularGiven
  <2>10. Taken(called', strand') = Taken(called, strand) \cup {it} \cup Regular(ch)
    BY <2>4, <2>7, <2>9
  <2>11. ShotInv'
    BY <1>3, <1>6, <2>2, <2>10 DEF ShotInv
  <2> QED BY <2>4, <2>9, <2>11
<1> QED BY <1>5, <1>6 DEF PostMessage, RegularJobs, SingleShotsWithout

\* What asyncRead's loop does with the next piece, as far as messages go: it takes it, and posts
\* the message that it ends, if it is one, or one that bytes out of step are taken for; or an error
\* ends the loop.
TakesOne == \E n \in Nat : rest' = Remains(n)

PieceTaken(u) ==
    \/ TakesOne /\ UNCHANGED <<strand, singleShotMsgHandlers>>
    \/ /\ rest' = Tail(rest) /\ state = "Subscribed"
       /\ u.reply.kind = "message" /\ u.part # "first" /\ PostMessage(u.reply)
    \/ TakesOne /\ \E v : v.id = 0 /\ PostMessage(v)
    \/ rest' = <<>> /\ UNCHANGED <<strand, singleShotMsgHandlers>>

LEMMA ParsePieces ==
    ASSUME redisParser \in Reply, ParseChunk, NEW u \in Unit, u = Head(rest)
    PROVE  PieceTaken(u)
<1>1. PICK out \in Parse(u) :
         CASE out.result = "Completed" -> rest' = Remains(out.left) /\ DoProcessMessage(out.value)
           [] out.result = "Incompleted" ->
                /\ rest' = Tail(rest)
                /\ UNCHANGED <<frame, strand, singleShotMsgHandlers, delivered, reported>>
           [] out.result = "Error" ->
                /\ rest' = <<>> /\ frame' = "none" /\ Report1("parser")
                /\ UNCHANGED <<strand, singleShotMsgHandlers, delivered>>
  BY DEF ParseChunk
<1>2. \/ out.result = "Incompleted" \/ out.result = "Error"
      \/ out.result = "Completed" /\ out.value \in Garbled
      \/ out.result = "Completed" /\ out.value = u.reply /\ u.part # "first" /\ out.left = 0
  BY DEF Parse, OutOfStep
<1>3. CASE out.result = "Incompleted"
  <2>1. rest' = Remains(0) /\ UNCHANGED <<strand, singleShotMsgHandlers>>
    BY <1>1, <1>3 DEF Remains
  <2> QED BY <2>1 DEF PieceTaken, TakesOne
<1>4. CASE out.result = "Error"
  BY <1>1, <1>4 DEF PieceTaken
<1>5. CASE out.result = "Completed"
  <2>1. rest' = Remains(out.left) /\ DoProcessMessage(out.value) /\ TakesOne
    <3>1. out.left \in Nat
      BY ParseType
    <3> QED BY <1>1, <1>5, <3>1 DEF TakesOne
  <2>2. CASE PostMessage(out.value) /\ state = "Subscribed" /\ out.value.kind = "message"
    <3>1. CASE out.value \in Garbled
      <4>1. out.value.id = 0
        BY <2>2, <3>1 DEF Garbled, Garbage
      <4> QED BY <2>1, <2>2, <4>1 DEF PieceTaken
    <3>2. CASE out.value = u.reply /\ u.part # "first" /\ out.left = 0
      <4>1. rest' = Tail(rest)
        BY <2>1, <3>2 DEF Remains
      <4>2. PostMessage(u.reply) /\ u.reply.kind = "message"
        BY <2>2, <3>2
      <4> QED BY <2>2, <3>2, <4>1, <4>2 DEF PieceTaken
    <3> QED BY <1>2, <1>5, <3>1, <3>2
  <2>3. CASE CallFront(out.value) \/ Refuse
    BY <2>1, <2>3 DEF CallFront, Refuse, PieceTaken
  <2> QED BY <2>1, <2>2, <2>3 DEF DoProcessMessage
<1> QED BY <1>2, <1>3, <1>4, <1>5

\* What stands in the place of the piece taken is no message.
LEMMA WayTaken ==
    ASSUME TypeOK, PairTyped, NEW at \in Int, Len(published) \in Int, at <= Len(published),
           OnTheirWay(at), TakesOne, rest # <<>>, UNCHANGED <<published, readOps, toClient>>
    PROVE  OnTheirWay(at)'
<1>1. PICK n \in Nat : rest' = Remains(n)
  BY DEF TakesOne
<1>2. rest \in Seq(Unit) /\ Tail(rest) \in Seq(Unit) /\ ReadData \o toClient \in Seq(Unit)
  BY HeadTailProperties, ConcatProperties DEF PairTyped
<1>3. Stream \in Seq(Unit) /\ Stream # <<>> /\ Tail(Stream) = Tail(rest) \o (ReadData \o toClient)
  BY <1>2, ConcatTail DEF Stream, PairTyped
<1>4. Stream' = rest' \o (ReadData \o toClient)
  <2>1. ReadData' = ReadData
    BY DEF ReadData
  <2> QED BY <2>1 DEF Stream
<1>5. PICK x \in Unit : x = Leftover(n)
  BY ReplyTypes DEF Leftover, Unit, Garbage, Reply
<1>6. x \notin RealMessage
  BY <1>5 DEF Leftover, Garbage, RealMessage
<1>7. PICK hi \in Int : hi = Len(published)
  OBVIOUS
<1>8. PICK t \in Seq(Unit) : t = Tail(Stream)
  BY <1>3, HeadTailProperties
<1>9. InOrder(t, RealMessage, MessageStart, MessageEnd, at, hi)
  <2>1. InOrder(Stream, RealMessage, MessageStart, MessageEnd, at, hi)
    BY <1>7 DEF OnTheirWay
  <2> QED BY <1>3, <1>8, <2>1, WayTypes, OrderTail
<1>10. CASE n = 0
  <2>1. Stream' = t
    BY <1>1, <1>3, <1>4, <1>8, <1>10 DEF Remains
  <2> QED BY <1>7, <1>9, <2>1 DEF OnTheirWay
<1>11. CASE n # 0
  <2>1. rest' = <<x>> \o Tail(rest)
    BY <1>1, <1>5, <1>11 DEF Remains
  <2>2. Stream' = <<x>> \o t
    <3>0. <<x>> \in Seq(Unit)
      OBVIOUS
    <3>1. PICK f \in Seq(Unit) : f = <<x>>
      BY <3>0, Zenon
    <3>2. PICK p \in Seq(Unit) : p = Tail(rest)
      BY <1>2
    <3>3. PICK q \in Seq(Unit) : q = ReadData \o toClient
      BY <1>2
    <3>4. f \o (p \o q) = (f \o p) \o q
      BY ConcatRegroup
    <3>5. t = p \o q
      BY <1>3, <1>8, <3>2, <3>3
    <3>6. Stream' = (f \o p) \o q
      BY <1>4, <2>1, <3>1, <3>2, <3>3
    <3> QED BY <3>1, <3>4, <3>5, <3>6
  <2>3. InOrder(<<x>>, RealMessage, MessageStart, MessageEnd, at, at)
    BY <1>6, WayTypes, OrderOne
  <2>4. <<x>> \in Seq(Unit) /\ at <= at /\ at <= hi
    BY <1>7
  <2>5. InOrder(<<x>> \o t, RealMessage, MessageStart, MessageEnd, at, hi)
    BY <1>9, <2>3, <2>4, WayTypes, OrderConcat
  <2> QED BY <1>7, <2>2, <2>5 DEF OnTheirWay
<1> QED BY <1>10, <1>11

LEMMA StreamHead ==
    ASSUME PairTyped, ParseChunk
    PROVE  /\ Head(rest) \in Unit /\ Stream # <<>> /\ Head(Stream) = Head(rest)
           /\ Stream \in Seq(Unit)
<1>1. rest \in Seq(Unit) /\ rest # <<>> /\ ReadData \o toClient \in Seq(Unit) /\ Stream \in Seq(Unit)
  BY ConcatProperties DEF ParseChunk, PairTyped
<1> QED BY <1>1, ConcatTail, HeadTailProperties DEF Stream

LEMMA ParseMessages ==
    ASSUME TypeOK, PairTyped, PairTyped', ShotInv, NEW at \in 0 .. Len(published),
           GivenInOrder(called, strand, at), OnTheirWay(at), ParseChunk
    PROVE  /\ ShotInv'
           /\ \E b \in 0 .. Len(published') : GivenInOrder(called', strand', b) /\ OnTheirWay(b)'
<1>0. PICK u : u = Head(rest) /\ PieceTaken(u)
  BY StreamHead, ParsePieces DEF TypeOK
<1>1. UNCHANGED <<published, called, msgHandlers, issued, readOps, toClient>>
  BY DEF ParseChunk, envVars, linkVars, opVars, logVars
<1>2. Len(published) \in Nat /\ at \in Nat /\ at \in Int /\ Len(published) \in Int
  <2>1. published \in Seq(Publication)
    BY DEF TypeOK, EnvTypeOK
  <2>2. Len(published) \in Nat
    BY <2>1, LenProperties
  <2> QED BY <2>2
<1>3. at \in 0 .. Len(published')
  BY <1>1
<1>4. rest # <<>>
  BY DEF ParseChunk
<1>5. CASE UNCHANGED <<strand, singleShotMsgHandlers>>
  <2>1. GivenInOrder(called', strand', at) /\ Taken(called', strand') = Taken(called, strand)
    BY <1>1, <1>5
  <2>2. ShotInv'
    BY <1>1, <1>5, <2>1, FewerShots
  <2>3. OnTheirWay(at)'
    <3>1. CASE TakesOne
      BY <1>1, <1>2, <1>4, <3>1, WayTaken
    <3>3. CASE rest' = Tail(rest)
      <4>1. TakesOne
        BY <3>3 DEF TakesOne, Remains
      <4> QED BY <3>1, <4>1
    <3>2. CASE rest' = <<>>
      <4>1. StreamKept
        BY <1>1, <3>2, RestLost DEF StreamKept
      <4> QED BY <1>1, <1>2, <4>1, WayKept
    <3> QED BY <1>0, <3>1, <3>2, <3>3 DEF PieceTaken
  <2> QED BY <1>3, <2>1, <2>2, <2>3
<1>6. CASE rest' = Tail(rest) /\ u.reply.kind = "message" /\ u.part # "first" /\ PostMessage(u.reply)
  <2>1. PICK v : v = u.reply
    OBVIOUS
  <2>2. /\ Stream' = Tail(Stream) /\ Stream # <<>> /\ Head(Stream) = u
        /\ Head(Stream) \in Unit
    <3>1. Stream' = Tail(Stream) /\ Stream # <<>> /\ Head(Stream) = u
      BY <1>0, <1>1, <1>4, <1>6, StreamShrinks
    <3>2. Stream \in Seq(Unit)
      BY DEF PairTyped
    <3> QED BY <3>1, <3>2, HeadTailProperties
  <2>3. Head(Stream) \in RealMessage
    BY <1>6, <2>2 DEF RealMessage
  <2>4. v.id \in Nat /\ MessageStart[Head(Stream)] = v.id - 1 /\ MessageEnd[Head(Stream)] = v.id
    BY <1>6, <2>1, <2>2, WayTypes
  <2>5. PICK b \in Int : b = MessageEnd[Head(Stream)] /\ OnTheirWay(b)'
    BY <1>1, <1>2, <2>2, <2>3, WayShrinks
  <2>6. at <= MessageStart[Head(Stream)] /\ MessageEnd[Head(Stream)] <= Len(published)
    BY <1>1, <1>2, <2>2, <2>3, WayShrinks
  <2>7. b = v.id /\ b \in Nat /\ at < b /\ b \in 0 .. Len(published')
    BY <1>1, <1>2, <2>4, <2>5, <2>6
  <2>8. PostMessage(v)
    BY <1>6, <2>1
  <2>9. ShotInv' /\ GivenInOrder(called', strand', b)
    <3>1. at <= b /\ b <= b /\ v.id = b
      BY <1>2, <2>7
    <3> QED BY <1>1, <1>2, <2>7, <2>8, <3>1, PostGiven
  <2> QED BY <2>5, <2>7, <2>9
<1>7. ASSUME TakesOne, NEW v, v.id = 0, PostMessage(v)
      PROVE  /\ ShotInv'
             /\ GivenInOrder(called', strand', at) /\ OnTheirWay(at)'
  <2>1. 0 \in Nat /\ at <= at /\ 0 <= at /\ at <= Len(published)
    BY <1>2
  <2>2. ShotInv' /\ GivenInOrder(called', strand', at)
    BY <1>1, <1>2, <1>7, <2>1, PostGiven
  <2>3. OnTheirWay(at)'
    BY <1>1, <1>2, <1>4, <1>7, <2>1, WayTaken
  <2> QED BY <2>2, <2>3
<1> QED BY <1>0, <1>3, <1>5, <1>6, <1>7 DEF PieceTaken

\* Outside of asyncRead's loop nothing is left to parse: each way out of it has used buf up or
\* given it up (redisclientimpl.cpp:509-545).
THEOREM NothingLeftToParse == Spec => []RestParsed
<1>1. Init => RestParsed
  BY DEF Init, RestParsed
<1>2. RestParsed /\ [Next]_vars => RestParsed'
  BY RestStep
<1> QED BY <1>1, <1>2, PTL DEF Spec

LEMMA MsgInit == Init => MsgInv
<1> SUFFICES ASSUME Init PROVE MsgInv
  OBVIOUS
<1>1. /\ called = <<>> /\ strand = <<>> /\ rest = <<>> /\ readOps = <<>> /\ toClient = <<>> /\ published = <<>>
      /\ msgHandlers = {} /\ singleShotMsgHandlers = {}
  BY DEF Init, EnvInit
<1>2. RestParsed
  BY <1>1 DEF RestParsed
<1>3. GivenInOrder(called, strand, 0) /\ Taken(called, strand) = {}
  BY <1>1, NothingGiven
<1>4. ShotInv
  BY <1>1, <1>3 DEF ShotInv
<1>5. Stream = <<>>
  BY <1>1, EmptySeq, ConcatEqualIffEmpty DEF Stream, ReadData
<1>6. OnTheirWay(0)
  BY <1>5, OrderEmpty DEF OnTheirWay
<1>7. 0 \in 0 .. Len(published)
  BY <1>1
<1> QED BY <1>2, <1>3, <1>4, <1>6, <1>7 DEF MsgInv

LEMMA MsgStep ==
    ASSUME TypeOK, TypeOK', PairTyped, PairTyped', ConnInv, Discipline # "any", MsgInv, [Next]_vars
    PROVE  MsgInv'
<1>1. PICK at \in 0 .. Len(published) : GivenInOrder(called, strand, at) /\ OnTheirWay(at)
  BY DEF MsgInv
<1>2. RestParsed /\ ShotInv /\ RestParsed'
  BY RestStep DEF MsgInv
<1>3. /\ Len(published) \in Nat /\ Len(published) \in Int /\ at \in Nat /\ at \in Int /\ at <= Len(published)
      /\ Len(published') \in Nat /\ Len(published') \in Int
  <2>1. published \in Seq(Publication) /\ published' \in Seq(Publication)
    BY DEF TypeOK, EnvTypeOK
  <2>2. Len(published) \in Nat /\ Len(published') \in Nat
    BY <2>1, LenProperties
  <2> QED BY <2>2
<1> SUFFICES /\ ShotInv'
             /\ \E b \in 0 .. Len(published') : GivenInOrder(called', strand', b) /\ OnTheirWay(b)'
  BY <1>2 DEF MsgInv
<1>4. CASE AppCall
  <2>1. UNCHANGED published /\ StreamKept
    BY <1>2, <1>4, CallStream DEF StreamKept
  <2>2. UNCHANGED called /\ RequestPosted
    BY <1>4, CallsPost
  <2>3. GivenInOrder(called', strand', at) /\ Taken(called', strand') = Taken(called, strand)
    BY <1>1, <1>3, <2>2, RequestGiven
  <2>4. ShotInv'
    BY <1>2, <1>4, <2>3, CallShots
  <2>5. OnTheirWay(at)'
    BY <1>1, <1>3, <2>1, WayKept
  <2>6. at \in 0 .. Len(published')
    BY <2>1
  <2> QED BY <2>3, <2>4, <2>5, <2>6
<1>5. CASE Handler /\ ~ParseChunk
  <2>1. UNCHANGED <<published, msgHandlers, singleShotMsgHandlers, issued>> /\ StreamKept
    BY <1>2, <1>5, HandlerStream DEF StreamKept
  <2>2. GivenInOrder(called', strand', at) /\ Taken(called', strand') \subseteq Taken(called, strand)
    BY <1>1, <1>3, <1>5, HandlerGiven
  <2>3. ShotInv'
    BY <1>2, <2>1, <2>2, FewerShots
  <2>4. OnTheirWay(at)'
    BY <1>1, <1>3, <2>1, WayKept
  <2>5. at \in 0 .. Len(published')
    BY <2>1
  <2> QED BY <2>2, <2>3, <2>4, <2>5
<1>6. CASE ParseChunk
  BY <1>1, <1>2, <1>6, ParseMessages
<1>7. CASE Environment
  <2>1. UNCHANGED <<called, strand, msgHandlers, singleShotMsgHandlers, issued>>
    BY <1>7 DEF Environment, clientVars, queueVars, pubsubVars, historyVars
  <2>2. GivenInOrder(called', strand', at) /\ Taken(called', strand') \subseteq Taken(called, strand)
    BY <1>1, <2>1
  <2>3. ShotInv'
    BY <1>2, <2>1, <2>2, FewerShots
  <2>4. CASE UNCHANGED published /\ (Stream' = Stream \/ Halved(Stream, Stream'))
    <3>1. StreamKept
      BY <2>4 DEF StreamKept
    <3>2. OnTheirWay(at)'
      BY <1>1, <1>3, <2>4, <3>1, WayKept
    <3>3. at \in 0 .. Len(published')
      BY <2>4
    <3> QED BY <2>2, <2>3, <3>2, <3>3
  <2>5. ASSUME UNCHANGED published, NEW u \in Unit, u.reply.kind # "message", Stream' = Append(Stream, u)
        PROVE  OnTheirWay(at)' /\ at \in 0 .. Len(published')
    <3>1. Len(published) <= Len(published') /\ at \in 0 .. Len(published')
      BY <1>3, <2>5
    <3> QED BY <1>1, <1>3, <2>5, <3>1, WayGrows
  <2>6. ASSUME NEW ch \in Channels, NEW u \in Unit,
               published' = Append(published, [chan |-> ch, audience |-> Audience(ch)]),
               u.reply = Message(Len(published'), ch), u.part = "whole", Stream' = Append(Stream, u)
        PROVE  OnTheirWay(at)' /\ at \in 0 .. Len(published')
    <3>1. Len(published') = Len(published) + 1
      <4>1. published \in Seq(Publication) /\ [chan |-> ch, audience |-> Audience(ch)] \in Publication
        BY DEF TypeOK, EnvTypeOK, Publication, Audience
      <4> QED BY <2>6, <4>1, AppendProperties
    <3>2. MessageStart[u] = Len(published') - 1 /\ MessageEnd[u] = Len(published')
      BY <2>6, WayTypes DEF Message
    <3>3. /\ Len(published) <= MessageStart[u] /\ MessageEnd[u] <= Len(published')
          /\ Len(published) <= Len(published') /\ at \in 0 .. Len(published')
      BY <1>3, <3>1, <3>2
    <3> QED BY <1>1, <1>3, <2>6, <3>3, WayGrows
  <2>7. \/ OnTheirWay(at)' /\ at \in 0 .. Len(published')
        \/ UNCHANGED published /\ (Stream' = Stream \/ Halved(Stream, Stream'))
    BY <1>2, <1>7, <2>5, <2>6, EnvironmentStream
  <2> QED BY <2>2, <2>3, <2>4, <2>7
<1>8. CASE UNCHANGED vars
  <2>1. UNCHANGED <<called, strand, msgHandlers, singleShotMsgHandlers, issued, published, rest, readOps, toClient>>
    BY <1>8 DEF vars, envVars, linkVars, opVars, logVars, clientVars, queueVars, pubsubVars, loopVars, historyVars
  <2>2. StreamKept
    BY <2>1, StreamSame DEF StreamKept
  <2>3. OnTheirWay(at)' /\ at \in 0 .. Len(published')
    BY <1>1, <1>3, <2>1, <2>2, WayKept
  <2>4. Taken(called', strand') \subseteq Taken(called, strand) /\ GivenInOrder(called', strand', at)
    BY <1>1, <2>1
  <2> QED BY <1>2, <2>1, <2>3, <2>4, FewerShots
<1> QED BY <1>4, <1>5, <1>6, <1>7, <1>8 DEF Next

\* The messages already given, those posted and those still on their way are in the order in which
\* they were published, and a single-shot handler has had at most one.
THEOREM MessagesKept == ASSUME Discipline # "any" PROVE Spec => []MsgInv
<1>1. TypeOK /\ TypeOK' /\ PairTyped /\ PairTyped' /\ ConnInv /\ MsgInv /\ [Next]_vars => MsgInv'
  BY MsgStep
<1>2. TypeOK => PairTyped
  BY PairTypes
<1> QED BY <1>1, <1>2, MsgInit, ConnKeptThroughout, TypeCorrect, PTL DEF Spec

\* No message handler gets a published message twice or out of order, and a single-shot one is called
\* once at most, although the handlers are posted to the strand one by one, the application may
\* subscribe, unsubscribe and disconnect in between, and bytes read out of step may be taken for
\* messages (redisclientimpl.cpp:276-288).
THEOREM MessagesGivenInOrder == ASSUME Discipline # "any" PROVE Spec => []MessagesInOrder
<1>1. TypeOK /\ MsgInv => MessagesInOrder
  <2> SUFFICES ASSUME TypeOK, MsgInv, NEW i \in DOMAIN called, NEW j \in DOMAIN called,
                      i < j, called[i].to = called[j].to
               PROVE  /\ ~called[i].to.shot
                      /\ 0 \in {called[i].msg, called[j].msg} \/ called[i].msg < called[j].msg
    BY DEF MessagesInOrder
  <2>1. <<called[i], called[j]>> \in CallOrder
    BY DEF MsgInv, GivenInOrder, Chained
  <2>2. called[i] \in Call /\ called[j] \in Call /\ Comes(CalledJob(called[i]), CalledJob(called[j]))
    BY <2>1 DEF CallOrder
  <2> QED BY <2>2, CalledJobIs DEF Comes, NobodyPublished
<1> QED BY <1>1, MessagesKept, TypeCorrect, PTL

-----------------------------------------------------------------------------
(* None is missed.  That needs the parser to keep in step with what        *)
(* arrives, which it does from one connection to the next because connect  *)
(* resets it (redisasyncclient.cpp:33, which the other overload of connect *)
(* leaves out), and that the loop is not left with bytes unparsed, which   *)
(* an errorHandler that throws would do.                                   *)

Resets == Discipline # "any" /\ Transport = "tcp" /\ ~Throws

\* What a piece needs the parser to be inside of, and what it leaves it inside of.
Needs == [u \in Unit |-> IF u.part = "second" THEN u.reply ELSE NoReply]
Opens == [u \in Unit |-> IF u.part = "first" THEN u.reply ELSE NoReply]

InStep == Linked(Stream, Needs, Opens, redisParser, NoReply)

\* The client knows when it has been disconnected: until it connects again its link is closed,
\* and nobody is subscribed; otherwise the parser is in step.
StepInv ==
    /\ state # "Closed" => InStep
    /\ state = "Closed" => link = "closed"
    /\ toClient # <<>> => link \in {"up", "dropped"}
    /\ msgHandlers # {} => state = "Subscribed"

LEMMA NeedsTypes ==
    /\ \A u \in Unit : Needs[u] = IF u.part = "second" THEN u.reply ELSE NoReply
    /\ \A u \in Unit : Opens[u] = IF u.part = "first" THEN u.reply ELSE NoReply
BY DEF Needs, Opens

\* Halving a reply keeps the parser in step.
LEMMA HalvesLinked ==
    ASSUME NEW s \in Seq(Unit), NEW c \in Seq(Unit), Halved(s, c), NEW a, NEW b,
           Linked(s, Needs, Opens, a, b)
    PROVE  Linked(c, Needs, Opens, a, b)
<1>1. PICK k \in DOMAIN s :
         /\ s[k].part = "whole"
         /\ CutAt(s, c, k, [s[k] EXCEPT !.part = "first"], [s[k] EXCEPT !.part = "second"])
  BY DEF Halved
<1> DEFINE first == [s[k] EXCEPT !.part = "first"]
           second == [s[k] EXCEPT !.part = "second"]
<1>2. k \in Nat /\ s[k] \in Unit
  BY <1>1, ElementOfSeq, LenProperties
<1>3. /\ first \in Unit /\ first.reply = s[k].reply /\ first.part = "first"
      /\ second \in Unit /\ second.reply = s[k].reply /\ second.part = "second"
  <2>1. \A x \in Unit, p \in {"first", "second"} :
           /\ [x EXCEPT !.part = p] \in Unit
           /\ [x EXCEPT !.part = p].reply = x.reply /\ [x EXCEPT !.part = p].part = p
    BY DEF Unit
  <2> QED BY <1>2, <2>1
<1>4. CutAt(s, c, k, first, second)
  BY <1>1
<1> HIDE DEF first, second
<1>5. Needs[first] = Needs[s[k]] /\ Opens[first] = Needs[second] /\ Opens[second] = Opens[s[k]]
  BY <1>1, <1>2, <1>3, NeedsTypes
<1> QED BY <1>2, <1>4, <1>5, LinkedCut

\* In step the parser never fails: it is inside of a reply after its first half, and has
\* completed it otherwise.
LEMMA ParsesInStep ==
    ASSUME NEW u \in Unit, Needs[u] = redisParser, NEW out \in Parse(u)
    PROVE  /\ out.parser = Opens[u]
           /\ \/ u.part = "first" /\ out.result = "Incompleted"
              \/ /\ u.part # "first" /\ out.result = "Completed" /\ out.value = u.reply
                 /\ out.left = 0
<1>1. u.part \in {"whole", "first", "second"}
  BY PieceTypes
<1>2. CASE u.part = "first"
  <2>1. redisParser = NoReply /\ Opens[u] = u.reply
    BY <1>2, NeedsTypes
  <2> QED BY <1>2, <2>1 DEF Parse
<1>3. CASE u.part = "whole"
  <2>1. redisParser = NoReply /\ Opens[u] = NoReply
    BY <1>3, NeedsTypes
  <2> QED BY <1>3, <2>1 DEF Parse
<1>4. CASE u.part = "second"
  <2>1. redisParser = u.reply /\ Opens[u] = NoReply
    BY <1>4, NeedsTypes
  <2> QED BY <1>4, <2>1 DEF Parse
<1> QED BY <1>1, <1>2, <1>3, <1>4

LEMMA ParseStepInv ==
    ASSUME TypeOK, PairTyped, StepInv, ParseChunk
    PROVE  /\ StepInv'
           /\ state # "Closed" =>
                 /\ rest' = Tail(rest)
                 /\ \E u : /\ u = Head(rest)
                           /\ \/ u.part = "first"
                              \/ DoProcessMessage(u.reply)
<1>1. UNCHANGED <<state, link, readOps, toClient, msgHandlers>>
  BY DEF ParseChunk, envVars, linkVars, opVars
<1> SUFFICES ASSUME state # "Closed"
             PROVE  /\ InStep' /\ rest' = Tail(rest)
                    /\ \E u : u = Head(rest) /\ (u.part = "first" \/ DoProcessMessage(u.reply))
  BY <1>1 DEF StepInv
<1>2. PICK u \in Unit : u = Head(rest) /\ Stream # <<>> /\ Head(Stream) = u
  BY StreamHead
<1>3. Stream \in Seq(Unit) /\ Linked(Stream, Needs, Opens, redisParser, NoReply)
  BY DEF PairTyped, StepInv, InStep
<1>4. Needs[u] = redisParser /\ Linked(Tail(Stream), Needs, Opens, Opens[u], NoReply)
  BY <1>2, <1>3, LinkedTail
<1>5. PICK out \in Parse(u) :
         /\ redisParser' = out.parser
         /\ CASE out.result = "Completed" -> rest' = Remains(out.left) /\ DoProcessMessage(out.value)
              [] out.result = "Incompleted" ->
                   /\ rest' = Tail(rest)
                   /\ UNCHANGED <<frame, strand, singleShotMsgHandlers, delivered, reported>>
              [] out.result = "Error" ->
                   /\ rest' = <<>> /\ frame' = "none" /\ Report1("parser")
                   /\ UNCHANGED <<strand, singleShotMsgHandlers, delivered>>
  BY <1>2 DEF ParseChunk
<1>6. /\ redisParser' = Opens[u] /\ rest' = Tail(rest)
      /\ u.part = "first" \/ DoProcessMessage(u.reply)
  <2>1. out.parser = Opens[u]
        /\ \/ u.part = "first" /\ out.result = "Incompleted"
           \/ /\ u.part # "first" /\ out.result = "Completed" /\ out.value = u.reply
              /\ out.left = 0
    BY <1>4, ParsesInStep
  <2> QED BY <1>5, <2>1 DEF Remains
<1>7. Stream' = Tail(Stream)
  BY <1>1, <1>6, StreamShrinks DEF ParseChunk
<1>8. InStep'
  BY <1>4, <1>6, <1>7 DEF InStep
<1> QED BY <1>2, <1>6, <1>8

LEMMA StepSame ==
    ASSUME StepInv, Stream' = Stream, UNCHANGED <<redisParser, link, toClient>>,
           msgHandlers' \subseteq msgHandlers,
           state' = state \/ (state = "Connected" /\ state' = "Subscribed")
    PROVE  StepInv'
BY DEF StepInv, InStep

LEMMA ConnectStep ==
    ASSUME Resets, TypeOK, PairTyped, RestParsed, StepInv, Connect
    PROVE  StepInv'
<1>1. /\ frame = "none" /\ readOps = <<>> /\ UNCHANGED <<rest, readOps, toClient, msgHandlers>>
  BY DEF Resets, Connect, MayConnect, Idle, Outside, StartConnect, linkVars, pubsubVars
<1>2. Stream' = Stream
  BY <1>1, StreamSame
<1>3. CASE UNCHANGED <<state, redisParser, linkVars>>
  BY <1>1, <1>2, <1>3, StepSame DEF linkVars
<1>4. CASE /\ state \in {"Unconnected", "Closed"} /\ state' = "Connecting"
           /\ redisParser' = IF state = "Closed" /\ Transport = "tcp" THEN NoReply ELSE redisParser
           /\ StartConnect
  <2>1. msgHandlers = {}
    BY <1>4 DEF StepInv
  <2>2. toClient # <<>> => link' \in {"up", "dropped"}
    BY <1>4 DEF StepInv, StartConnect
  <2>3. InStep'
    <3>1. CASE state = "Unconnected"
      BY <1>2, <1>4, <3>1 DEF StepInv, InStep
    <3>2. CASE state = "Closed"
      <4>1. toClient = <<>> /\ rest = <<>> /\ ReadData = <<>>
        BY <1>1, <3>2 DEF StepInv, RestParsed, ReadData
      <4>2. Stream = <<>>
        BY <4>1, EmptySeq, ConcatEqualIffEmpty DEF Stream
      <4>3. redisParser' = NoReply
        BY <1>4, <3>2 DEF Resets
      <4> QED BY <1>2, <4>2, <4>3, LinkedEmpty DEF InStep
    <3> QED BY <1>4, <3>1, <3>2
  <2> QED BY <1>1, <1>4, <2>1, <2>2, <2>3 DEF StepInv
<1> QED BY <1>3, <1>4 DEF Connect

LEMMA CallStep ==
    ASSUME Resets, TypeOK, PairTyped, RestParsed, StepInv, AppCall
    PROVE  StepInv'
<1>1. CASE Connect
  BY <1>1, ConnectStep
<1>2. CASE Disconnect
  <2>1. state' = "Closed" /\ link' = "closed" /\ toClient' = <<>> /\ msgHandlers' = {}
    BY <1>2 DEF Disconnect, Close, CloseSocket
  <2> QED BY <2>1 DEF StepInv
<1>3. CASE Command \/ Publish
  <2>1. UNCHANGED <<state, redisParser, link, toClient, rest, readOps, msgHandlers>>
    BY <1>3 DEF Command, Publish, Request1, envVars, linkVars, opVars, loopVars, pubsubVars
  <2> QED BY <2>1, StreamSame, StepSame
<1>4. ASSUME NEW ch \in Channels, Subscribe(ch) \/ SingleShotSubscribe(ch)
      PROVE  StepInv'
  <2>1. UNCHANGED <<redisParser, link, toClient, rest, readOps>>
    BY <1>4 DEF Subscribe, SingleShotSubscribe, envVars, linkVars, opVars, loopVars
  <2>2. \/ UNCHANGED <<state, msgHandlers>>
        \/ state \in {"Connected", "Subscribed"} /\ state' = "Subscribed"
    BY <1>4 DEF Subscribe, SingleShotSubscribe, Subscribable
  <2>3. Stream' = Stream
    BY <2>1, StreamSame
  <2> QED BY <2>1, <2>2, <2>3 DEF StepInv, InStep
<1>5. ASSUME NEW h \in held, Unsubscribe(h)
      PROVE  StepInv'
  <2>1. UNCHANGED <<state, redisParser, link, toClient, rest, readOps>> /\ msgHandlers' \subseteq msgHandlers
    BY <1>5 DEF Unsubscribe, Remaining, envVars, linkVars, opVars, loopVars
  <2> QED BY <2>1, StreamSame, StepSame
<1> QED BY <1>1, <1>2, <1>3, <1>4, <1>5 DEF AppCall

\* With an errorHandler that returns, only the parser takes anything from the stream.
LEMMA HandlerStreamSame ==
    ASSUME TypeOK, PairTyped, ConnInv, RestParsed, ~Throws, Handler, ~ParseChunk
    PROVE  Stream' = Stream
<1>1. CASE ErrorHandlerReturns
  <2>1. UNCHANGED <<rest, readOps, toClient>>
    BY <1>1 DEF ErrorHandlerReturns, envVars, linkVars, opVars
  <2> QED BY <2>1, StreamSame
<1>2. CASE ConnectHandlerReturns \/ ReadAgain
  <2>1. UNCHANGED <<rest, toClient>> /\ ProcessMessage /\ frame \in {"connect", "parse"}
    BY <1>2 DEF ConnectHandlerReturns, ReadAgain, linkVars
  <2> QED BY <2>1, ProcessMessageStream
<1>3. CASE AsyncRead
  BY <1>3, AsyncReadStream
<1>4. CASE DoAsyncCommand \/ CallMessageHandler \/ AsyncWrite \/ HandleAsyncConnect \/ HandlerReturns
  <2>1. UNCHANGED <<rest, readOps, toClient>>
    BY <1>4 DEF DoAsyncCommand, CallMessageHandler, AsyncWrite, HandleAsyncConnect, HandlerReturns,
       loopVars, envVars, linkVars, opVars
  <2> QED BY <2>1, StreamSame
<1> QED BY <1>1, <1>2, <1>3, <1>4 DEF Handler, ReadLoop

LEMMA HandlerStep ==
    ASSUME Resets, TypeOK, PairTyped, ConnInv, RestParsed, StepInv, Handler
    PROVE  StepInv'
<1>1. CASE ParseChunk
  BY <1>1, ParseStepInv
<1>2. CASE Handler /\ ~ParseChunk
  <2>1. UNCHANGED <<redisParser, link, toClient, msgHandlers>>
    BY <1>2, HandlerStream DEF Handler, ReadLoop, DoAsyncCommand, CallMessageHandler, AsyncWrite,
       HandleAsyncConnect, ConnectHandlerReturns, AsyncRead, ReadAgain, HandlerReturns, ErrorHandlerReturns,
       loopVars, linkVars, envVars
  <2>2. Stream' = Stream
    BY <1>2, HandlerStreamSame DEF Resets
  <2>3. CASE HandleAsyncConnect
    <3>1. state = "Connecting" /\ state' \in {"Connected", "Unconnected"}
      <4>1. connectOps # <<>>
        BY <2>3, EmptySeq DEF HandleAsyncConnect, TypeOK, EnvTypeOK
      <4> QED BY <2>3, <4>1 DEF HandleAsyncConnect, ConnInv
    <3>2. msgHandlers = {}
      BY <3>1 DEF StepInv
    <3> QED BY <2>1, <2>2, <3>1, <3>2 DEF StepInv, InStep
  <2>4. CASE ~HandleAsyncConnect
    <3>1. UNCHANGED state
      BY <1>2, <2>4 DEF Handler, ReadLoop, DoAsyncCommand, CallMessageHandler, AsyncWrite, ConnectHandlerReturns,
         AsyncRead, ReadAgain, HandlerReturns, ErrorHandlerReturns
    <3> QED BY <2>1, <2>2, <3>1, StepSame
  <2> QED BY <2>3, <2>4
<1> QED BY <1>1, <1>2

LEMMA EnvironmentStep ==
    ASSUME TypeOK, PairTyped, PairTyped', ConnInv, RestParsed, StepInv, Environment
    PROVE  StepInv'
<1>0. UNCHANGED <<state, redisParser, msgHandlers>>
  BY DEF Environment, clientVars, loopVars, pubsubVars
<1>1. state # "Closed" => InStep'
  <2> SUFFICES ASSUME state # "Closed" PROVE InStep'
    OBVIOUS
  <2>1. Linked(Stream, Needs, Opens, redisParser, NoReply) /\ Stream \in Seq(Unit) /\ Stream' \in Seq(Unit)
    BY DEF StepInv, InStep, PairTyped
  <2>2. CASE Stream' = Stream
    BY <1>0, <2>1, <2>2 DEF InStep
  <2>3. CASE Halved(Stream, Stream')
    BY <1>0, <2>1, <2>3, HalvesLinked DEF InStep
  <2>4. ASSUME NEW u \in Unit, u.part = "whole", Stream' = Append(Stream, u)
        PROVE  InStep'
    <3>1. Needs[u] = NoReply /\ Opens[u] = NoReply
      BY <2>4, NeedsTypes
    <3> QED BY <1>0, <2>1, <2>4, <3>1, LinkedAppend DEF InStep
  <2> QED BY <2>2, <2>3, <2>4, EnvironmentStream
<1>2. state # "Closed" \/ UNCHANGED link
  <2>1. CASE ConnectDone
    <3>1. connectOps # <<>>
      BY <2>1, EmptySeq DEF ConnectDone
    <3> QED BY <3>1 DEF ConnInv
  <2>2. CASE ~ConnectDone
    BY <2>2 DEF Environment, WriteSome, WriteFails, LinkDrops, ReadSome, ReadFails, ServerReply,
       ServerPublish, linkVars, StepInv
  <2> QED BY <2>1, <2>2
<1>3. toClient' # <<>> => link' \in {"up", "dropped"}
  <2>1. CASE ConnectDone \/ LinkDrops
    BY <2>1 DEF ConnectDone, LinkDrops, StepInv
  <2>2. CASE WriteSome \/ WriteFails \/ ReadFails
    BY <2>2 DEF WriteSome, WriteFails, ReadFails, linkVars, StepInv
  <2>3. CASE ReadSome \/ ServerReply \/ \E ch \in Channels : ServerPublish(ch, Audience(ch))
    BY <2>3 DEF ReadSome, ServerReply, ServerPublish
  <2> QED BY <2>1, <2>2, <2>3 DEF Environment
<1>4. (state = "Closed" => link' = "closed") /\ (msgHandlers' # {} => state' = "Subscribed")
  BY <1>0, <1>2 DEF StepInv
<1> QED BY <1>0, <1>1, <1>3, <1>4 DEF StepInv

(* A subscription that was there when a message was published, and still   *)
(* is, gets it: it has been called, is among those of a posted job, or the *)
(* message is on its way.                                                  *)

Given(h, m)  == [to |-> h, msg |-> m] \in Range(called)
Owed(js, h, m) == \E j \in MessageJobs(js) : h \in j.to /\ j.msg = m
Coming(m)    == \E u \in Range(Stream) :
                   u.reply = Message(m, published[m].chan) /\ u.part # "first"
Reaches(h, m) == Given(h, m) \/ Owed(strand, h, m) \/ Coming(m)

\* Subscription ids are not used again.
Known ==
    /\ \A h \in msgHandlers : h.id < subscribeSeq
    /\ \A m \in DOMAIN published : \A h \in published[m].audience :
          h.chan = published[m].chan /\ h.id < subscribeSeq

NoneMissed ==
    \A m \in DOMAIN published : \A h \in published[m].audience \cap msgHandlers : Reaches(h, m)

MissInv == RestParsed /\ StepInv /\ Known /\ NoneMissed

LEMMA OwedAppend ==
    ASSUME NEW js \in Seq(Job), NEW e \in Job, NEW h, NEW m, Owed(js, h, m)
    PROVE  Owed(Append(js, e), h, m)
BY MessageJobsAppend DEF Owed

LEMMA OwedTail ==
    ASSUME NEW js \in Seq(Job), js # <<>>, Head(js).run # "msgHandler", NEW h, NEW m, Owed(js, h, m)
    PROVE  Owed(Tail(js), h, m)
BY MessageJobsTail DEF Owed

LEMMA OwedCall ==
    ASSUME NEW js \in Seq(Job), js # <<>>, Head(js).run = "msgHandler", NEW h \in Head(js).to,
           NEW left, CallsFirst(js, h, left), NEW g, NEW m, Owed(js, g, m)
    PROVE  Owed(left, g, m) \/ (g = h /\ m = Head(js).msg)
<1>1. PICK j \in MessageJobs(js) : g \in j.to /\ j.msg = m
  BY DEF Owed
<1>2. Head(js) \in Job /\ Tail(js) \in Seq(Job)
  BY HeadTailProperties
<1>3. CASE Head(js).to = {h}
  <2>1. left = Tail(js)
    BY <1>3 DEF CallsFirst
  <2>2. CASE j \in MessageJobs(Tail(js))
    BY <1>1, <2>1, <2>2 DEF Owed
  <2>3. CASE j = Head(js)
    BY <1>1, <1>3, <2>3
  <2> QED BY <2>2, <2>3, MessageJobsTail
<1>4. CASE Head(js).to # {h}
  <2> DEFINE e == [Head(js) EXCEPT !.to = Head(js).to \ {h}]
  <2>1. e \in Job /\ e.run = "msgHandler" /\ e.to = Head(js).to \ {h} /\ e.msg = Head(js).msg
    <3>1. \A x \in Job : x.run = "msgHandler" =>
             LET y == [x EXCEPT !.to = x.to \ {h}]
             IN  y \in Job /\ y.run = "msgHandler" /\ y.to = x.to \ {h} /\ y.msg = x.msg
      BY DEF Job
    <3> QED BY <1>2, <3>1
  <2>2. left = [js EXCEPT ![1] = e]
    BY <1>4 DEF CallsFirst
  <2> HIDE DEF e
  <2>3. left \in Seq(Job) /\ left # <<>> /\ Head(left) = e /\ Tail(left) = Tail(js)
    BY <2>1, <2>2, FirstReplaced
  <2>4. MessageJobs(left) = MessageJobs(Tail(js)) \cup {e}
    BY <2>1, <2>3, MessageJobsTail
  <2>5. CASE j \in MessageJobs(Tail(js))
    BY <1>1, <2>4, <2>5 DEF Owed
  <2>6. CASE j = Head(js) /\ g # h
    BY <1>1, <2>1, <2>4, <2>6 DEF Owed
  <2>7. CASE j = Head(js) /\ g = h
    BY <1>1, <2>7
  <2> QED BY <2>5, <2>6, <2>7, MessageJobsTail
<1> QED BY <1>3, <1>4

\* What is posted for a message goes behind what was posted before.
LEMMA PostedOwed ==
    ASSUME TypeOK, NEW v, v.id \in Nat, PostMessage(v)
    PROVE  /\ \A h, m : Owed(strand, h, m) => Owed(strand', h, m)
           /\ \A h \in Regular(v.chan) : Owed(strand', h, v.id)
<1>1. strand \in Seq(Job) /\ Regular(v.chan) \in SUBSET Handle /\ singleShotMsgHandlers \in SUBSET Handle
  BY DEF TypeOK, Regular
<1>2. ASSUME NEW js \in Seq(Job), strand' = js \o RegularJobs(v.chan, v.id)
      PROVE  /\ \A h, m : Owed(js, h, m) => Owed(strand', h, m)
             /\ \A h \in Regular(v.chan) : Owed(strand', h, v.id)
  <2>1. CASE Regular(v.chan) = {}
    BY <1>2, <2>1, ConcatEmptySeq DEF RegularJobs
  <2>2. CASE Regular(v.chan) # {}
    <3> DEFINE e == MsgJob(Regular(v.chan), v.id)
    <3>1. e \in Job /\ e.run = "msgHandler" /\ e.msg = v.id /\ e.to = Regular(v.chan)
      BY <1>1, JobTypes DEF MsgJob
    <3>2. strand' = Append(js, e)
      BY <1>2, <2>2, <3>1, AppendIsConcat DEF RegularJobs
    <3> HIDE DEF e
    <3>3. e \in MessageJobs(strand')
      BY <3>1, <3>2, MessageJobsAppend
    <3>4. \A h, m : Owed(js, h, m) => Owed(Append(js, e), h, m)
      BY <3>1, OwedAppend
    <3>5. \A h \in Regular(v.chan) : Owed(strand', h, v.id)
      BY <3>1, <3>3 DEF Owed
    <3> QED BY <3>2, <3>4, <3>5
  <2> QED BY <2>1, <2>2
<1>3. CASE strand' = strand \o RegularJobs(v.chan, v.id)
  BY <1>1, <1>2, <1>3
<1>4. ASSUME NEW it \in singleShotMsgHandlers,
             strand' = strand \o <<MsgJob({it}, v.id)>> \o RegularJobs(v.chan, v.id)
      PROVE  /\ \A h, m : Owed(strand, h, m) => Owed(strand', h, m)
             /\ \A h \in Regular(v.chan) : Owed(strand', h, v.id)
  <2> DEFINE s == MsgJob({it}, v.id)
             js == Append(strand, s)
  <2>1. s \in Job
    BY <1>1, JobTypes DEF MsgJob
  <2>2. js \in Seq(Job) /\ strand \o <<s>> = js
    BY <1>1, <2>1, AppendProperties, AppendIsConcat
  <2>3. strand' = js \o RegularJobs(v.chan, v.id)
    BY <1>4, <2>2
  <2>4. \A h, m : Owed(strand, h, m) => Owed(js, h, m)
    BY <1>1, <2>1, OwedAppend
  <2> HIDE DEF js
  <2> QED BY <1>2, <2>2, <2>3, <2>4
<1> QED BY <1>3, <1>4 DEF PostMessage, RegularJobs

\* What keeps a message from being missed.
LEMMA ReachesKept ==
    ASSUME NEW h, NEW m, Reaches(h, m), published'[m] = published[m],
           Given(h, m) => Given(h, m)',
           Owed(strand, h, m) => Owed(strand', h, m) \/ Given(h, m)',
           Coming(m) => Coming(m)' \/ Owed(strand', h, m)
    PROVE  Reaches(h, m)'
<1>1. Owed(strand', h, m) => Reaches(h, m)'
  BY DEF Reaches
<1> QED BY <1>1 DEF Reaches

LEMMA HandlerMissed ==
    ASSUME TypeOK, PairTyped, ConnInv, MissInv, ~Throws, Handler
    PROVE  NoneMissed'
<1>1. UNCHANGED <<published, msgHandlers>>
  BY DEF Handler, ReadLoop, DoAsyncCommand, CallMessageHandler, AsyncWrite, HandleAsyncConnect,
     ConnectHandlerReturns, AsyncRead, ReadAgain, ParseChunk, HandlerReturns, ErrorHandlerReturns,
     pubsubVars, envVars, logVars
<1> SUFFICES ASSUME NEW m \in DOMAIN published, NEW h \in published[m].audience \cap msgHandlers,
                    Reaches(h, m)
             PROVE  Reaches(h, m)'
  BY <1>1 DEF NoneMissed, MissInv
<1>2. called \in Seq(Call) /\ strand \in Seq(Job)
  BY DEF TypeOK, Call
<1>3. CASE ParseChunk
  <2>1. UNCHANGED called
    BY <1>3 DEF ParseChunk
  <2>2. state = "Subscribed"
    BY DEF MissInv, StepInv
  <2>3. rest' = Tail(rest) /\ rest # <<>> /\ UNCHANGED <<readOps, toClient>>
    BY <1>3, <2>2, ParseStepInv DEF ParseChunk, MissInv, envVars, linkVars, opVars
  <2>4. PICK u : /\ u = Head(rest)
                 /\ u.part = "first" \/ DoProcessMessage(u.reply)
    BY <1>3, <2>2, ParseStepInv DEF MissInv
  <2>5. Stream' = Tail(Stream) /\ Stream # <<>> /\ Head(Stream) = u /\ Stream \in Seq(Unit)
    BY <2>3, <2>4, StreamShrinks DEF PairTyped
  <2>6. Range(Stream) = {u} \cup Range(Stream')
    BY <2>5, RangeTail
  <2>7. u \in Unit /\ u.reply.id \in Nat
    BY <2>5, HeadTailProperties, PieceTypes
  <2>8. PICK v : v = u.reply
    OBVIOUS
  <2>9. Owed(strand, h, m) => Owed(strand', h, m)
    <3>1. PieceTaken(u)
      BY <1>3, <2>4, <2>7, ParsePieces DEF TypeOK
    <3>2. UNCHANGED strand \/ \E x : x.id \in Nat /\ PostMessage(x)
      BY <2>7, <3>1 DEF PieceTaken
    <3> QED BY <2>7, <2>8, <3>2, PostedOwed
  <2>10. Coming(m) => Coming(m)' \/ Owed(strand', h, m)
    <3> SUFFICES ASSUME NEW w \in Range(Stream), w.reply = Message(m, published[m].chan), w.part # "first"
                 PROVE  Coming(m)' \/ Owed(strand', h, m)
      BY DEF Coming
    <3>1. CASE w \in Range(Stream')
      BY <1>1, <3>1 DEF Coming
    <3>2. CASE w = u
      <4>1. v.kind = "message" /\ v.id = m /\ v.chan = published[m].chan /\ DoProcessMessage(v)
        BY <2>4, <2>8, <3>2 DEF Message
      <4>2. PostMessage(v)
        BY <2>2, <4>1 DEF DoProcessMessage
      <4>3. h \in Regular(v.chan)
        BY <4>1 DEF Regular, MissInv, Known
      <4> QED BY <2>7, <2>8, <4>1, <4>2, <4>3, PostedOwed
    <3> QED BY <2>6, <3>1, <3>2
  <2> QED BY <1>1, <2>1, <2>9, <2>10, ReachesKept DEF Given
<1>4. CASE Handler /\ ~ParseChunk
  <2>1. Stream' = Stream
    BY <1>4, HandlerStreamSame DEF MissInv
  <2>2. Coming(m) => Coming(m)'
    BY <1>1, <2>1 DEF Coming
  <2>3. CASE UNCHANGED <<called, strand>>
    BY <1>1, <2>2, <2>3, ReachesKept DEF Given
  <2>4. CASE DoAsyncCommand
    <3>1. strand # <<>> /\ Head(strand).run # "msgHandler" /\ strand' = Tail(strand) /\ UNCHANGED called
      BY <2>4 DEF DoAsyncCommand, historyVars
    <3>2. Owed(strand, h, m) => Owed(Tail(strand), h, m)
      BY <1>2, <3>1, OwedTail
    <3> QED BY <1>1, <2>2, <3>1, <3>2, ReachesKept DEF Given
  <2>5. CASE CallMessageHandler
    <3> DEFINE job == Head(strand)
    <3>1. /\ strand # <<>> /\ Head(strand).run = "msgHandler"
          /\ \E g \in Head(strand).to :
                /\ called' = Append(called, [to |-> g, msg |-> Head(strand).msg])
                /\ CallsFirst(strand, g, strand')
      BY <2>5 DEF CallMessageHandler, CallsFirst
    <3>2. PICK g \in Head(strand).to :
                /\ called' = Append(called, [to |-> g, msg |-> Head(strand).msg])
                /\ CallsFirst(strand, g, strand')
      BY <3>1
    <3>3. [to |-> g, msg |-> Head(strand).msg] \in Call
      <4>1. Head(strand) \in Job
        BY <1>2, <3>1, HeadTailProperties
      <4> QED BY <3>1, <3>2, <4>1, JobTypes DEF Call
    <3>4. Range(called') = Range(called) \cup {[to |-> g, msg |-> Head(strand).msg]}
      BY <1>2, <3>2, <3>3, RangeAppend
    <3>5. PICK left : left = strand'
      OBVIOUS
    <3>6. Owed(strand, h, m) => Owed(left, h, m) \/ (h = g /\ m = Head(strand).msg)
      BY <1>2, <3>1, <3>2, <3>5, OwedCall
    <3>7. Owed(strand, h, m) => Owed(strand', h, m) \/ Given(h, m)'
      BY <3>4, <3>5, <3>6 DEF Given
    <3>8. Given(h, m) => Given(h, m)'
      BY <3>4 DEF Given
    <3> QED BY <1>1, <2>2, <3>7, <3>8, ReachesKept
  <2>6. UNCHANGED <<called, strand>> \/ DoAsyncCommand \/ CallMessageHandler
    BY <1>4 DEF Handler, ReadLoop, AsyncWrite, HandleAsyncConnect, ConnectHandlerReturns, AsyncRead,
       ReadAgain, HandlerReturns, ErrorHandlerReturns, queueVars, historyVars
  <2> QED BY <2>3, <2>4, <2>5, <2>6
<1> QED BY <1>3, <1>4

LEMMA CallMissed ==
    ASSUME TypeOK, PairTyped, MissInv, AppCall
    PROVE  Known' /\ NoneMissed'
<1>0. called \in Seq(Call) /\ strand \in Seq(Job) /\ msgHandlers \in SUBSET Handle /\ subscribeSeq \in Nat
      /\ \A m \in DOMAIN published : published[m].audience \subseteq Handle
  <2>1. published \in Seq(Publication)
    BY DEF TypeOK, EnvTypeOK
  <2>2. \A m \in DOMAIN published : published[m] \in Publication
    BY <2>1, ElementOfSeq
  <2> QED BY <2>2 DEF TypeOK, Call, Publication
<1>1. UNCHANGED <<published, called>> /\ RequestPosted
  <2>1. UNCHANGED published
    BY DEF AppCall, Connect, Disconnect, Command, Publish, Request1, Subscribe, SingleShotSubscribe,
       Unsubscribe, envVars, logVars
  <2> QED BY <2>1, CallsPost
\* A new subscription has an id of its own.
<1>2. /\ subscribeSeq' \in {subscribeSeq, subscribeSeq + 1}
      /\ \A h \in msgHandlers' : \/ h \in msgHandlers
                                 \/ h.id = subscribeSeq /\ subscribeSeq' = subscribeSeq + 1
  <2>1. CASE Connect \/ Disconnect
    BY <2>1 DEF Connect, Disconnect, Close, pubsubVars
  <2>2. CASE Command \/ Publish
    BY <2>2 DEF Command, Publish, Request1, pubsubVars
  <2>3. ASSUME NEW ch \in Channels, Subscribe(ch)
        PROVE  /\ subscribeSeq' \in {subscribeSeq, subscribeSeq + 1}
               /\ \A h \in msgHandlers' : \/ h \in msgHandlers
                                          \/ h.id = subscribeSeq /\ subscribeSeq' = subscribeSeq + 1
    BY <2>3 DEF Subscribe
  <2>4. ASSUME NEW ch \in Channels, SingleShotSubscribe(ch)
        PROVE  UNCHANGED <<msgHandlers, subscribeSeq>>
    BY <2>4 DEF SingleShotSubscribe
  <2>5. ASSUME NEW g \in held, Unsubscribe(g)
        PROVE  msgHandlers' \subseteq msgHandlers /\ UNCHANGED subscribeSeq
    BY <2>5 DEF Unsubscribe, Remaining
  <2> QED BY <2>1, <2>2, <2>3, <2>4, <2>5 DEF AppCall
<1>3. Known'
  <2>1. \A h \in Handle : h.id \in Nat
    BY DEF Handle
  <2>2. ASSUME NEW m \in DOMAIN published, NEW h \in published[m].audience
        PROVE  h.chan = published[m].chan /\ h.id < subscribeSeq'
    <3>1. h.chan = published[m].chan /\ h.id < subscribeSeq /\ h.id \in Nat
      BY <1>0, <2>1 DEF MissInv, Known
    <3> QED BY <1>0, <1>2, <3>1
  <2>3. ASSUME NEW h \in msgHandlers'
        PROVE  h.id < subscribeSeq'
    <3>1. CASE h \in msgHandlers
      <4>1. h.id < subscribeSeq /\ h.id \in Nat
        BY <1>0, <2>1, <3>1 DEF MissInv, Known
      <4> QED BY <1>0, <1>2, <4>1
    <3>2. CASE h.id = subscribeSeq /\ subscribeSeq' = subscribeSeq + 1
      BY <1>0, <3>2
    <3> QED BY <1>2, <3>1, <3>2
  <2> QED BY <1>1, <2>2, <2>3 DEF Known
<1>4. NoneMissed'
  <2> SUFFICES ASSUME NEW m \in DOMAIN published, NEW h \in published[m].audience, h \in msgHandlers'
               PROVE  Reaches(h, m)'
    BY <1>1 DEF NoneMissed
  <2>1. h \in msgHandlers
    <3>1. h.id < subscribeSeq
      BY DEF MissInv, Known
    <3>2. h.id # subscribeSeq
      BY <1>0, <3>1
    <3> QED BY <1>2, <3>2
  <2>2. Reaches(h, m)
    BY <2>1 DEF MissInv, NoneMissed
  <2>3. Stream' = Stream
    <3>1. CASE Disconnect
      BY <3>1 DEF Disconnect, Close
    <3>2. CASE ~Disconnect
      <4>1. UNCHANGED <<rest, readOps, toClient>>
        BY <3>2 DEF AppCall, Connect, Command, Publish, Request1, Subscribe, SingleShotSubscribe,
           Unsubscribe, StartConnect, envVars, linkVars, opVars, loopVars
      <4> QED BY <4>1, StreamSame
    <3> QED BY <3>1, <3>2
  <2>4. Coming(m) => Coming(m)'
    BY <1>1, <2>3 DEF Coming
  <2>5. Owed(strand, h, m) => Owed(strand', h, m)
    BY <1>0, <1>1, OwedAppend DEF RequestPosted
  <2> QED BY <1>1, <2>2, <2>4, <2>5, ReachesKept DEF Given
<1> QED BY <1>3, <1>4

LEMMA EnvironmentMissed ==
    ASSUME TypeOK, PairTyped, PairTyped', ConnInv, MissInv, Environment
    PROVE  Known' /\ NoneMissed'
<1>0. UNCHANGED <<called, strand, msgHandlers, subscribeSeq>>
  BY DEF Environment, clientVars, queueVars, pubsubVars, historyVars
<1>1. Stream \in Seq(Unit) /\ Stream' \in Seq(Unit) /\ RestParsed
  BY DEF PairTyped, MissInv
\* Every message on its way stays so, even if only its end does.
<1>2. ASSUME NEW w \in Range(Stream), w.part # "first",
             \/ Stream' = Stream \/ Halved(Stream, Stream')
             \/ \E u \in Unit : Stream' = Append(Stream, u)
      PROVE  \E x \in Range(Stream') : x.reply = w.reply /\ x.part # "first"
  <2>1. CASE Stream' = Stream
    BY <1>2, <2>1
  <2>2. CASE \E u \in Unit : Stream' = Append(Stream, u)
    BY <1>1, <1>2, <2>2, RangeAppend
  <2>3. CASE Halved(Stream, Stream')
    <3>1. PICK k \in DOMAIN Stream :
             CutAt(Stream, Stream', k, [Stream[k] EXCEPT !.part = "first"], [Stream[k] EXCEPT !.part = "second"])
      BY <2>3 DEF Halved
    <3>2. PICK z, second : z = Stream[k] /\ second = [Stream[k] EXCEPT !.part = "second"]
      OBVIOUS
    <3>3. z \in Unit /\ k \in Nat
      BY <1>1, <3>2, ElementOfSeq, LenProperties
    <3>4. second.reply = z.reply /\ second.part = "second"
      BY <3>2, <3>3 DEF Unit
    <3>5. second \in Range(Stream') /\ \A x \in Range(Stream) : x = z \/ x \in Range(Stream')
      BY <1>1, <3>1, <3>2, <3>3, CutRange
    <3> QED BY <1>2, <3>4, <3>5
  <2> QED BY <1>2, <2>1, <2>2, <2>3
<1>3. ASSUME NEW m, NEW h, Reaches(h, m), published'[m] = published[m],
             \/ Stream' = Stream \/ Halved(Stream, Stream')
             \/ \E u \in Unit : Stream' = Append(Stream, u)
      PROVE  Reaches(h, m)'
  <2>1. Coming(m) => Coming(m)'
    BY <1>2, <1>3 DEF Coming
  <2> QED BY <1>0, <1>3, <2>1, ReachesKept DEF Given
<1>4. CASE /\ UNCHANGED published
           /\ \/ Stream' = Stream \/ Halved(Stream, Stream')
              \/ \E u \in Unit : Stream' = Append(Stream, u)
  BY <1>0, <1>3, <1>4 DEF MissInv, Known, NoneMissed
<1>5. ASSUME NEW ch \in Channels, NEW u \in Unit,
             published' = Append(published, [chan |-> ch, audience |-> Audience(ch)]),
             u.reply = Message(Len(published'), ch), u.part = "whole", Stream' = Append(Stream, u)
      PROVE  Known' /\ NoneMissed'
  <2> DEFINE p == [chan |-> ch, audience |-> Audience(ch)]
  <2>0. PICK n : n = Len(published)
    OBVIOUS
  <2>1. published \in Seq(Publication) /\ p \in Publication
    BY DEF TypeOK, EnvTypeOK, Publication, Audience
  <2>2. /\ Len(published') = n + 1 /\ published'[n + 1] = p /\ n \in Nat
        /\ DOMAIN published = 1 .. n /\ DOMAIN published' = 1 .. n + 1
        /\ \A m \in 1 .. n : published'[m] = published[m]
    BY <1>5, <2>0, <2>1, AppendProperties, LenProperties
  <2>3. \A m \in DOMAIN published' : m \in DOMAIN published \/ m = n + 1
    BY <2>2
  <2>4. \A h \in p.audience : h \in msgHandlers /\ h.chan = p.chan
    BY DEF Audience
  <2> HIDE DEF p
  <2>5. Known'
    BY <1>0, <2>2, <2>3, <2>4 DEF Known, MissInv
  <2>6. \A h : Reaches(h, n + 1)'
    <3>1. Coming(n + 1)'
      <4>1. u \in Range(Stream')
        BY <1>1, <1>5, RangeAppend
      <4>2. u.reply = Message(n + 1, published'[n + 1].chan)
        BY <1>5, <2>2 DEF p
      <4> QED BY <1>5, <4>1, <4>2 DEF Coming
    <3> QED BY <3>1 DEF Reaches
  <2>7. NoneMissed'
    <3> SUFFICES ASSUME NEW m \in DOMAIN published', NEW h \in published'[m].audience, h \in msgHandlers
                 PROVE  Reaches(h, m)'
      BY <1>0 DEF NoneMissed
    <3>1. CASE m \in DOMAIN published
      <4>1. Reaches(h, m) /\ published'[m] = published[m]
        BY <2>2, <3>1 DEF MissInv, NoneMissed
      <4> QED BY <1>3, <1>5, <4>1
    <3>2. CASE m = n + 1
      BY <2>6, <3>2
    <3> QED BY <2>3, <3>1, <3>2
  <2> QED BY <2>5, <2>7
<1> QED BY <1>1, <1>4, <1>5, EnvironmentStream

LEMMA MissInit == Init => MissInv
<1> SUFFICES ASSUME Init PROVE MissInv
  OBVIOUS
<1>1. /\ called = <<>> /\ strand = <<>> /\ rest = <<>> /\ readOps = <<>> /\ toClient = <<>> /\ published = <<>>
      /\ msgHandlers = {} /\ state = "Unconnected" /\ redisParser = NoReply
  BY DEF Init, EnvInit
<1>2. Stream = <<>>
  BY <1>1, EmptySeq, ConcatEqualIffEmpty DEF Stream, ReadData
<1>3. StepInv
  BY <1>1, <1>2, LinkedEmpty DEF StepInv, InStep
<1>4. Known /\ NoneMissed
  BY <1>1, EmptySeq DEF Known, NoneMissed
<1> QED BY <1>1, <1>3, <1>4 DEF MissInv, RestParsed

LEMMA MissStep ==
    ASSUME Resets, TypeOK, PairTyped, PairTyped', ConnInv, MissInv, [Next]_vars
    PROVE  MissInv'
<1>1. RestParsed /\ StepInv /\ RestParsed'
  BY RestStep DEF MissInv
<1>2. CASE AppCall
  BY <1>1, <1>2, CallStep, CallMissed DEF MissInv
<1>3. CASE Handler
  <2>1. UNCHANGED <<published, msgHandlers, subscribeSeq>>
    BY <1>3 DEF Handler, ReadLoop, DoAsyncCommand, CallMessageHandler, AsyncWrite, HandleAsyncConnect,
       ConnectHandlerReturns, AsyncRead, ReadAgain, ParseChunk, HandlerReturns, ErrorHandlerReturns,
       pubsubVars, envVars, logVars
  <2>2. Known'
    BY <2>1 DEF Known, MissInv
  <2> QED BY <1>1, <1>3, <2>2, HandlerStep, HandlerMissed DEF MissInv, Resets
<1>4. CASE Environment
  BY <1>1, <1>4, EnvironmentStep, EnvironmentMissed DEF MissInv
<1>5. CASE UNCHANGED vars
  <2>1. UNCHANGED <<state, link, redisParser, called, strand, msgHandlers, subscribeSeq, published,
                    rest, readOps, toClient>>
    BY <1>5 DEF vars, envVars, linkVars, opVars, logVars, clientVars, queueVars, pubsubVars, loopVars, historyVars
  <2>2. Stream' = Stream
    BY <2>1, StreamSame
  <2>3. StepInv' /\ Known'
    BY <1>1, <2>1, <2>2 DEF StepInv, InStep, MissInv, Known
  <2>4. \A m, h : Reaches(h, m) => Reaches(h, m)'
    BY <2>1, <2>2, ReachesKept DEF Given, Coming
  <2>5. NoneMissed'
    BY <2>1, <2>4 DEF MissInv, NoneMissed
  <2> QED BY <1>1, <2>3, <2>5 DEF MissInv
<1> QED BY <1>2, <1>3, <1>4, <1>5 DEF Next

\* Once all is quiet, a message has been given to every subscription that was there when it was
\* published and still is: none is lost between the reply that asyncRead parses
\* (redisclientimpl.cpp:509-545) and the handlers it posts (:276-288), whatever was subscribed,
\* unsubscribed, dropped or reconnected in between, provided that connect resets the parser
\* (redisasyncclient.cpp:33) and that errorHandler returns.
THEOREM NoneIsMissed == ASSUME Resets PROVE Spec => []NoMissedMessage
<1>1. TypeOK /\ TypeOK' /\ PairTyped /\ PairTyped' /\ ConnInv /\ MissInv /\ [Next]_vars => MissInv'
  BY MissStep
<1>2. TypeOK => PairTyped
  BY PairTypes
<1>3. TypeOK /\ PairTyped /\ MissInv => NoMissedMessage
  <2> SUFFICES ASSUME TypeOK, PairTyped, MissInv, Quiet, NEW m \in DOMAIN published,
                      NEW h \in published[m].audience \cap msgHandlers
               PROVE  \E i \in DOMAIN called : called[i] = [to |-> h, msg |-> m]
    BY DEF NoMissedMessage
  <2>1. frame = "none" /\ strand = <<>> /\ toClient = <<>>
    BY DEF Quiet
  <2>2. rest = <<>>
    BY <2>1 DEF MissInv, RestParsed
  <2>3. ReadData = <<>>
    <3>1. readOps # <<>> => 1 \in DOMAIN readOps
      BY EmptySeq, LenProperties DEF TypeOK, EnvTypeOK
    <3> QED BY <3>1 DEF Quiet, ReadData
  <2>4. Stream = <<>>
    BY <2>1, <2>2, <2>3, EmptySeq, ConcatEqualIffEmpty DEF Stream
  <2>5. ~Coming(m) /\ ~Owed(strand, h, m)
    BY <2>1, <2>4, EmptySeq DEF Coming, Owed, MessageJobs, Range
  <2>6. [to |-> h, msg |-> m] \in Range(called)
    BY <2>5 DEF MissInv, NoneMissed, Reaches, Given
  <2> QED BY <2>6 DEF Range
<1>4. Discipline # "any"
  BY DEF Resets
<1> QED BY <1>1, <1>2, <1>3, <1>4, MissInit, ConnKeptThroughout, TypeCorrect, PTL DEF Spec
=============================================================================
