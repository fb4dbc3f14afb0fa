---------------------------- MODULE AsyncClient ----------------------------
(***************************************************************************)
(* RedisAsyncClient and the asynchronous half of RedisClientImpl: connect, *)
(* disconnect, command, publish, subscribe, singleShotSubscribe and        *)
(* unsubscribe as the application calls them, and the four handlers that   *)
(* asio runs (doAsyncCommand, asyncWrite, handleAsyncConnect, asyncRead).  *)
(*                                                                         *)
(* A handler runs to completion except where it calls the application      *)
(* back: there the application may make any call of the client before the  *)
(* handler goes on.  `frame` says which callback the client is waiting for.*)
(***************************************************************************)
EXTENDS AsioEnv, FiniteSets

CONSTANTS
    Calls,      \* the calls the application makes
    Transport,  \* "tcp" or "local": which overload of connect it calls
    Throws,     \* does the installed errorHandler throw (the default one does)?
    Discipline, \* when it disconnects and connects: "any", "idle" or "settled" (below)
    MaxCalls,   \* bound: requests made in a behaviour
    MaxTurns,   \* bound: calls of connect and disconnect in a behaviour
    MaxHandles, \* subscriptions the application holds on a channel at a time
    MaxExtra    \* bound: values that a reply read out of step completes besides its last

AllCalls == {"connect", "disconnect", "command", "publish",
             "subscribe", "singleShotSubscribe", "unsubscribe"}

ASSUME ClientAssumption ==
    /\ Calls \subseteq AllCalls
    /\ Transport \in {"tcp", "local"}
    /\ Throws \in BOOLEAN /\ Discipline \in {"any", "idle", "settled"}
    /\ MaxCalls \in Nat /\ MaxTurns \in Nat /\ MaxHandles \in Nat /\ MaxExtra \in Nat

VARIABLES
    state,                  \* RedisClientImpl::state
    handlers,               \* reply handlers, by the id of the request they came with
    dataQueued,             \* requests waiting for the write in progress
    dataWrited,             \* requests whose buffers the write in progress uses
    strand,                 \* what was posted to the strand and has not run
    redisParser,            \* NoReply: between replies; else the reply it is inside of
    msgHandlers,            \* subscriptions
    singleShotMsgHandlers,  \* single-shot subscriptions
    subscribeSeq,           \* the next subscription id
    frame,                  \* the part of a handler that remains to be run
    rest,                   \* what asyncRead has not parsed yet of the buffer
    issued,                 \* history: requests made
    turns,                  \* history: calls of connect and disconnect
    held,                   \* the handles the application holds
    delivered,              \* history: <<handler, reply>> calls of reply handlers
    called,                 \* history: <<handle, message>> calls of message handlers
    reported,               \* history: what errorHandler was called for
    told                    \* history: the state when a connect last reported success

queueVars   == <<handlers, dataQueued, dataWrited, strand>>
pubsubVars  == <<msgHandlers, singleShotMsgHandlers, subscribeSeq, held>>
loopVars    == <<redisParser, frame, rest>>
historyVars == <<issued, turns, delivered, called, reported, told>>
clientVars  == <<state, queueVars, pubsubVars, loopVars, historyVars>>
vars        == <<envVars, clientVars>>

State  == {"Unconnected", "Connecting", "Connected", "Subscribed", "Closed"}
Frame  == {"none", "connect", "parse", "handler", "error", "undefined"}
Job    == [run : {"doAsyncCommand"}, req : Request]
            \cup [run : {"msgHandler"}, to : SUBSET Handle, msg : Nat]
Report == {"state", "io", "parser", "refused"}

\* Every variable keeps its type; in particular a subscription's id is never negative
\* and the strand holds nothing but the two kinds of work posted to it.
TypeOK ==
    /\ EnvTypeOK
    /\ state \in State
    /\ handlers \in Seq(Nat)
    /\ dataQueued \in Seq(Request) /\ dataWrited \in Seq(Request)
    /\ strand \in Seq(Job)
    /\ redisParser \in Reply
    /\ msgHandlers \in SUBSET Handle /\ singleShotMsgHandlers \in SUBSET Handle
    /\ subscribeSeq \in Nat
    /\ frame \in Frame /\ rest \in Seq(Unit)
    /\ issued \in Nat /\ turns \in Nat
    /\ held \in SUBSET Handle
    /\ delivered \in Seq([handler : Nat, reply : Reply])
    /\ called \in Seq([to : Handle, msg : Nat])
    /\ reported \in SUBSET Report
    /\ told \in State \cup {"none"}

Init ==
    /\ EnvInit
    /\ state = "Unconnected"
    /\ handlers = <<>> /\ dataQueued = <<>> /\ dataWrited = <<>> /\ strand = <<>>
    /\ redisParser = NoReply /\ frame = "none" /\ rest = <<>>
    /\ msgHandlers = {} /\ singleShotMsgHandlers = {} /\ subscribeSeq = 0 /\ held = {}
    /\ issued = 0 /\ turns = 0
    /\ delivered = <<>> /\ called = <<>> /\ reported = {} /\ told = "none"

Report1(what) == reported' = reported \cup {what}

-----------------------------------------------------------------------------
(* Calls of the application: from outside any callback, or from inside one *)
(* of the client's own.                                                    *)

AppMayCall(call) == call \in Calls /\ frame \in {"none", "connect", "handler", "error"}

\* The disciplines an application may keep: any moment will do; or it waits for a
\* moment outside the callbacks when nothing is on the strand (to disconnect) and
\* every completion has run (to connect); or besides that it waits, to disconnect,
\* until every request has been answered.
Outside == frame = "none" /\ strand = <<>> /\ connectOps = <<>>
Idle    == Outside /\ readOps = <<>> /\ writeOps = <<>>
Settled == Outside /\ handlers = <<>> /\ writeOps = <<>>

MayConnect    == Discipline = "any" \/ Idle
MayDisconnect == \/ Discipline = "any"
                 \/ Discipline = "idle" /\ Outside
                 \/ Discipline = "settled" /\ Settled

Connect ==
    /\ AppMayCall("connect") /\ turns < MaxTurns /\ MayConnect
    /\ turns' = turns + 1
    /\ \/ /\ state \in {"Unconnected", "Closed"}
          /\ redisParser' = IF state = "Closed" /\ Transport = "tcp" THEN NoReply
                                                                     ELSE redisParser
          /\ state' = "Connecting"
          /\ StartConnect
          /\ UNCHANGED told
       \/ /\ state \notin {"Unconnected", "Closed"}
          /\ told' = state
          /\ UNCHANGED <<state, redisParser, linkVars, connectOps>>
    /\ UNCHANGED <<queueVars, pubsubVars, frame, rest, issued, delivered, called, reported,
                   readOps, writeOps, logVars>>

\* RedisClientImpl::close.  The queues of the writer, the strand and the
\* single-shot handlers stay as they are.
CloseKeepsState ==
    msgHandlers' = {} /\ handlers' = <<>> /\ CloseSocket /\ UNCHANGED state

Close ==
    /\ msgHandlers' = {} /\ handlers' = <<>>
    /\ CloseSocket
    /\ state' = "Closed"

\* disconnect, and the destructor.
Disconnect ==
    /\ AppMayCall("disconnect") /\ turns < MaxTurns /\ MayDisconnect
    /\ turns' = turns + 1
    /\ Close
    /\ UNCHANGED <<dataQueued, dataWrited, strand, singleShotMsgHandlers, subscribeSeq, held,
                   loopVars, issued, delivered, called, reported, told, logVars>>

\* strand.post(doAsyncCommand(makeCommand(...), handler))
Post(kind, chan) ==
    /\ issued < MaxCalls
    /\ issued' = issued + 1
    /\ strand' = Append(strand, [run |-> "doAsyncCommand",
                                 req |-> [kind |-> kind, id |-> issued', chan |-> chan]])

\* command and publish: accepted in state Connected only.
Request1(call) ==
    /\ AppMayCall(call)
    /\ \/ /\ state = "Connected"
          /\ Post("command", NoChannel)
          /\ UNCHANGED reported
       \/ /\ state # "Connected"
          /\ Report1("state")
          /\ UNCHANGED <<issued, strand>>
    /\ UNCHANGED <<state, handlers, dataQueued, dataWrited, pubsubVars, loopVars, turns,
                   delivered, called, told, envVars>>

Command == Request1("command")
Publish == Request1("publish")

Subscribable == state \in {"Connected", "Subscribed"}

\* A refused subscribe returns 0, which is also the id of the first subscription.
LastId == subscribeSeq - 1
RefusedId == 0

Subscribe(ch) ==
    /\ AppMayCall("subscribe")
    /\ Cardinality({h \in held : h.chan = ch}) < MaxHandles
    /\ \/ /\ Subscribable
          /\ Post("subscribe", ch)
          /\ LET h == [id |-> subscribeSeq, chan |-> ch, shot |-> FALSE]
             IN  msgHandlers' = msgHandlers \cup {h} /\ held' = held \cup {h}
          /\ subscribeSeq' = subscribeSeq + 1
          /\ state' = "Subscribed"
          /\ UNCHANGED reported
       \/ /\ ~Subscribable
          /\ Report1("state")
          /\ held' = held \cup {[id |-> RefusedId, chan |-> ch, shot |-> FALSE]}
          /\ UNCHANGED <<state, issued, strand, msgHandlers, subscribeSeq>>
    /\ UNCHANGED <<handlers, dataQueued, dataWrited, singleShotMsgHandlers, loopVars, turns,
                   delivered, called, told, envVars>>

SingleShotSubscribe(ch) ==
    /\ AppMayCall("singleShotSubscribe")
    /\ \/ /\ Subscribable
          /\ Post("subscribe", ch)
          /\ singleShotMsgHandlers' = singleShotMsgHandlers
                                        \cup {[id |-> issued', chan |-> ch, shot |-> TRUE]}
          /\ state' = "Subscribed"
          /\ UNCHANGED reported
       \/ /\ ~Subscribable
          /\ Report1("state")
          /\ UNCHANGED <<state, issued, strand, singleShotMsgHandlers>>
    /\ UNCHANGED <<handlers, dataQueued, dataWrited, msgHandlers, subscribeSeq, held, loopVars,
                   turns, delivered, called, told, envVars>>

\* The loop over msgHandlers.equal_range: erase what has the handle's id.
AllRemain(h)  == msgHandlers
NoneRemain(h) == {}
Remaining(h)  == {m \in msgHandlers : m.chan # h.chan \/ m.id # h.id}

Unsubscribe(h) ==
    /\ AppMayCall("unsubscribe")
    /\ held' = held \ {h}
    /\ \/ /\ Subscribable
          /\ msgHandlers' = Remaining(h)
          /\ Post("unsubscribe", h.chan)
          /\ UNCHANGED reported
       \/ /\ ~Subscribable
          /\ Report1("state")
          /\ UNCHANGED <<msgHandlers, issued, strand>>
    /\ UNCHANGED <<state, handlers, dataQueued, dataWrited, singleShotMsgHandlers, subscribeSeq,
                   loopVars, turns, delivered, called, told, envVars>>

-----------------------------------------------------------------------------
(* Handlers run by asio.  One runs at a time (frame = "none" before it).   *)

\* asyncWrite without an error: everything queued becomes the next write.
TransmitFirst(queue, ops) ==
    /\ dataWrited' = queue /\ dataQueued' = <<>>
    /\ writeOps' = IF queue = <<>> THEN ops ELSE Append(ops, StartedWrite(<<queue[1]>>))

TransmitAgain(queue, ops) ==
    /\ dataWrited' = dataWrited \o queue /\ dataQueued' = <<>>
    /\ writeOps' = IF queue = <<>> THEN ops ELSE Append(ops, StartedWrite(dataWrited'))

Transmit(queue, ops) ==
    /\ dataWrited' = queue
    /\ dataQueued' = <<>>
    /\ writeOps' = IF queue = <<>> THEN ops ELSE Append(ops, StartedWrite(queue))

WriterAlwaysIdle == TRUE
WriterIdle == dataWrited = <<>>

DoAsyncCommand ==
    /\ frame = "none" /\ strand # <<>> /\ Head(strand).run = "doAsyncCommand"
    /\ LET req == Head(strand).req
       IN  /\ handlers' = Append(handlers, req.id)
           /\ IF WriterIdle
              THEN Transmit(Append(dataQueued, req), writeOps)
              ELSE /\ dataQueued' = Append(dataQueued, req)
                   /\ UNCHANGED <<dataWrited, writeOps>>
    /\ strand' = Tail(strand)
    /\ UNCHANGED <<state, pubsubVars, loopVars, historyVars,
                   linkVars, connectOps, readOps, logVars>>

\* The message handlers posted for one message, oldest subscription first.
CallMessageHandler ==
    /\ frame = "none" /\ strand # <<>> /\ Head(strand).run = "msgHandler"
    /\ LET job == Head(strand)
       IN  \E h \in job.to :
             /\ \A g \in job.to : h.id <= g.id
             /\ called' = Append(called, [to |-> h, msg |-> job.msg])
             /\ strand' = IF job.to = {h} THEN Tail(strand)
                          ELSE [strand EXCEPT ![1] = [job EXCEPT !.to = job.to \ {h}]]
    /\ UNCHANGED <<state, handlers, dataQueued, dataWrited, pubsubVars, loopVars, issued, turns,
                   delivered, reported, told, envVars>>

AsyncWrite ==
    /\ frame = "none"
    /\ \E i \in DOMAIN writeOps :
          \/ /\ writeOps[i].st = "ok"
             /\ Transmit(dataQueued, RemoveAt(writeOps, i))
             /\ UNCHANGED reported
          \/ /\ writeOps[i].st = "error"
             /\ dataWrited' = <<>> /\ writeOps' = RemoveAt(writeOps, i)
             /\ Report1("io")
             /\ UNCHANGED dataQueued
    /\ UNCHANGED <<state, handlers, strand, pubsubVars, loopVars, issued, turns, delivered,
                   called, told, linkVars, connectOps, readOps, logVars>>

\* The connect handler is called between the two halves of handleAsyncConnect.
HandleAsyncConnect ==
    /\ frame = "none"
    /\ \E i \in DOMAIN connectOps :
          /\ connectOps[i] # "pending"
          /\ connectOps' = RemoveAt(connectOps, i)
          /\ IF connectOps[i] = "ok"
             THEN state' = "Connected" /\ told' = "Connected" /\ frame' = "connect"
             ELSE state' = "Unconnected" /\ UNCHANGED <<told, frame>>
    /\ UNCHANGED <<queueVars, pubsubVars, redisParser, rest, issued, turns, delivered, called,
                   reported, linkVars, readOps, writeOps, logVars>>

\* processMessage: ask for more bytes, into buf.
ProcessMessage ==
    /\ readOps' = Append(readOps, StartedRead)
    /\ frame' = "none"

ConnectHandlerReturns ==
    /\ frame = "connect"
    /\ ProcessMessage
    /\ UNCHANGED <<state, queueVars, pubsubVars, redisParser, rest, historyVars,
                   linkVars, connectOps, writeOps, logVars>>

\* An aborted read is passed over in silence, any other failure is reported.
ReadNeverFails(st) == FALSE
ReadFailed(st) == st = "error"

\* asyncRead up to its loop.
AsyncRead ==
    /\ frame = "none"
    /\ \E i \in DOMAIN readOps :
          /\ readOps[i].st # "pending"
          /\ readOps' = RemoveAt(readOps, i)
          /\ IF readOps[i].st = "ok" THEN frame' = "parse" /\ rest' = readOps[i].data
                                     ELSE UNCHANGED <<frame, rest>>
          /\ IF ReadFailed(readOps[i].st) THEN Report1("io") ELSE UNCHANGED reported
    /\ UNCHANGED <<state, queueVars, pubsubVars, redisParser, issued, turns, delivered, called,
                   told, linkVars, connectOps, writeOps, logVars>>

\* The buffer is used up: the end of asyncRead.
ReadAgain ==
    /\ frame = "parse" /\ rest = <<>>
    /\ ProcessMessage
    /\ UNCHANGED <<state, queueVars, pubsubVars, redisParser, rest, historyVars,
                   linkVars, connectOps, writeOps, logVars>>

-----------------------------------------------------------------------------
(* The loop of asyncRead, one reply unit at a time.                        *)

\* What bytes that do not continue what the parser is inside of may be taken for: any value.
\* Where values are told apart by what they look like, also a confirmation, or a message for
\* any channel, which nobody asked for or published (id 0).
Garbled ==
    {Garbage} \cup IF state = "Subscribed"
                   THEN {[kind |-> "subscribe", id |-> 0, chan |-> NoChannel]}
                            \cup {[kind |-> "message", id |-> 0, chan |-> ch] : ch \in Chan}
                   ELSE {}

\* Such bytes may complete one value after another before they are used up.  What is left
\* of them after one, good for at most n more, is in step with nothing.
Leftover(n) == [reply |-> [Garbage EXCEPT !.id = n], part |-> "second"]
Spare(unit) == IF unit.reply.kind = "garbage" THEN unit.reply.id - 1 ELSE MaxExtra

\* Or they are the inside of a longer reply, or an error, which may leave the parser inside
\* of an array.
OutOfStep(unit) ==
    {[result |-> "Completed",   value |-> v,       parser |-> NoReply, left |-> n] :
        v \in Garbled, n \in {0} \cup (IF Spare(unit) > 0 THEN {Spare(unit)} ELSE {})}
    \cup
    {[result |-> "Incompleted", value |-> NoReply, parser |-> Garbage, left |-> 0],
     [result |-> "Error",       value |-> NoReply, parser |-> NoReply, left |-> 0],
     [result |-> "Error",       value |-> NoReply, parser |-> Garbage, left |-> 0]}

\* RedisParser::parse on a unit, as far as the client can tell its outcomes apart.
Parse(unit) ==
    IF redisParser = NoReply /\ unit.part = "first"
    THEN {[result |-> "Incompleted", value |-> NoReply, parser |-> unit.reply, left |-> 0]}
    ELSE IF \/ redisParser = NoReply /\ unit.part = "whole"
            \/ redisParser = unit.reply /\ unit.part = "second"
    THEN {[result |-> "Completed", value |-> unit.reply, parser |-> NoReply, left |-> 0]}
    ELSE OutOfStep(unit)

MsgJob(to, msg) == [run |-> "msgHandler", to |-> to, msg |-> msg]

\* msgHandlers.equal_range, and the single-shot handlers left after erase(it).
FirstRegular(ch) == {h \in msgHandlers : h.chan = ch
                        /\ \A g \in msgHandlers : g.chan = ch => h.id <= g.id}
SingleShotsWith(it) == singleShotMsgHandlers
Regular(ch) == {h \in msgHandlers : h.chan = ch}
SingleShotsWithout(it) == singleShotMsgHandlers \ {it}

\* A published message, in state Subscribed: handlers are posted, not called.
\* multimap::find gives one single-shot handler of the channel.
PostMessage(v) ==
    LET single  == {h \in singleShotMsgHandlers : h.chan = v.chan}
        jobs    == IF Regular(v.chan) = {} THEN <<>>
                   ELSE <<MsgJob(Regular(v.chan), v.id)>>
    IN  /\ \/ /\ single = {}
              /\ strand' = strand \o jobs
              /\ UNCHANGED singleShotMsgHandlers
           \/ \E it \in single :
                /\ strand' = strand \o <<MsgJob({it}, v.id)>> \o jobs
                /\ singleShotMsgHandlers' = SingleShotsWithout(it)
        /\ UNCHANGED <<frame, delivered, reported>>

\* handlers.front()(v), before handlers.pop().
CallFront(v) ==
    /\ handlers # <<>>
    /\ delivered' = Append(delivered, [handler |-> Head(handlers), reply |-> v])
    /\ frame' = "handler"
    /\ UNCHANGED <<strand, singleShotMsgHandlers, reported>>

Confirmation(v) == v.kind \in {"subscribe", "unsubscribe"}

\* "Protocol error", "invalid command", "unexpected message".
Refuse ==
    /\ Report1("refused")
    /\ frame' = "error"
    /\ UNCHANGED <<strand, singleShotMsgHandlers, delivered>>

DoProcessMessage(v) ==
    IF state = "Subscribed" /\ v.kind = "message" THEN PostMessage(v)
    ELSE IF handlers # <<>> /\ (state = "Subscribed" => Confirmation(v)) THEN CallFront(v)
    ELSE Refuse

\* What is left to parse after a value.
Remains(left) == IF left = 0 THEN Tail(rest) ELSE <<Leftover(left)>> \o Tail(rest)

ParseChunk ==
    /\ frame = "parse" /\ rest # <<>>
    /\ \E out \in Parse(Head(rest)) :
          /\ redisParser' = out.parser
          /\ CASE out.result = "Completed" ->
                    rest' = Remains(out.left) /\ DoProcessMessage(out.value)
               [] out.result = "Incompleted" ->
                    /\ rest' = Tail(rest)
                    /\ UNCHANGED <<frame, strand, singleShotMsgHandlers, delivered, reported>>
               [] out.result = "Error" ->
                    /\ rest' = <<>> /\ frame' = "none" /\ Report1("parser")
                    /\ UNCHANGED <<strand, singleShotMsgHandlers, delivered>>
    /\ UNCHANGED <<state, handlers, dataQueued, dataWrited, msgHandlers, subscribeSeq, held,
                   issued, turns, called, told, envVars>>

\* handlers.pop() once the reply handler is back.  The queue may have been
\* emptied meanwhile: pop on an empty queue is undefined.
HandlerReturnsNoPop ==
    /\ frame = "handler"
    /\ frame' = "parse"
    /\ UNCHANGED <<state, queueVars, pubsubVars, redisParser, rest, historyVars, envVars>>

HandlerReturnsPopsTwice ==
    /\ frame = "handler"
    /\ IF Len(handlers) >= 2
       THEN handlers' = Tail(Tail(handlers)) /\ frame' = "parse"
       ELSE frame' = "undefined" /\ UNCHANGED handlers
    /\ UNCHANGED <<state, dataQueued, dataWrited, strand, pubsubVars, redisParser, rest,
                   historyVars, envVars>>

HandlerReturnsReads ==
    /\ frame = "handler" /\ handlers # <<>>
    /\ handlers' = Tail(handlers) /\ frame' = "parse"
    /\ readOps' = Append(readOps, StartedRead)
    /\ UNCHANGED <<state, dataQueued, dataWrited, strand, pubsubVars, redisParser, rest,
                   historyVars, linkVars, connectOps, writeOps, logVars>>

HandlerReturns ==
    /\ frame = "handler"
    /\ IF handlers # <<>>
       THEN handlers' = Tail(handlers) /\ frame' = "parse"
       ELSE frame' = "undefined" /\ UNCHANGED handlers
    /\ UNCHANGED <<state, dataQueued, dataWrited, strand, pubsubVars, redisParser, rest,
                   historyVars, envVars>>

\* An errorHandler that throws leaves asyncRead through io_service::run.
ErrorHandlerReturns ==
    /\ frame = "error"
    /\ IF Throws THEN frame' = "none" /\ rest' = <<>>
                 ELSE frame' = "parse" /\ UNCHANGED rest
    /\ UNCHANGED <<state, queueVars, pubsubVars, redisParser, historyVars, envVars>>

-----------------------------------------------------------------------------
AppCall ==
    \/ Connect \/ Disconnect \/ Command \/ Publish
    \/ \E ch \in Channels : Subscribe(ch) \/ SingleShotSubscribe(ch)
    \/ \E h \in held : Unsubscribe(h)

ReadLoop == ReadAgain \/ ParseChunk \/ HandlerReturns \/ ErrorHandlerReturns

Handler ==
    \/ DoAsyncCommand \/ CallMessageHandler \/ AsyncWrite
    \/ HandleAsyncConnect \/ ConnectHandlerReturns \/ AsyncRead \/ ReadLoop

\* Who expects to be called for a message published on ch.
Audience(ch) == {h \in msgHandlers : h.chan = ch}

Environment ==
    /\ \/ ConnectDone \/ WriteSome \/ WriteFails \/ ReadSome \/ ReadFails
       \/ ServerReply \/ LinkDrops
       \/ \E ch \in Channels : ServerPublish(ch, Audience(ch))
    /\ UNCHANGED clientVars

Next == AppCall \/ Handler \/ Environment

Spec == Init /\ [][Next]_vars

(* io_service::run eventually runs every handler that is ready, and a      *)
(* callback returns; the connection moves bytes and the server answers as  *)
(* long as the connection is up.  Nothing obliges the application to call, *)
(* anybody to publish or the connection to drop.                           *)
FairSpec ==
    /\ Spec
    /\ WF_vars(DoAsyncCommand \/ CallMessageHandler) /\ WF_vars(AsyncWrite)
    /\ WF_vars(HandleAsyncConnect) /\ WF_vars(ConnectHandlerReturns)
    /\ WF_vars(AsyncRead) /\ WF_vars(ReadLoop)
    /\ WF_vars(WriteSome /\ UNCHANGED clientVars) /\ WF_vars(ReadSome /\ UNCHANGED clientVars)
    /\ WF_vars(ReadFails /\ UNCHANGED clientVars) /\ WF_vars(ServerReply /\ UNCHANGED clientVars)

-----------------------------------------------------------------------------
(* Properties.                                                             *)

\* There is one write at a time, it is outstanding exactly while dataWrited holds
\* its buffers, and what it has left to send is still in there (asyncWrite clears
\* dataWrited first thing; doAsyncCommand must not touch it before that).
SingleWriter ==
    /\ Len(writeOps) = IF dataWrited = <<>> THEN 0 ELSE 1
    /\ \A i \in DOMAIN writeOps :
          writeOps[i].st = "pending" =>
             \E n \in DOMAIN dataWrited :
                writeOps[i].left = SubSeq(dataWrited, n, Len(dataWrited))

\* A request reaches the socket at most once and in the order it was made,
\* whatever is connected, disconnected or lost in between.
WireOrder == \A i, j \in DOMAIN wireLog : i < j => wireLog[i] < wireLog[j]

\* A reply handler is called at most once, and handlers are called in the order
\* the requests were made, whatever is connected, disconnected or lost.
HandlersInOrder ==
    \A i, j \in DOMAIN delivered : i < j => delivered[i].handler < delivered[j].handler

\* A reply handler gets the reply of its own request, a subscribe or unsubscribe
\* its own confirmation (doProcessMessage pairs replies with handlers by position
\* alone).
ReplyMatching == \A i \in DOMAIN delivered : delivered[i].reply.id = delivered[i].handler

\* At most one asyncRead loop is alive: two would read into the one array buf
\* and feed the one parser (processMessage has no guard of its own).
SingleReader ==
    Len(readOps) + (IF frame \in {"connect", "parse", "handler", "error"} THEN 1 ELSE 0) <= 1

\* handlers.pop() finds the handler that was called still in the queue, whatever that handler
\* has called meanwhile: pop on an empty queue is undefined (redisclientimpl.cpp:298, :322).
NeverPopsEmpty == frame # "undefined"

\* "Return true if is connected to redis" (redisasyncclient.h:50): isConnected is
\* true only of a client whose socket has been connected and not been closed.
ConnectedImpliesOpen == state \in {"Connected", "Subscribed"} => link \in {"up", "dropped"}

\* connect reports success only to an application that is connected.
ConnectCallbackHonest == told \in {"none", "Connected", "Subscribed"}

\* The client finds fault with the server ("Protocol error", "invalid command",
\* "unexpected message", "Parser error") only if the server broke the protocol,
\* which this one never does.
NoSpuriousProtocolError == reported \cap {"refused", "parser"} = {}

\* Nothing is under way: what the server has been told and what it has sent have
\* all been dealt with.
Quiet ==
    /\ link = "up" /\ frame = "none"
    /\ strand = <<>> /\ dataQueued = <<>> /\ dataWrited = <<>>
    /\ toServer = <<>> /\ toClient = <<>>
    /\ \A i \in DOMAIN readOps : readOps[i].st = "pending"

\* A subscription the application has not given up is one the server still serves:
\* "Handler msgHandler will be called when someone publish message on channel"
\* (redisasyncclient.h:68).
SubscriptionsFed == Quiet => \A h \in msgHandlers : h.chan \in subs

\* The server is left subscribed to no channel nobody listens on: "Call unsubscribe
\* to stop the subscription", "it will be unsubscribed after call"
\* (redisasyncclient.h:69, :85).
NoOrphanSubscription ==
    Quiet => \A ch \in subs : \E h \in msgHandlers \cup singleShotMsgHandlers : h.chan = ch

\* Once all is quiet, a message has been given to every subscription that was there
\* when it was published and still is.
NoMissedMessage ==
    Quiet => \A m \in DOMAIN published : \A h \in published[m].audience \cap msgHandlers :
                \E i \in DOMAIN called : called[i] = [to |-> h, msg |-> m]

\* A message handler gets no published message twice and none out of order, and a
\* single-shot one is called at most once, also with a message nobody published (0)
\* that bytes out of step are taken for.
MessagesInOrder ==
    \A i, j \in DOMAIN called :
        i < j /\ called[i].to = called[j].to
            => /\ ~called[i].to.shot
               /\ 0 \in {called[i].msg, called[j].msg} \/ called[i].msg < called[j].msg

\* The promise of module RequestReply, to an application that only makes commands: its
\* strand holds nothing but doAsyncCommand.  A request is outstanding from the moment it
\* is posted until its handler is called.
StrandIds == [i \in DOMAIN strand |-> strand[i].req.id]

\* Handlers still to be called: the one being called is popped when it returns.
Uncalled == IF frame = "handler" /\ handlers # <<>> THEN Tail(handlers) ELSE handlers

Abstract == INSTANCE RequestReply WITH
    outstanding <- Uncalled \o StrandIds,
    answered    <- [i \in DOMAIN delivered |->
                      <<delivered[i].handler, delivered[i].reply.id>>]

\* The client is a request/reply channel: a handler is called only with its own reply,
\* oldest request first, and requests are forgotten only all at once.
ImplementsRequestReply == Abstract!Spec

\* Every request is answered unless its connection is lost.
Answered(id) == \E i \in DOMAIN delivered : delivered[i].handler = id
EveryRequestAnswered ==
    \A id \in 1 .. MaxCalls : issued >= id ~> Answered(id) \/ link # "up"

\* A lost connection does not go unnoticed: the error handler hears of it.
LossReported == link = "dropped" ~> "io" \in reported \/ link # "dropped"
=============================================================================
