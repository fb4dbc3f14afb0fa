--------------------------- MODULE AsyncPrograms ---------------------------
(***************************************************************************)
(* The asynchronous programs of examples/, each composed with the client   *)
(* it uses: async_timeout, async_set_get, async_set_get2, benchmark, and   *)
(* the two halves of async_pubsub, which share nothing but the thread.     *)
(*                                                                         *)
(* A program is a table: for each of its functions, the calls it makes.    *)
(* `script` is the stack of the calls still to be made, those of the       *)
(* innermost function first; while it is not empty the thread is inside of *)
(* the program and no handler of the client runs.                          *)
(***************************************************************************)
EXTENDS AsyncClient

CONSTANTS
    Programs,      \* the programs of a run
    Topic,         \* channelName
    Pattern,       \* the pattern "*"
    Workers,       \* workers of the benchmark
    MaxExpiries    \* bound: how often a timer runs out in a behaviour

ASSUME ProgramsAssumption ==
    Topic \in Channels /\ Pattern \in Channels /\ Workers \in Nat /\ MaxExpiries \in Nat

VARIABLES
    program,   \* the program that runs
    script,    \* the calls it has still to make
    timers,    \* of each deadline_timer: is a wait outstanding, and how many that ended
               \* have not had their handlers run
    onReply,   \* of each request, the function it was given as handler
    expiries,  \* history: how often each timer ran out
    ended      \* has the process ended?

programVars == <<program, script, timers, onReply, expiries, ended>>
progVars    == <<vars, programVars>>

-----------------------------------------------------------------------------
(* Calls.  `in` is the states in which the program makes the call; in the  *)
(* others it passes it over.                                               *)

Timers == {"timer", "publishTimer", "connectTimer"}
None   == "none"

\* The functions given to command as handlers.
ReplyFunctions == {"onSet", "onGet", "stop", "afterSet", "afterGet", "afterDel", "printOPS"}

Instruction ==
    [call : {"connect", "publish", "exit"}, arg : {None}, in : SUBSET State]
        \cup [call : {"disconnect"}, arg : Timers \cup {None}, in : SUBSET State]
        \cup [call : {"wait", "cancel"}, arg : Timers, in : SUBSET State]
        \cup [call : {"command"}, arg : ReplyFunctions, in : SUBSET State]
        \cup [call : {"subscribe"}, arg : Channels, in : SUBSET State]

If(states, call, arg) == [call |-> call, arg |-> arg, in |-> states]
Do(call, arg) == If(State, call, arg)

\* io_service::stop, or an exception that leaves io_service::run and main.
Exit  == <<Do("exit", None)>>
Throw == Exit

\* deadline_timer::expires_from_now cancels the wait outstanding; async_wait begins one.
CallLater(timer) == Do("wait", timer)
Cancel(timer)    == Do("cancel", timer)

-----------------------------------------------------------------------------
(* The programs.  A function may go more than one way, on what its         *)
(* argument holds.  What a program has no function for it passes over.     *)

\* async_timeout.cpp: class Worker.
Run == <<CallLater("timer"), Do("connect", None)>>
GetWithoutTimer == <<Do("command", "onGet")>>
Get == <<CallLater("timer"), Do("command", "onGet")>>

AsyncTimeout ==
    [main    |-> {Run},
     connected |-> {Get}, refused |-> {<<Cancel("timer")>>},
     onGet   |-> {<<Cancel("timer")>> \o Get},
     timer   |-> {<<Do("disconnect", None)>> \o Run},
     error   |-> {Throw}]

\* async_set_get.cpp: class Worker.  onSet goes on if the reply says OK.
AsyncSetGet ==
    [main    |-> {<<Do("connect", None)>>},
     connected |-> {<<Do("command", "onSet")>>},
     onSet   |-> {<<Do("command", "onGet")>>, <<>>},
     onGet   |-> {<<Do("command", "stop")>>},
     stop    |-> {Exit},
     error   |-> {Throw}]

\* async_set_get2.cpp: the same, without a look at the replies.
AsyncSetGet2 == [AsyncSetGet EXCEPT !.onSet = {<<Do("command", "onGet")>>}]

\* benchmark.cpp: workers and the OpsFetcher on one connection.
Set          == Do("command", "afterSet")
Work         == <<Set>>
ResetTimeout == <<CallLater("timer")>>
StartWorkers == [w \in 1 .. Workers |-> Set] \o ResetTimeout

Benchmark ==
    [main      |-> {<<Do("connect", None)>>},
     connected |-> {StartWorkers},
     refused   |-> {Exit},
     afterSet  |-> {<<Do("command", "afterGet")>>},
     afterGet  |-> {<<Do("command", "afterDel")>>},
     afterDel  |-> {Work},
     timer     |-> {ResetTimeout \o <<Do("command", "printOPS")>>},
     error     |-> {Throw}]

\* async_pubsub.cpp: the publisher.
ConnectPublisherAlways ==
    <<If({"Connecting", "Connected"}, "disconnect", "publishTimer"), Do("connect", None)>>
ConnectPublisher ==
    <<If({"Connected"}, "disconnect", "publishTimer"), Do("connect", None)>>

OnPublishTimeout == <<If({"Connected"}, "publish", None), CallLater("publishTimer")>>

OnPublisherConnected == [connected |-> <<CallLater("publishTimer")>>,
                         refused   |-> <<CallLater("connectTimer")>>]

Publisher ==
    [main         |-> {ConnectPublisher},
     connected    |-> {OnPublisherConnected.connected},
     refused      |-> {OnPublisherConnected.refused},
     aborted      |-> {OnPublisherConnected.refused},
     publishTimer |-> {OnPublishTimeout},
     connectTimer |-> {ConnectPublisher},
     error        |-> {ConnectPublisher}]

\* async_pubsub.cpp: the subscriber.
ConnectSubscriber ==
    <<If({"Connected", "Subscribed"}, "disconnect", None), Do("connect", None)>>

OnSubscriberConnected == [connected |-> <<Do("subscribe", Topic), Do("subscribe", Pattern)>>,
                          refused   |-> <<CallLater("connectTimer")>>]

Subscriber ==
    [main         |-> {ConnectSubscriber},
     connected    |-> {OnSubscriberConnected.connected},
     refused      |-> {OnSubscriberConnected.refused},
     aborted      |-> {OnSubscriberConnected.refused},
     connectTimer |-> {ConnectSubscriber},
     error        |-> {ConnectSubscriber}]

\* "listener" is none of the examples: it connects, subscribes to each channel once at a
\* time and unsubscribes, at any moment (FreeCall).
Program ==
    [async_timeout |-> AsyncTimeout, async_set_get |-> AsyncSetGet,
     async_set_get2 |-> AsyncSetGet2, benchmark |-> Benchmark,
     publisher |-> Publisher, subscriber |-> Subscriber,
     listener |-> [main |-> {<<>>}]]

ASSUME KnownPrograms == Programs \subseteq DOMAIN Program

-----------------------------------------------------------------------------
ProgInit ==
    /\ Init
    /\ program \in Programs
    /\ script \in Program[program].main
    /\ timers = [t \in Timers |-> [waiting |-> FALSE, due |-> 0]]
    /\ onReply = <<>> /\ expiries = [t \in Timers |-> 0] /\ ended = FALSE

\* The client or a timer calls a function of the program back; `left` is what had still
\* to be done.
CallBack(function, left) ==
    IF function \in DOMAIN Program[program]
    THEN \E body \in Program[program][function] : script' = body \o left
    ELSE script' = left

\* The calls of the client, and what comes back at once: connect reports success when
\* there is a connection or an attempt already, the others an error when there is none.
CallConnect(left) ==
    /\ Connect
    /\ IF state \in {"Unconnected", "Closed"} THEN script' = left
                                              ELSE CallBack("connected", left)
    /\ UNCHANGED <<timers, onReply, ended>>

CallDisconnect(timer, left) ==
    /\ Disconnect
    /\ script' = left
    /\ timers' = [t \in Timers |-> IF t = timer THEN [timers[t] EXCEPT !.waiting = FALSE]
                                                ELSE timers[t]]
    /\ UNCHANGED <<onReply, ended>>

CallRequest(request, accepted, handler, left) ==
    /\ request
    /\ IF accepted THEN onReply' = Append(onReply, handler) /\ script' = left
                   ELSE UNCHANGED onReply /\ CallBack("error", left)
    /\ UNCHANGED <<timers, ended>>

\* The calls of a timer.  A wait that is cancelled ends with an error, which its handler
\* looks at.
WaitOrCancelBlindly(timer, wait, left) ==
    /\ timers' = [timers EXCEPT ![timer] = [waiting |-> wait,
                                            due |-> IF @.waiting THEN @.due + 1 ELSE @.due]]
    /\ script' = left
    /\ UNCHANGED <<vars, onReply, ended>>

WaitOrCancel(timer, wait, left) ==
    /\ timers' = [timers EXCEPT ![timer].waiting = wait]
    /\ script' = left
    /\ UNCHANGED <<vars, onReply, ended>>

End ==
    /\ ended' = TRUE /\ script' = <<>>
    /\ UNCHANGED <<vars, timers, onReply>>

PassOver(left) ==
    /\ script' = left
    /\ UNCHANGED <<vars, timers, onReply, ended>>

Statement ==
    /\ script # <<>>
    /\ LET s    == Head(script)
           left == Tail(script)
       IN  \/ state \notin s.in /\ PassOver(left)
           \/ /\ state \in s.in
              /\ \/ s.call = "connect"    /\ CallConnect(left)
                 \/ s.call = "disconnect" /\ CallDisconnect(s.arg, left)
                 \/ s.call = "command"    /\ CallRequest(Command, state = "Connected", s.arg, left)
                 \/ s.call = "publish"    /\ CallRequest(Publish, state = "Connected", None, left)
                 \/ s.call = "subscribe"
                    /\ \E ch \in Channels :
                          s.arg = ch /\ CallRequest(Subscribe(ch), Subscribable, None, left)
                 \/ s.call = "wait"       /\ WaitOrCancel(s.arg, TRUE, left)
                 \/ s.call = "cancel"     /\ WaitOrCancel(s.arg, FALSE, left)
                 \/ s.call = "exit"       /\ End
    /\ UNCHANGED <<program, expiries>>

-----------------------------------------------------------------------------
(* The thread runs a handler of the client, and the function of the        *)
(* program that the handler calls.                                         *)

AtRest == script = <<>> /\ ~ended

\* Handlers that do not call the program, or only to tell it something.
Silent ==
    /\ \/ DoAsyncCommand \/ CallMessageHandler \/ ConnectHandlerReturns
       \/ ReadAgain \/ HandlerReturns \/ ErrorHandlerReturns
    /\ UNCHANGED script

Wrote ==
    /\ AsyncWrite
    /\ IF writeOps[1].st = "error" THEN CallBack("error", <<>>) ELSE UNCHANGED script

\* One thread: connections are reported in the order of the attempts.
Outcome == [ok |-> "connected", error |-> "refused", aborted |-> "aborted"]
HandledConnect ==
    /\ HandleAsyncConnect /\ connectOps' = Tail(connectOps)
    /\ CallBack(Outcome[connectOps[1]], <<>>)

HandledRead ==
    /\ AsyncRead
    /\ IF \E i \in DOMAIN readOps : readOps[i].st = "error" /\ readOps' = RemoveAt(readOps, i)
       THEN CallBack("error", <<>>) ELSE UNCHANGED script

\* A reply goes to the function its request came with; a complaint about the server, or
\* of the parser, to the error handler.
Parsed ==
    /\ ParseChunk
    /\ CASE frame' = "handler" -> CallBack(onReply[Head(handlers)], <<>>)
         [] frame' \in {"error", "none"} -> CallBack("error", <<>>)
         [] frame' = "parse" -> UNCHANGED script

HandlerRuns ==
    /\ AtRest
    /\ Silent \/ Wrote \/ HandledConnect \/ HandledRead \/ Parsed
    /\ UNCHANGED <<program, timers, onReply, expiries, ended>>

\* Time passes.
Expire(t) ==
    /\ timers[t].waiting /\ expiries[t] < MaxExpiries /\ ~ended
    /\ expiries' = [expiries EXCEPT ![t] = @ + 1]
    /\ timers' = [timers EXCEPT ![t] = [waiting |-> FALSE, due |-> timers[t].due + 1]]
    /\ UNCHANGED <<vars, program, script, onReply, ended>>

\* The handler of a wait that ended.  One that was cancelled does nothing.
OnTimer(t) ==
    /\ AtRest /\ frame = "none" /\ timers[t].due > 0
    /\ timers' = [timers EXCEPT ![t].due = timers[t].due - 1]
    /\ CallBack(t, <<>>)
    /\ UNCHANGED <<vars, program, onReply, expiries, ended>>

FreeCall ==
    /\ program = "listener"
    /\ \/ turns = 0 /\ Connect
       \/ \E ch \in Channels : (\A h \in held : h.chan # ch) /\ Subscribe(ch)
       \/ \E h \in held : Unsubscribe(h)
    /\ onReply' = onReply \o [i \in 1 .. issued' - issued |-> None]
    /\ UNCHANGED <<program, script, timers, expiries, ended>>

ProgNext ==
    \/ Statement \/ HandlerRuns \/ FreeCall
    \/ \E t \in Timers : Expire(t) \/ OnTimer(t)
    \/ ~ended /\ Environment /\ UNCHANGED programVars

ProgSpec == ProgInit /\ [][ProgNext]_progVars

-----------------------------------------------------------------------------
(* Properties.                                                             *)

\* Every variable keeps its type; there is a handler for each request made, and no more
\* completed waits than timers that ran out.
ProgTypeOK ==
    /\ program \in Programs
    /\ script \in Seq(Instruction)
    /\ timers \in [Timers -> [waiting : BOOLEAN, due : 0 .. MaxExpiries]]
    /\ \A t \in Timers : timers[t].due <= expiries[t]
    /\ onReply \in Seq(ReplyFunctions \cup {None}) /\ Len(onReply) = issued
    /\ expiries \in [Timers -> 0 .. MaxExpiries] /\ ended \in BOOLEAN

\* The programs that connect again do so one attempt at a time, and are never taken for
\* connected by the client before they are.
ReconnectsOnce ==
    program \in {"publisher", "subscriber"} => Len(connectOps) <= 1 /\ ConnectedImpliesOpen

\* benchmark.cpp:104 asserts that a GET gives the value its own worker has set, and
\* redisasyncclient.cpp:182 that a command is made only of a connected client: the examples
\* that connect once keep to both, however many workers share the connection.
AssertionsHold ==
    program \in {"async_set_get", "async_set_get2", "benchmark"} =>
        ReplyMatching /\ ConnectCallbackHonest /\ "state" \notin reported

\* There is nothing for the thread to run.
Waiting ==
    /\ AtRest /\ frame = "none" /\ strand = <<>>
    /\ \A t \in Timers : timers[t].due = 0
    /\ \A i \in DOMAIN connectOps : connectOps[i] = "pending"
    /\ \A i \in DOMAIN readOps : readOps[i].st = "pending"
    /\ \A i \in DOMAIN writeOps : writeOps[i].st = "pending"

\* A program that is to run for ever always waits for something that will come: a timer, a
\* connection attempt or the loss of the connection; async_timeout, whose server may be
\* silent, for a timer, unless it could not connect.
NeverStranded ==
    Waiting =>
        /\ program \in {"publisher", "subscriber"} =>
              \/ \E t \in Timers : timers[t].waiting
              \/ connectOps # <<>>
              \/ readOps # <<>> /\ link \in {"up", "dropped"}
        /\ program = "async_timeout" =>
              timers["timer"].waiting \/ connectOps # <<>> \/ state = "Unconnected"

\* A program that subscribes is served: between its functions, and with no attempt to connect
\* under way, what it listens to is what the server has it subscribed to.
SubscribersServed ==
    AtRest /\ connectOps = <<>> => SubscriptionsFed /\ NoOrphanSubscription

\* A client in another state is asked for no subscription (the assertion at
\* redisclientimpl.cpp:561).
SubscribesWhenConnected == "state" \notin reported
=============================================================================
