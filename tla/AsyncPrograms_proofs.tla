----------------------- MODULE AsyncPrograms_proofs -----------------------
(***************************************************************************)
(* Whatever a program of examples/ does, the client does no more than      *)
(* AsyncClient lets it do: what is proved of the client holds with them.   *)
(* The rest is proved of the programs themselves, from what their tables   *)
(* make them call and when.                                                *)
(***************************************************************************)
EXTENDS AsyncPrograms, AsyncSettled_proofs, TLAPS

-----------------------------------------------------------------------------
(* The programs are applications of the client.                            *)

\* A call that the program makes is a call of an application, or no step of the client.
LEMMA StatementIsCall ==
    ASSUME Statement
    PROVE  AppCall \/ UNCHANGED vars
<1> DEFINE s == Head(script)
           left == Tail(script)
<1>1. CASE PassOver(left)
  BY <1>1 DEF PassOver
<1>2. CASE CallConnect(left)
  BY <1>2 DEF CallConnect, AppCall
<1>3. CASE CallDisconnect(s.arg, left)
  BY <1>3 DEF CallDisconnect, AppCall
<1>4. CASE CallRequest(Command, state = "Connected", s.arg, left)
  BY <1>4 DEF CallRequest, AppCall
<1>5. CASE CallRequest(Publish, state = "Connected", None, left)
  BY <1>5 DEF CallRequest, AppCall
<1>6. CASE \E ch \in Channels : CallRequest(Subscribe(ch), Subscribable, None, left)
  BY <1>6 DEF CallRequest, AppCall
<1>7. CASE WaitOrCancel(s.arg, TRUE, left) \/ WaitOrCancel(s.arg, FALSE, left)
  BY <1>7 DEF WaitOrCancel
<1>8. CASE End
  BY <1>8 DEF End
<1> QED BY <1>1, <1>2, <1>3, <1>4, <1>5, <1>6, <1>7, <1>8 DEF Statement

\* So is a handler that runs, with the function it calls.
LEMMA HandlerRunsIsHandler ==
    ASSUME HandlerRuns
    PROVE  Handler
BY DEF HandlerRuns, Silent, Wrote, HandledConnect, HandledRead, Parsed, Handler, ReadLoop

LEMMA StepIsClientStep ==
    ASSUME [ProgNext]_progVars
    PROVE  [Next]_vars
<1>1. CASE Statement
  BY <1>1, StatementIsCall DEF Next
<1>2. CASE HandlerRuns
  BY <1>2, HandlerRunsIsHandler DEF Next
<1>3. CASE FreeCall
  BY <1>3 DEF FreeCall, AppCall, Next
<1>4. CASE \E t \in Timers : Expire(t) \/ OnTimer(t)
  BY <1>4 DEF Expire, OnTimer
<1>5. CASE Environment
  BY <1>5 DEF Next
<1>6. CASE UNCHANGED progVars
  BY <1>6 DEF progVars
<1> QED BY <1>1, <1>2, <1>3, <1>4, <1>5, <1>6 DEF ProgNext

\* The programs of examples/ are applications as AsyncClient has them.
THEOREM ProgramsAreApplications == ProgSpec => Spec
<1>1. ProgInit => Init
  BY DEF ProgInit
<1>2. [ProgNext]_progVars => [Next]_vars
  BY StepIsClientStep
<1> QED BY <1>1, <1>2, PTL DEF ProgSpec, Spec

\* Hence none of them, reconnecting as it may from inside of any callback, makes the client
\* write twice at a time, send a request twice or out of order, or call a handler so.
THEOREM ProgramsKeepOrder == ProgSpec => [](SingleWriter /\ WireOrder /\ HandlersInOrder)
BY ProgramsAreApplications, OneWriter, SentInOrder, CalledInOrder, PTL

\* What there is to be made once p has been called back by its name f.
After(p, f, left) ==
    IF f \in DOMAIN Program[p] THEN {body \o left : body \in Program[p][f]} ELSE {left}

LEMMA CallBackIs == \A f, left : CallBack(f, left) <=> script' \in After(program, f, left)
BY DEF CallBack, After

LEMMA Instructions ==
    /\ \A states \in SUBSET State :
          /\ \A call \in {"connect", "publish", "exit"} : If(states, call, None) \in Instruction
          /\ \A t \in Timers \cup {None} : If(states, "disconnect", t) \in Instruction
          /\ \A call \in {"wait", "cancel"}, t \in Timers : If(states, call, t) \in Instruction
          /\ \A h \in ReplyFunctions : If(states, "command", h) \in Instruction
          /\ \A ch \in Channels : If(states, "subscribe", ch) \in Instruction
    /\ State \in SUBSET State
BY DEF If, Instruction

\* The tables, a function at a time.
LEMMA Tables ==
    /\ Program["async_timeout"] = AsyncTimeout /\ Program["async_set_get"] = AsyncSetGet
    /\ Program["async_set_get2"] = AsyncSetGet2 /\ Program["benchmark"] = Benchmark
    /\ Program["publisher"] = Publisher /\ Program["subscriber"] = Subscriber
    /\ Program["listener"] = [main |-> {<<>>}]
    /\ DOMAIN Program = {"async_timeout", "async_set_get", "async_set_get2", "benchmark", "publisher",
                         "subscriber", "listener"}
BY DEF Program

LEMMA AsyncTimeoutTable ==
    \A f \in DOMAIN AsyncTimeout : \A body \in AsyncTimeout[f] :
        \/ f = "main" /\ body = Run
        \/ f = "connected" /\ body = Get
        \/ f = "refused" /\ body = <<Cancel("timer")>>
        \/ f = "onGet" /\ body = <<Cancel("timer")>> \o Get
        \/ f = "timer" /\ body = <<Do("disconnect", None)>> \o Run
        \/ f = "error" /\ body = Throw
BY DEF AsyncTimeout

LEMMA AsyncSetGetTable ==
    \A f \in DOMAIN AsyncSetGet : \A body \in AsyncSetGet[f] :
        \/ f = "main" /\ body = <<Do("connect", None)>>
        \/ f = "connected" /\ body = <<Do("command", "onSet")>>
        \/ f = "onSet" /\ body \in {<<Do("command", "onGet")>>, <<>>}
        \/ f = "onGet" /\ body = <<Do("command", "stop")>>
        \/ f = "stop" /\ body = Exit
        \/ f = "error" /\ body = Throw
BY DEF AsyncSetGet

LEMMA AsyncSetGet2Table ==
    \A f \in DOMAIN AsyncSetGet2 : f \in DOMAIN AsyncSetGet /\ AsyncSetGet2[f] \subseteq AsyncSetGet[f]
BY DEF AsyncSetGet, AsyncSetGet2

LEMMA BenchmarkTable ==
    \A f \in DOMAIN Benchmark : \A body \in Benchmark[f] :
        \/ f = "main" /\ body = <<Do("connect", None)>>
        \/ f = "connected" /\ body = StartWorkers
        \/ f = "refused" /\ body = Exit
        \/ f = "afterSet" /\ body = <<Do("command", "afterGet")>>
        \/ f = "afterGet" /\ body = <<Do("command", "afterDel")>>
        \/ f = "afterDel" /\ body = Work
        \/ f = "timer" /\ body = ResetTimeout \o <<Do("command", "printOPS")>>
        \/ f = "error" /\ body = Throw
BY DEF Benchmark

LEMMA PublisherTable ==
    \A f \in DOMAIN Publisher : \A body \in Publisher[f] :
        \/ f = "connected" /\ body = <<CallLater("publishTimer")>>
        \/ f \in {"refused", "aborted"} /\ body = <<CallLater("connectTimer")>>
        \/ f = "publishTimer" /\ body = OnPublishTimeout
        \/ f \in {"main", "connectTimer", "error"} /\ body = ConnectPublisher
BY DEF Publisher, OnPublisherConnected

LEMMA SubscriberTable ==
    \A f \in DOMAIN Subscriber : \A body \in Subscriber[f] :
        \/ f = "connected" /\ body = <<Do("subscribe", Topic), Do("subscribe", Pattern)>>
        \/ f \in {"refused", "aborted"} /\ body = <<CallLater("connectTimer")>>
        \/ f \in {"main", "connectTimer", "error"} /\ body = ConnectSubscriber
BY DEF Subscriber, OnSubscriberConnected

LEMMA ListenerTable == \A f \in DOMAIN [main |-> {<<>>}] : [main |-> {<<>>}][f] = {<<>>}
OBVIOUS

\* Every function makes calls of the client, of a timer, or of exit.
LEMMA InstructionsOf ==
    /\ Run \in Seq(Instruction) /\ Get \in Seq(Instruction) /\ Exit \in Seq(Instruction) /\ Throw \in Seq(Instruction)
    /\ Work \in Seq(Instruction) /\ ResetTimeout \in Seq(Instruction) /\ Set \in Instruction
    /\ OnPublishTimeout \in Seq(Instruction) /\ ConnectPublisher \in Seq(Instruction)
    /\ ConnectSubscriber \in Seq(Instruction)
    /\ \A t \in Timers : Cancel(t) \in Instruction /\ CallLater(t) \in Instruction
    /\ \A t \in Timers : <<Cancel(t)>> \in Seq(Instruction) /\ <<CallLater(t)>> \in Seq(Instruction)
    /\ \A h \in ReplyFunctions : <<Do("command", h)>> \in Seq(Instruction)
    /\ <<Do("connect", None)>> \in Seq(Instruction)
    /\ <<Do("disconnect", None)>> \in Seq(Instruction)
    /\ <<Do("subscribe", Topic), Do("subscribe", Pattern)>> \in Seq(Instruction)
<1>0. \A a, b \in Instruction : <<a>> \in Seq(Instruction) /\ <<a, b>> \in Seq(Instruction)
  OBVIOUS
<1>1. /\ \A call \in {"connect", "exit"} : Do(call, None) \in Instruction
      /\ \A t \in Timers \cup {None} : Do("disconnect", t) \in Instruction
      /\ \A t \in Timers : Do("wait", t) \in Instruction /\ Do("cancel", t) \in Instruction
      /\ \A h \in ReplyFunctions : Do("command", h) \in Instruction
      /\ Do("subscribe", Topic) \in Instruction /\ Do("subscribe", Pattern) \in Instruction
  BY Instructions, ProgramsAssumption DEF Do
<1>2. \A t \in Timers : Cancel(t) \in Instruction /\ CallLater(t) \in Instruction
  BY <1>1 DEF Cancel, CallLater
<1>3. "timer" \in Timers /\ "publishTimer" \in Timers /\ "onGet" \in ReplyFunctions /\ "afterSet" \in ReplyFunctions
  BY DEF Timers, ReplyFunctions
<1>4. /\ If({"Connected"}, "publish", None) \in Instruction
      /\ If({"Connected"}, "disconnect", "publishTimer") \in Instruction
      /\ If({"Connected", "Subscribed"}, "disconnect", None) \in Instruction
  <2>1. {"Connected"} \in SUBSET State /\ {"Connected", "Subscribed"} \in SUBSET State
    BY DEF State
  <2> QED BY <1>3, <2>1, Instructions
<1>5. Run \in Seq(Instruction) /\ Get \in Seq(Instruction)
  <2>1. CallLater("timer") \in Instruction /\ Do("connect", None) \in Instruction /\ Do("command", "onGet") \in Instruction
    BY <1>1, <1>2, <1>3
  <2> QED BY <2>1, <1>0 DEF Run, Get
<1>6. Exit \in Seq(Instruction) /\ Throw \in Seq(Instruction)
  <2>1. Do("exit", None) \in Instruction
    BY <1>1
  <2> QED BY <1>0, <2>1 DEF Exit, Throw
<1>7. Set \in Instruction /\ Work \in Seq(Instruction) /\ ResetTimeout \in Seq(Instruction)
  <2>1. Set \in Instruction /\ CallLater("timer") \in Instruction
    <3> HIDE DEF ReplyFunctions
    <3> QED BY <1>1, <1>2, <1>3 DEF Set
  <2> QED BY <1>0, <2>1 DEF Work, ResetTimeout
<1>8. OnPublishTimeout \in Seq(Instruction)
  <2>1. CallLater("publishTimer") \in Instruction
    BY <1>2, <1>3
  <2> QED BY <1>0, <1>4, <2>1 DEF OnPublishTimeout
<1>9. ConnectPublisher \in Seq(Instruction) /\ ConnectSubscriber \in Seq(Instruction)
  <2>1. Do("connect", None) \in Instruction
    BY <1>1
  <2> QED BY <1>0, <1>4, <2>1 DEF ConnectPublisher, ConnectSubscriber
<1>10. /\ \A t \in Timers : <<Cancel(t)>> \in Seq(Instruction) /\ <<CallLater(t)>> \in Seq(Instruction)
       /\ \A h \in ReplyFunctions : <<Do("command", h)>> \in Seq(Instruction)
       /\ <<Do("connect", None)>> \in Seq(Instruction) /\ <<Do("disconnect", None)>> \in Seq(Instruction)
       /\ <<Do("subscribe", Topic), Do("subscribe", Pattern)>> \in Seq(Instruction)
  <2>1. Do("connect", None) \in Instruction /\ Do("disconnect", None) \in Instruction
    BY <1>1
  <2> QED BY <1>0, <1>1, <1>2, <2>1
<1> QED BY <1>2, <1>5, <1>6, <1>7, <1>8, <1>9, <1>10

LEMMA StartWorkersTyped ==
    /\ [w \in 1 .. Workers |-> Set] \in Seq(Instruction)
    /\ StartWorkers \in Seq(Instruction)
<1>1. [w \in 1 .. Workers |-> Set] \in Seq(Instruction)
  <2>1. Workers \in Nat /\ [w \in 1 .. Workers |-> Set] \in [1 .. Workers -> Instruction]
    BY ProgramsAssumption, InstructionsOf
  <2> QED BY <2>1, SequenceOf
<1> QED BY <1>1, InstructionsOf, ConcatProperties DEF StartWorkers

LEMMA BodiesTyped ==
    \A p \in Programs : \A f \in DOMAIN Program[p] : Program[p][f] \subseteq Seq(Instruction)
<1> SUFFICES ASSUME NEW p \in Programs, NEW f \in DOMAIN Program[p], NEW body \in Program[p][f]
             PROVE  body \in Seq(Instruction)
  OBVIOUS
<1>1. "timer" \in Timers /\ "publishTimer" \in Timers /\ "connectTimer" \in Timers
  BY DEF Timers
<1>2. <<>> \in Seq(Instruction) /\ \A s, t \in Seq(Instruction) : s \o t \in Seq(Instruction)
  BY EmptySeq, ConcatProperties
<1>9. \A call \in {"onGet", "onSet", "stop", "afterSet", "afterGet", "afterDel", "printOPS"} :
         <<Do("command", call)>> \in Seq(Instruction)
  BY InstructionsOf DEF ReplyFunctions
<1>10. <<Cancel("timer")>> \o Get \in Seq(Instruction) /\ <<Do("disconnect", None)>> \o Run \in Seq(Instruction)
  <2>1. /\ <<Cancel("timer")>> \in Seq(Instruction) /\ Get \in Seq(Instruction)
        /\ <<Do("disconnect", None)>> \in Seq(Instruction) /\ Run \in Seq(Instruction)
    BY <1>1, InstructionsOf
  <2> QED BY <1>2, <2>1
<1>11. ResetTimeout \o <<Do("command", "printOPS")>> \in Seq(Instruction)
  BY <1>2, <1>9, InstructionsOf
<1>3. CASE p = "async_timeout"
  <2>1. f \in DOMAIN AsyncTimeout /\ body \in AsyncTimeout[f]
    BY <1>3, Tables
  <2> QED BY <1>1, <1>10, <2>1, AsyncTimeoutTable, InstructionsOf
<1>4. CASE p \in {"async_set_get", "async_set_get2"}
  <2>1. f \in DOMAIN AsyncSetGet /\ body \in AsyncSetGet[f]
    BY <1>4, Tables, AsyncSetGet2Table
  <2> QED BY <1>2, <1>9, <2>1, AsyncSetGetTable, InstructionsOf
<1>5. CASE p = "benchmark"
  <2>1. f \in DOMAIN Benchmark /\ body \in Benchmark[f]
    BY <1>5, Tables
  <2> QED BY <1>9, <1>11, <2>1, BenchmarkTable, InstructionsOf, StartWorkersTyped
<1>6. CASE p = "publisher"
  <2>1. f \in DOMAIN Publisher /\ body \in Publisher[f]
    BY <1>6, Tables
  <2> QED BY <2>1, <1>1, PublisherTable, InstructionsOf
<1>7. CASE p = "subscriber"
  <2>1. f \in DOMAIN Subscriber /\ body \in Subscriber[f]
    BY <1>7, Tables
  <2> QED BY <2>1, <1>1, SubscriberTable, InstructionsOf
<1>8. CASE p = "listener"
  <2>1. f \in DOMAIN [main |-> {<<>>}] /\ body \in [main |-> {<<>>}][f]
    BY <1>8, Tables
  <2> QED BY <1>2, <2>1, ListenerTable
<1> QED BY <1>3, <1>4, <1>5, <1>6, <1>7, <1>8, Tables, KnownPrograms

LEMMA AfterTyped ==
    ASSUME NEW p \in Programs, NEW f, NEW left \in Seq(Instruction)
    PROVE  After(p, f, left) \subseteq Seq(Instruction)
<1>1. CASE f \in DOMAIN Program[p]
  <2>1. \A body \in Program[p][f] : body \in Seq(Instruction)
    BY <1>1, BodiesTyped
  <2>2. \A body \in Program[p][f] : body \o left \in Seq(Instruction)
    BY <2>1, ConcatProperties
  <2> QED BY <1>1, <2>2 DEF After
<1>2. CASE f \notin DOMAIN Program[p]
  BY <1>2 DEF After
<1> QED BY <1>1, <1>2

\* Calling the program back leaves it with calls to make.
LEMMA CallBackTyped ==
    ASSUME program \in Programs, NEW f, NEW left \in Seq(Instruction), CallBack(f, left)
    PROVE  script' \in Seq(Instruction)
BY CallBackIs, AfterTyped

LEMMA HeadOfScript ==
    ASSUME NEW s \in Seq(Instruction), s # <<>>
    PROVE  Head(s) \in Instruction /\ Tail(s) \in Seq(Instruction)
BY HeadTailProperties

\* How many requests a call makes.
LEMMA RequestsMade ==
    ASSUME TypeOK
    PROVE  /\ Command \/ Publish => issued' = IF state = "Connected" THEN issued + 1 ELSE issued
           /\ \A ch \in Channels : Subscribe(ch) => issued' = IF Subscribable THEN issued + 1 ELSE issued
           /\ \A h \in held : Unsubscribe(h) => issued' \in {issued, issued + 1}
           /\ Connect \/ Disconnect \/ Handler \/ Environment \/ UNCHANGED vars => issued' = issued
<1>1. Command \/ Publish => issued' = IF state = "Connected" THEN issued + 1 ELSE issued
  BY DEF Command, Publish, Request1, Post
<1>2. ASSUME NEW ch \in Channels, Subscribe(ch) PROVE issued' = IF Subscribable THEN issued + 1 ELSE issued
  BY <1>2 DEF Subscribe, Post
<1>3. ASSUME NEW h \in held, Unsubscribe(h) PROVE issued' \in {issued, issued + 1}
  BY <1>3 DEF Unsubscribe, Post
<1>4. Connect \/ Disconnect => issued' = issued
  BY DEF Connect, Disconnect
<1>5. Handler => issued' = issued
  BY DEF Handler, DoAsyncCommand, CallMessageHandler, AsyncWrite, HandleAsyncConnect, ConnectHandlerReturns,
         AsyncRead, ReadLoop, ReadAgain, ParseChunk, HandlerReturns, ErrorHandlerReturns, historyVars
<1>6. Environment \/ UNCHANGED vars => issued' = issued
  BY DEF Environment, vars, clientVars, historyVars
<1> QED BY <1>1, <1>2, <1>3, <1>4, <1>5, <1>6

\* The types of what only the program changes: a call of its own.
LEMMA RequestTyped ==
    ASSUME TypeOK, ProgTypeOK, NEW handler \in ReplyFunctions \cup {None}, NEW left \in Seq(Instruction),
           \/ /\ issued' = issued + 1
              /\ onReply' = Append(onReply, handler) /\ script' = left
           \/ issued' = issued /\ UNCHANGED onReply /\ CallBack("error", left),
           UNCHANGED <<program, timers, expiries, ended>>
    PROVE  ProgTypeOK'
<1>1. /\ program \in Programs /\ script \in Seq(Instruction) /\ issued \in Nat
      /\ onReply \in Seq(ReplyFunctions \cup {None}) /\ Len(onReply) = issued
  BY DEF TypeOK, ProgTypeOK
<1>2. onReply' \in Seq(ReplyFunctions \cup {None}) /\ Len(onReply') = issued'
  <2>1. CASE issued' = issued + 1 /\ onReply' = Append(onReply, handler)
    BY <1>1, <2>1, AppendProperties
  <2>2. CASE issued' = issued /\ UNCHANGED onReply
    BY <1>1, <2>2
  <2> QED BY <2>1, <2>2
<1>3. script' \in Seq(Instruction)
  BY <1>1, CallBackTyped
<1> QED BY <1>2, <1>3 DEF ProgTypeOK

LEMMA StatementTyped == ASSUME TypeOK, ProgTypeOK, Statement PROVE ProgTypeOK'
<1> DEFINE left == Tail(script)
<1>1. /\ Head(script) \in Instruction /\ left \in Seq(Instruction)
      /\ UNCHANGED <<program, expiries>> /\ program \in Programs
  BY HeadOfScript DEF Statement, ProgTypeOK
<1> HIDE DEF left
<1>2. PICK s \in Instruction : s = Head(script)
  BY <1>1
<1>3. CASE PassOver(left)
  <2>1. issued' = issued
    BY <1>3, RequestsMade DEF PassOver
  <2> QED BY <1>1, <1>3, <2>1 DEF PassOver, ProgTypeOK
<1>4. CASE CallConnect(left)
  <2>1. issued' = issued
    BY <1>4, RequestsMade DEF CallConnect
  <2>2. script' \in Seq(Instruction)
    BY <1>1, <1>4, CallBackTyped DEF CallConnect
  <2> QED BY <1>1, <1>4, <2>1, <2>2 DEF CallConnect, ProgTypeOK
<1>5. CASE CallDisconnect(s.arg, left)
  <2>1. issued' = issued
    BY <1>5, RequestsMade DEF CallDisconnect
  <2>2. timers' \in [Timers -> [waiting : BOOLEAN, due : 0 .. MaxExpiries]]
        /\ \A t \in Timers : timers'[t].due = timers[t].due
    BY <1>5 DEF CallDisconnect, ProgTypeOK
  <2> QED BY <1>1, <1>5, <2>1, <2>2 DEF CallDisconnect, ProgTypeOK
<1>6. CASE s.call = "command" /\ CallRequest(Command, state = "Connected", s.arg, left)
  <2>1. s.arg \in ReplyFunctions
    BY <1>6 DEF Instruction
  <2> QED BY <1>1, <1>6, <2>1, RequestTyped, RequestsMade DEF CallRequest
<1>7. CASE CallRequest(Publish, state = "Connected", None, left)
  BY <1>1, <1>7, RequestTyped, RequestsMade DEF CallRequest
<1>8. CASE \E ch \in Channels : CallRequest(Subscribe(ch), Subscribable, None, left)
  BY <1>1, <1>8, RequestTyped, RequestsMade DEF CallRequest
<1>9. CASE s.call \in {"wait", "cancel"} /\ \E wait \in BOOLEAN : WaitOrCancel(s.arg, wait, left)
  <2>1. s.arg \in Timers
    BY <1>9 DEF Instruction
  <2>2. PICK wait \in BOOLEAN : WaitOrCancel(s.arg, wait, left)
    BY <1>9
  <2>3. issued' = issued
    BY <2>2, RequestsMade DEF WaitOrCancel
  <2>4. timers' \in [Timers -> [waiting : BOOLEAN, due : 0 .. MaxExpiries]]
        /\ \A t \in Timers : timers'[t].due = timers[t].due
    BY <2>1, <2>2 DEF WaitOrCancel, ProgTypeOK
  <2> QED BY <1>1, <2>2, <2>3, <2>4 DEF WaitOrCancel, ProgTypeOK
<1>10. CASE End
  <2>1. issued' = issued
    BY <1>10, RequestsMade DEF End
  <2> QED BY <1>1, <1>10, <2>1, EmptySeq DEF End, ProgTypeOK
<1>11. \/ PassOver(left) \/ CallConnect(left) \/ CallDisconnect(s.arg, left)
       \/ s.call = "command" /\ CallRequest(Command, state = "Connected", s.arg, left)
       \/ CallRequest(Publish, state = "Connected", None, left)
       \/ \E ch \in Channels : CallRequest(Subscribe(ch), Subscribable, None, left)
       \/ s.call \in {"wait", "cancel"} /\ \E wait \in BOOLEAN : WaitOrCancel(s.arg, wait, left)
       \/ End
  BY <1>2 DEF Statement, left
<1> QED BY <1>3, <1>4, <1>5, <1>6, <1>7, <1>8, <1>9, <1>10, <1>11

\* What a handler leaves in the way of frames, and what it calls.
LEMMA FrameAfterParsing ==
    ASSUME ParseChunk
    PROVE  frame' \in {"parse", "handler", "error", "none"}
<1>1. PICK out \in Parse(Head(rest)) :
          /\ redisParser' = out.parser
          /\ CASE out.result = "Completed" ->
                    rest' = Remains(out.left) /\ DoProcessMessage(out.value)
               [] out.result = "Incompleted" ->
                    /\ rest' = Tail(rest)
                    /\ UNCHANGED <<frame, strand, singleShotMsgHandlers, delivered, reported>>
               [] out.result = "Error" ->
                    /\ rest' = <<>> /\ frame' = "none" /\ Report1("parser")
                    /\ UNCHANGED <<strand, singleShotMsgHandlers, delivered>>
  BY DEF ParseChunk
<1>2. out.result \in {"Completed", "Incompleted", "Error"}
  BY DEF Parse, OutOfStep
<1>3. frame = "parse"
  BY DEF ParseChunk
<1>4. DoProcessMessage(out.value) => frame' \in {"parse", "handler", "error"}
  BY <1>3 DEF DoProcessMessage, PostMessage, CallFront, Refuse
<1> QED BY <1>1, <1>2, <1>3, <1>4

LEMMA RunsOrCallsBack ==
    ASSUME HandlerRuns
    PROVE  script' = script \/ \E f : CallBack(f, <<>>)
<1>1. CASE Silent
  BY <1>1 DEF Silent
<1>2. CASE Wrote
  BY <1>2 DEF Wrote
<1>3. CASE HandledConnect
  BY <1>3 DEF HandledConnect
<1>4. CASE HandledRead
  BY <1>4 DEF HandledRead
<1>5. CASE Parsed
  <2>1. frame' \in {"parse", "handler", "error", "none"}
    BY <1>5, FrameAfterParsing DEF Parsed
  <2> QED BY <1>5, <2>1 DEF Parsed
<1> QED BY <1>1, <1>2, <1>3, <1>4, <1>5 DEF HandlerRuns

\* Nothing to be made is left when a handler of the client runs, or of a timer.
LEMMA HandlerRunsTyped == ASSUME TypeOK, ProgTypeOK, HandlerRuns PROVE ProgTypeOK'
<1>1. issued' = issued
  BY HandlerRunsIsHandler, RequestsMade
<1>2. script' = script \/ \E f : CallBack(f, <<>>)
  BY RunsOrCallsBack
<1>3. script' \in Seq(Instruction)
  BY <1>2, CallBackTyped, EmptySeq DEF ProgTypeOK
<1> QED BY <1>1, <1>3 DEF HandlerRuns, ProgTypeOK

LEMMA FreeCallTyped == ASSUME TypeOK, ProgTypeOK, FreeCall PROVE ProgTypeOK'
<1>1. issued' \in {issued, issued + 1} /\ issued \in Nat
  BY RequestsMade DEF FreeCall, TypeOK
<1>2. UNCHANGED <<program, script, timers, expiries, ended>>
  BY DEF FreeCall
<1>3. onReply \in Seq(ReplyFunctions \cup {None}) /\ Len(onReply) = issued
  BY DEF ProgTypeOK
<1>4. PICK n \in {0, 1} : issued' = issued + n /\ n = issued' - issued
  <2>1. CASE issued' = issued
    BY <1>1, <2>1
  <2>2. CASE issued' = issued + 1
    BY <1>1, <2>2
  <2> QED BY <1>1, <2>1, <2>2
<1>5. [i \in 1 .. n |-> None] \in Seq(ReplyFunctions \cup {None}) /\ Len([i \in 1 .. n |-> None]) = n
  <2>1. [i \in 1 .. n |-> None] \in [1 .. n -> ReplyFunctions \cup {None}]
    OBVIOUS
  <2> QED BY <2>1, SequenceOf
<1>6. onReply' = onReply \o [i \in 1 .. n |-> None]
  BY <1>4 DEF FreeCall
<1>7. onReply' \in Seq(ReplyFunctions \cup {None}) /\ Len(onReply') = issued'
  BY <1>3, <1>4, <1>5, <1>6, ConcatProperties
<1> QED BY <1>2, <1>7 DEF ProgTypeOK

LEMMA TimerTyped ==
    ASSUME TypeOK, ProgTypeOK, NEW t \in Timers, Expire(t) \/ OnTimer(t) PROVE ProgTypeOK'
<1>1. issued' = issued
  BY RequestsMade DEF Expire, OnTimer
<1>2. /\ timers \in [Timers -> [waiting : BOOLEAN, due : 0 .. MaxExpiries]]
      /\ expiries \in [Timers -> 0 .. MaxExpiries] /\ MaxExpiries \in Nat
      /\ \A u \in Timers : timers[u].due \in Nat /\ timers[u].due <= expiries[u] /\ expiries[u] \in 0 .. MaxExpiries
  BY ProgramsAssumption DEF ProgTypeOK
<1>3. CASE Expire(t)
  <2>1. expiries[t] + 1 \in 0 .. MaxExpiries /\ timers[t].due + 1 \in 0 .. MaxExpiries
        /\ timers[t].due + 1 <= expiries[t] + 1
    BY <1>2, <1>3 DEF Expire
  <2>2. /\ expiries' = [expiries EXCEPT ![t] = expiries[t] + 1]
        /\ timers' = [timers EXCEPT ![t] = [waiting |-> FALSE, due |-> timers[t].due + 1]]
        /\ UNCHANGED <<program, script, onReply, ended>>
    BY <1>3 DEF Expire
  <2>3. /\ timers' \in [Timers -> [waiting : BOOLEAN, due : 0 .. MaxExpiries]]
        /\ expiries' \in [Timers -> 0 .. MaxExpiries]
    BY <1>2, <2>1, <2>2
  <2>4. \A u \in Timers : timers'[u].due <= expiries'[u]
    BY <1>2, <2>1, <2>2
  <2> QED BY <1>1, <2>2, <2>3, <2>4 DEF ProgTypeOK
<1>4. CASE OnTimer(t)
  <2>1. timers[t].due - 1 \in 0 .. MaxExpiries /\ timers[t].due - 1 <= expiries[t]
    BY <1>2, <1>4 DEF OnTimer
  <2>2. /\ timers' = [timers EXCEPT ![t] = [timers[t] EXCEPT !.due = timers[t].due - 1]]
        /\ CallBack(t, <<>>) /\ UNCHANGED <<program, onReply, expiries, ended>>
    BY <1>4 DEF OnTimer
  <2>3. [timers[t] EXCEPT !.due = timers[t].due - 1] \in [waiting : BOOLEAN, due : 0 .. MaxExpiries]
    BY <1>2, <2>1
  <2>4. timers' \in [Timers -> [waiting : BOOLEAN, due : 0 .. MaxExpiries]]
    BY <1>2, <2>2, <2>3
  <2>5. \A u \in Timers : timers'[u].due <= expiries'[u]
    <3>1. [timers[t] EXCEPT !.due = timers[t].due - 1].due = timers[t].due - 1
      BY <1>2
    <3> QED BY <1>2, <2>1, <2>2, <3>1
  <2>6. script' \in Seq(Instruction)
    BY <2>2, CallBackTyped, EmptySeq DEF ProgTypeOK
  <2> QED BY <1>1, <2>2, <2>4, <2>5, <2>6 DEF ProgTypeOK
<1> QED BY <1>3, <1>4

LEMMA ProgStepTyped == ASSUME TypeOK, ProgTypeOK, [ProgNext]_progVars PROVE ProgTypeOK'
<1>1. CASE Statement
  BY <1>1, StatementTyped
<1>2. CASE HandlerRuns
  BY <1>2, HandlerRunsTyped
<1>3. CASE FreeCall
  BY <1>3, FreeCallTyped
<1>4. CASE \E t \in Timers : Expire(t) \/ OnTimer(t)
  BY <1>4, TimerTyped
<1>5. CASE (Environment /\ UNCHANGED programVars) \/ UNCHANGED progVars
  BY <1>5, RequestsMade DEF programVars, progVars, ProgTypeOK
<1> QED BY <1>1, <1>2, <1>3, <1>4, <1>5 DEF ProgNext

LEMMA ProgInitTyped == ProgInit => ProgTypeOK
<1> SUFFICES ASSUME ProgInit PROVE ProgTypeOK
  OBVIOUS
<1>1. script \in Seq(Instruction)
  <2>1. "main" \in DOMAIN Program[program] /\ program \in Programs /\ script \in Program[program]["main"]
    <3>1. \A p \in DOMAIN Program : "main" \in DOMAIN Program[p]
      BY DEF Program, AsyncTimeout, AsyncSetGet, AsyncSetGet2, Benchmark, Publisher, Subscriber
    <3> QED BY <3>1, KnownPrograms DEF ProgInit
  <2> QED BY <2>1, BodiesTyped
<1>2. onReply \in Seq(ReplyFunctions \cup {None}) /\ Len(onReply) = issued
  BY EmptySeq DEF ProgInit, Init
<1>3. 0 \in 0 .. MaxExpiries
  BY ProgramsAssumption
<1>4. /\ timers \in [Timers -> [waiting : BOOLEAN, due : 0 .. MaxExpiries]]
      /\ expiries \in [Timers -> 0 .. MaxExpiries]
  BY <1>3 DEF ProgInit
<1>5. \A t \in Timers : timers[t].due <= expiries[t]
  <2> SUFFICES ASSUME NEW t \in Timers PROVE timers[t].due <= expiries[t]
    OBVIOUS
  <2>1. timers[t].due = 0 /\ expiries[t] = 0
    BY DEF ProgInit
  <2> QED BY <2>1
<1>6. program \in Programs /\ ended \in BOOLEAN
  BY DEF ProgInit
<1> QED BY <1>1, <1>2, <1>4, <1>5, <1>6 DEF ProgTypeOK

\* Whatever the program and however many its workers, timers, requests and connections, its calls are
\* well formed, each request has the function its reply is for, and no timer of the examples has more
\* waits to report than it has run out (deadline_timer, async_pubsub.cpp:85).
THEOREM ProgramsTyped == ProgSpec => []ProgTypeOK
<1>1. ProgSpec => []TypeOK
  BY ProgramsAreApplications, TypeCorrect, PTL
<1>2. TypeOK /\ ProgTypeOK /\ [ProgNext]_progVars => ProgTypeOK'
  BY ProgStepTyped
<1> QED BY <1>1, <1>2, ProgInitTyped, PTL DEF ProgSpec

\* The calls that a program makes, in whatever function.
Vocabulary(p) ==
    UNION {UNION {Range(body) : body \in Program[p][f]} : f \in DOMAIN Program[p]}

\* What is still to be made is of the program's table.
ScriptOfProgram == Range(script) \subseteq Vocabulary(program)

LEMMA RangeConcat ==
    ASSUME NEW S, NEW s \in Seq(S), NEW t \in Seq(S)
    PROVE  Range(s \o t) = Range(s) \cup Range(t)
<1>1. /\ \A i \in 1 .. Len(s) + Len(t) : (s \o t)[i] = IF i <= Len(s) THEN s[i] ELSE t[i - Len(s)]
      /\ DOMAIN (s \o t) = 1 .. Len(s) + Len(t) /\ Len(s) \in Nat /\ Len(t) \in Nat
      /\ DOMAIN s = 1 .. Len(s) /\ DOMAIN t = 1 .. Len(t)
  BY ConcatProperties, LenProperties
<1>2. ASSUME NEW x \in Range(s \o t) PROVE x \in Range(s) \cup Range(t)
  <2>1. PICK i \in 1 .. Len(s) + Len(t) : x = (s \o t)[i]
    BY <1>1, <1>2 DEF Range
  <2>2. CASE i <= Len(s)
    BY <1>1, <2>1, <2>2 DEF Range
  <2>3. CASE i > Len(s)
    <3>1. i - Len(s) \in 1 .. Len(t) /\ x = t[i - Len(s)]
      BY <1>1, <2>1, <2>3
    <3> QED BY <1>1, <3>1 DEF Range
  <2> QED BY <1>1, <2>1, <2>2, <2>3
<1>3. ASSUME NEW x \in Range(s) PROVE x \in Range(s \o t)
  <2>1. PICK i \in 1 .. Len(s) : x = s[i]
    BY <1>1, <1>3 DEF Range
  <2>2. i \in 1 .. Len(s) + Len(t) /\ (s \o t)[i] = x
    BY <1>1, <2>1
  <2> QED BY <1>1, <2>2 DEF Range
<1>4. ASSUME NEW x \in Range(t) PROVE x \in Range(s \o t)
  <2>1. PICK i \in 1 .. Len(t) : x = t[i]
    BY <1>1, <1>4 DEF Range
  <2>2. i + Len(s) \in 1 .. Len(s) + Len(t) /\ (s \o t)[i + Len(s)] = x
    BY <1>1, <2>1
  <2> QED BY <1>1, <2>2 DEF Range
<1> QED BY <1>2, <1>3, <1>4

LEMMA RangeOfTwo == \A s, t \in Seq(Instruction) : Range(s \o t) = Range(s) \cup Range(t)
<1> SUFFICES ASSUME NEW s \in Seq(Instruction), NEW t \in Seq(Instruction)
             PROVE  Range(s \o t) = Range(s) \cup Range(t)
  OBVIOUS
<1> QED BY RangeConcat

LEMMA RangeOfParts ==
    ASSUME NEW s \in Seq(Instruction)
    PROVE  /\ s # <<>> => Head(s) \in Range(s) /\ Range(Tail(s)) \subseteq Range(s)
           /\ Range(<<>>) = {}
<1>1. Range(<<>>) = {}
  BY DEF Range
<1>2. ASSUME s # <<>> PROVE Head(s) \in Range(s) /\ Range(Tail(s)) \subseteq Range(s)
  BY <1>2, RangeTail
<1> QED BY <1>1, <1>2

\* A function called back puts its calls before what there was.
LEMMA RangeAfter ==
    ASSUME NEW p \in Programs, NEW f, NEW left \in Seq(Instruction), NEW s \in After(p, f, left)
    PROVE  \/ f \notin DOMAIN Program[p] /\ s = left
           \/ f \in DOMAIN Program[p] /\ \E body \in Program[p][f] :
                 /\ body \in Seq(Instruction) /\ s = body \o left
                 /\ Range(s) = Range(body) \cup Range(left)
<1>1. CASE f \in DOMAIN Program[p]
  <2>1. PICK body \in Program[p][f] : s = body \o left
    BY <1>1 DEF After
  <2>2. body \in Seq(Instruction)
    BY <1>1, BodiesTyped
  <2> QED BY <1>1, <2>1, <2>2, RangeConcat
<1>2. CASE f \notin DOMAIN Program[p]
  BY <1>2 DEF After
<1> QED BY <1>1, <1>2

\* What a call does to the client and what comes back to the program.
LEMMA StatementCases ==
    ASSUME TypeOK, ProgTypeOK, Statement
    PROVE  /\ script # <<>> /\ Head(script) \in Instruction /\ Head(script) \in Range(script)
           /\ Tail(script) \in Seq(Instruction) /\ Range(Tail(script)) \subseteq Range(script)
           /\ UNCHANGED <<program, expiries>>
           /\ \/ state \notin Head(script).in /\ PassOver(Tail(script))
              \/ Head(script).call = "connect" /\ CallConnect(Tail(script))
              \/ /\ Head(script).call = "disconnect" /\ state \in Head(script).in
                 /\ CallDisconnect(Head(script).arg, Tail(script))
              \/ /\ Head(script).call = "command" /\ Head(script).arg \in ReplyFunctions
                 /\ CallRequest(Command, state = "Connected", Head(script).arg, Tail(script))
              \/ /\ Head(script).call = "publish" /\ state \in Head(script).in
                 /\ CallRequest(Publish, state = "Connected", None, Tail(script))
              \/ /\ Head(script).call = "subscribe"
                 /\ \E ch \in Channels : CallRequest(Subscribe(ch), Subscribable, None, Tail(script))
              \/ /\ Head(script).call = "wait" /\ Head(script).arg \in Timers
                 /\ WaitOrCancel(Head(script).arg, TRUE, Tail(script))
              \/ /\ Head(script).call = "cancel" /\ Head(script).arg \in Timers
                 /\ WaitOrCancel(Head(script).arg, FALSE, Tail(script))
              \/ Head(script).call = "exit" /\ End
<1>1. script # <<>> /\ script \in Seq(Instruction) /\ UNCHANGED <<program, expiries>>
  BY DEF Statement, ProgTypeOK
<1>2. Head(script) \in Instruction /\ Tail(script) \in Seq(Instruction)
  BY <1>1, HeadOfScript
<1>3. Head(script) \in Range(script) /\ Range(Tail(script)) \subseteq Range(script)
  BY <1>1, RangeOfParts
<1> DEFINE s == Head(script)
           left == Tail(script)
<1>4. s.call = "command" => s.arg \in ReplyFunctions
  BY <1>2 DEF Instruction
<1>5. s.call \in {"wait", "cancel"} => s.arg \in Timers
  BY <1>2 DEF Instruction
<1>6. \/ state \notin s.in /\ PassOver(left)
      \/ /\ state \in s.in
         /\ \/ s.call = "connect"    /\ CallConnect(left)
            \/ s.call = "disconnect" /\ CallDisconnect(s.arg, left)
            \/ s.call = "command"    /\ CallRequest(Command, state = "Connected", s.arg, left)
            \/ s.call = "publish"    /\ CallRequest(Publish, state = "Connected", None, left)
            \/ s.call = "subscribe"
               /\ \E ch \in Channels : s.arg = ch /\ CallRequest(Subscribe(ch), Subscribable, None, left)
            \/ s.call = "wait"       /\ WaitOrCancel(s.arg, TRUE, left)
            \/ s.call = "cancel"     /\ WaitOrCancel(s.arg, FALSE, left)
            \/ s.call = "exit"       /\ End
  BY DEF Statement
<1> HIDE DEF s, left
<1>7. \/ state \notin s.in /\ PassOver(left)
      \/ s.call = "connect" /\ CallConnect(left)
      \/ s.call = "disconnect" /\ state \in s.in /\ CallDisconnect(s.arg, left)
      \/ /\ s.call = "command" /\ s.arg \in ReplyFunctions
         /\ CallRequest(Command, state = "Connected", s.arg, left)
      \/ s.call = "publish" /\ state \in s.in /\ CallRequest(Publish, state = "Connected", None, left)
      \/ s.call = "subscribe" /\ \E ch \in Channels : CallRequest(Subscribe(ch), Subscribable, None, left)
      \/ s.call = "wait" /\ s.arg \in Timers /\ WaitOrCancel(s.arg, TRUE, left)
      \/ s.call = "cancel" /\ s.arg \in Timers /\ WaitOrCancel(s.arg, FALSE, left)
      \/ s.call = "exit" /\ End
  BY <1>4, <1>5, <1>6
<1> QED BY <1>1, <1>2, <1>3, <1>7 DEF s, left

\* How the calls still to be made change.
LEMMA ScriptSteps ==
    ASSUME TypeOK, ProgTypeOK, [ProgNext]_progVars
    PROVE  /\ program' = program
           /\ \/ script' = script \/ script' = <<>>
              \/ script # <<>> /\ script' = Tail(script)
              \/ script # <<>> /\ \E f \in {"connected", "error"} : script' \in After(program, f, Tail(script))
              \/ script = <<>> /\ \E f : script' \in After(program, f, <<>>)
<1>1. CASE Statement
  <2>1. program' = program /\ script # <<>>
    BY <1>1, StatementCases
  <2>2. CASE CallConnect(Tail(script))
    BY <2>1, <2>2, CallBackIs DEF CallConnect
  <2>4. CASE \/ PassOver(Tail(script)) \/ CallDisconnect(Head(script).arg, Tail(script))
             \/ WaitOrCancel(Head(script).arg, TRUE, Tail(script))
             \/ WaitOrCancel(Head(script).arg, FALSE, Tail(script)) \/ End
    BY <2>1, <2>4 DEF PassOver, CallDisconnect, WaitOrCancel, End
  <2>5. CASE \/ CallRequest(Command, state = "Connected", Head(script).arg, Tail(script))
             \/ CallRequest(Publish, state = "Connected", None, Tail(script))
             \/ \E ch \in Channels : CallRequest(Subscribe(ch), Subscribable, None, Tail(script))
    BY <2>1, <2>5, CallBackIs DEF CallRequest
  <2> QED BY <1>1, <2>2, <2>4, <2>5, StatementCases
<1>2. CASE HandlerRuns
  BY <1>2, RunsOrCallsBack, CallBackIs DEF HandlerRuns, AtRest
<1>3. CASE FreeCall
  BY <1>3 DEF FreeCall
<1>4. CASE \E t \in Timers : Expire(t) \/ OnTimer(t)
  BY <1>4, CallBackIs DEF Expire, OnTimer, AtRest
<1>5. CASE (Environment /\ UNCHANGED programVars) \/ UNCHANGED progVars
  BY <1>5 DEF programVars, progVars
<1> QED BY <1>1, <1>2, <1>3, <1>4, <1>5 DEF ProgNext

\* One attempt to connect at a time, and the socket as the client takes it to be.
OneAttempt ==
    /\ state = "Connecting" <=> connectOps # <<>>
    /\ Len(connectOps) <= 1
    /\ ConnectedImpliesOpen
    /\ \A i \in DOMAIN connectOps : connectOps[i] = "ok" => link \in {"up", "dropped"}

LEMMA OneAttemptSame ==
    ASSUME OneAttempt, UNCHANGED connectOps, state' = "Connecting" <=> state = "Connecting",
           state' \in {"Connected", "Subscribed"} => state \in {"Connected", "Subscribed"},
           link \in {"up", "dropped"} => link' \in {"up", "dropped"}
    PROVE  OneAttempt'
BY DEF OneAttempt, ConnectedImpliesOpen

\* A call keeps to one attempt, if only a connected client is disconnected.
LEMMA OneAttemptCall ==
    ASSUME TypeOK, OneAttempt,
           \/ Connect \/ (Disconnect /\ Subscribable) \/ Command \/ Publish
           \/ \E ch \in Channels : Subscribe(ch)
    PROVE  OneAttempt'
<1>0. connectOps \in Seq({"pending", "ok", "error", "aborted"})
  BY DEF TypeOK, EnvTypeOK
<1>1. CASE Connect
  <2>1. CASE state \in {"Unconnected", "Closed"}
    <3>1. connectOps = <<>> /\ state' = "Connecting" /\ StartConnect
      BY <1>1, <2>1 DEF Connect, OneAttempt
    <3>2. PICK o \in {"pending", "error"} : connectOps' = Append(<<>>, o)
      BY <3>1 DEF StartConnect
    <3>3. connectOps' = <<o>>
      BY <3>2
    <3> QED BY <3>1, <3>3 DEF OneAttempt, ConnectedImpliesOpen
  <2>2. CASE state \notin {"Unconnected", "Closed"}
    <3>1. UNCHANGED <<state, link, connectOps>>
      BY <1>1, <2>2 DEF Connect, linkVars
    <3> QED BY <3>1, OneAttemptSame
  <2> QED BY <2>1, <2>2
<1>2. CASE Disconnect /\ Subscribable
  <2>1. connectOps = <<>> /\ state' = "Closed" /\ CloseSocket
    BY <1>2 DEF Disconnect, Close, Subscribable, OneAttempt
  <2>2. connectOps' = <<>>
    BY <2>1 DEF CloseSocket
  <2> QED BY <2>1, <2>2 DEF OneAttempt, ConnectedImpliesOpen
<1>3. CASE Command \/ Publish
  <2>1. UNCHANGED <<state, link, connectOps>>
    BY <1>3 DEF Command, Publish, Request1, envVars, linkVars, opVars
  <2> QED BY <2>1, OneAttemptSame
<1>4. CASE \E ch \in Channels : Subscribe(ch)
  <2>1. PICK ch \in Channels : Subscribe(ch)
    BY <1>4
  <2>2. UNCHANGED <<link, connectOps>>
    BY <2>1 DEF Subscribe, envVars, linkVars, opVars
  <2>3. state' = state \/ (state' = "Subscribed" /\ state \in {"Connected", "Subscribed"})
    BY <2>1 DEF Subscribe, Subscribable
  <2> QED BY <2>2, <2>3, OneAttemptSame
<1> QED BY <1>1, <1>2, <1>3, <1>4

LEMMA OneAttemptHandler ==
    ASSUME TypeOK, OneAttempt, Handler
    PROVE  OneAttempt'
<1>1. CASE HandleAsyncConnect
  <2>0. connectOps \in Seq({"pending", "ok", "error", "aborted"})
    BY DEF TypeOK, EnvTypeOK
  <2>1. PICK i \in DOMAIN connectOps : /\ connectOps' = RemoveAt(connectOps, i)
                                       /\ IF connectOps[i] = "ok" THEN state' = "Connected"
                                                                  ELSE state' = "Unconnected"
    BY <1>1 DEF HandleAsyncConnect
  <2>2. UNCHANGED link
    BY <1>1 DEF HandleAsyncConnect, linkVars
  <2>3. Len(connectOps) = 1 /\ i = 1
    <3>1. DOMAIN connectOps = 1 .. Len(connectOps) /\ Len(connectOps) \in Nat
      BY <2>0, LenProperties
    <3>2. i \in 1 .. Len(connectOps) /\ Len(connectOps) <= 1
      BY <3>1 DEF OneAttempt
    <3> QED BY <3>1, <3>2
  <2>4. connectOps' = <<>>
    <3>1. RemoveAt(connectOps, i) \in Seq({"pending", "ok", "error", "aborted"}) /\ Len(RemoveAt(connectOps, i)) = 0
      BY <2>0, <2>3, RemoveAtType
    <3> QED BY <2>1, <3>1, EmptySeq
  <2>5. state' = "Connected" => link \in {"up", "dropped"}
    BY <2>1 DEF OneAttempt
  <2>6. state' \in {"Connected", "Unconnected"}
    BY <2>1
  <2> QED BY <2>2, <2>4, <2>5, <2>6 DEF OneAttempt, ConnectedImpliesOpen
<1>2. CASE \/ DoAsyncCommand \/ CallMessageHandler \/ AsyncWrite \/ ConnectHandlerReturns
           \/ AsyncRead \/ ReadLoop
  <2>1. UNCHANGED <<state, link, connectOps>>
    BY <1>2 DEF DoAsyncCommand, CallMessageHandler, AsyncWrite, ConnectHandlerReturns, AsyncRead,
        ReadLoop, ReadAgain, ParseChunk, HandlerReturns, ErrorHandlerReturns, envVars, linkVars, opVars
  <2> QED BY <2>1, OneAttemptSame
<1> QED BY <1>1, <1>2 DEF Handler

LEMMA OneAttemptEnvironment ==
    ASSUME TypeOK, OneAttempt, Environment
    PROVE  OneAttempt'
<1>1. UNCHANGED state
  BY DEF Environment, clientVars
<1>2. CASE ConnectDone
  <2>0. connectOps \in Seq({"pending", "ok", "error", "aborted"})
    BY DEF TypeOK, EnvTypeOK
  <2>1. PICK i \in DOMAIN connectOps :
             \/ link' = "up" /\ connectOps' = [connectOps EXCEPT ![i] = "ok"]
             \/ link' = link /\ connectOps' = [connectOps EXCEPT ![i] = "error"]
    BY <1>2 DEF ConnectDone
  <2>2. PICK o \in {"ok", "error"} : /\ connectOps' = [connectOps EXCEPT ![i] = o]
                                     /\ o = "ok" => link' = "up"
                                     /\ link' \in {link, "up"}
    BY <2>1
  <2>3. connectOps' \in Seq({"pending", "ok", "error", "aborted"}) /\ Len(connectOps') = Len(connectOps)
        /\ DOMAIN connectOps' = DOMAIN connectOps
    BY <2>0, <2>2, ReplaceType
  <2>4. connectOps # <<>> /\ connectOps' # <<>>
    BY <2>0, <2>3, EmptySeq, LenProperties
  <2>5. \A j \in DOMAIN connectOps : connectOps'[j] = IF j = i THEN o ELSE connectOps[j]
    BY <2>0, <2>2
  <2> QED BY <1>1, <2>2, <2>3, <2>4, <2>5 DEF OneAttempt, ConnectedImpliesOpen
<1>3. CASE LinkDrops
  <2>1. UNCHANGED connectOps /\ link' = "dropped"
    BY <1>3 DEF LinkDrops, opVars
  <2> QED BY <1>1, <2>1, OneAttemptSame
<1>4. CASE \/ WriteSome \/ WriteFails \/ ReadSome \/ ReadFails \/ ServerReply
           \/ \E ch \in Channels : ServerPublish(ch, Audience(ch))
  <2>1. UNCHANGED <<link, connectOps>>
    BY <1>4 DEF WriteSome, WriteFails, ReadSome, ReadFails, ServerReply, ServerPublish, linkVars, opVars
  <2> QED BY <1>1, <2>1, OneAttemptSame
<1> QED BY <1>2, <1>3, <1>4 DEF Environment

\* async_pubsub.cpp:147 and :104: neither half of it disconnects a client that is not connected.
LEMMA DisconnectsConnected ==
    ASSUME NEW p \in {"publisher", "subscriber"}, NEW s \in Vocabulary(p), s.call = "disconnect"
    PROVE  s.in \subseteq {"Connected", "Subscribed"}
<1> DEFINE Careful(body) == \A x \in Range(body) : x.call = "disconnect" => x.in \subseteq {"Connected", "Subscribed"}
<1>1. /\ \A a : Range(<<a>>) = {a}
      /\ \A a, b : Range(<<a, b>>) = {a, b}
  BY DEF Range
<1>2. /\ \A call, arg : Do(call, arg).call = call
      /\ \A states, call, arg : If(states, call, arg).call = call /\ If(states, call, arg).in = states
  BY DEF Do, If
<1>3. Careful(ConnectPublisher) /\ Careful(ConnectSubscriber) /\ Careful(OnPublishTimeout)
  BY <1>1, <1>2 DEF ConnectPublisher, ConnectSubscriber, OnPublishTimeout, CallLater
<1>4. /\ \A t \in Timers : Careful(<<CallLater(t)>>)
      /\ Careful(<<Do("subscribe", Topic), Do("subscribe", Pattern)>>)
  BY <1>1, <1>2 DEF CallLater
<1>5. PICK f \in DOMAIN Program[p] : \E body \in Program[p][f] : s \in Range(body)
  BY DEF Vocabulary
<1>6. PICK body \in Program[p][f] : s \in Range(body)
  BY <1>5
<1>7. "connectTimer" \in Timers /\ "publishTimer" \in Timers
  BY DEF Timers
<1>8. Careful(body)
  <2>1. CASE p = "publisher"
    <3>1. f \in DOMAIN Publisher /\ body \in Publisher[f]
      BY <2>1, Tables
    <3> HIDE DEF Careful
    <3> QED BY <1>3, <1>4, <1>7, <3>1, PublisherTable
  <2>2. CASE p = "subscriber"
    <3>1. f \in DOMAIN Subscriber /\ body \in Subscriber[f]
      BY <2>2, Tables
    <3> HIDE DEF Careful
    <3> QED BY <1>3, <1>4, <1>7, <3>1, SubscriberTable
  <2> QED BY <2>1, <2>2
<1> QED BY <1>6, <1>8

\* The invariant of the programs that connect again.
AttemptInv ==
    program \in {"publisher", "subscriber"} => OneAttempt

LEMMA ScriptOfProgramKept ==
    ASSUME TypeOK, ProgTypeOK, ScriptOfProgram, [ProgNext]_progVars
    PROVE  ScriptOfProgram'
<1>1. program' = program /\ program \in Programs /\ script \in Seq(Instruction)
  BY ScriptSteps DEF ProgTypeOK
<1>2. ASSUME NEW f, NEW left \in Seq(Instruction), Range(left) \subseteq Vocabulary(program),
             NEW s \in After(program, f, left)
      PROVE  Range(s) \subseteq Vocabulary(program)
  <2>1. \A g \in DOMAIN Program[program] : \A body \in Program[program][g] : Range(body) \subseteq Vocabulary(program)
    BY DEF Vocabulary
  <2> QED BY <1>1, <1>2, <2>1, RangeAfter
<1>3. <<>> \in Seq(Instruction) /\ Range(<<>>) = {}
  BY EmptySeq, RangeOfParts
<1>4. script # <<>> => /\ Tail(script) \in Seq(Instruction) /\ Range(Tail(script)) \subseteq Range(script)
  BY <1>1, HeadOfScript, RangeOfParts
<1>5. Range(script) \subseteq Vocabulary(program)
  BY DEF ScriptOfProgram
<1>6. Range(script') \subseteq Vocabulary(program)
  <2>1. CASE script' = script \/ script' = <<>>
    BY <1>3, <1>5, <2>1
  <2>2. CASE script # <<>> /\ script' = Tail(script)
    BY <1>4, <1>5, <2>2
  <2>3. CASE script # <<>> /\ \E f : script' \in After(program, f, Tail(script))
    BY <1>2, <1>4, <1>5, <2>3
  <2>4. CASE \E f : script' \in After(program, f, <<>>)
    BY <1>2, <1>3, <2>4
  <2> QED BY <2>1, <2>2, <2>3, <2>4, ScriptSteps
<1> QED BY <1>1, <1>6 DEF ScriptOfProgram

LEMMA ScriptOfProgramInit ==
    ASSUME ProgInit PROVE ScriptOfProgram
<1>1. "main" \in DOMAIN Program[program] /\ script \in Program[program]["main"]
  <2>1. \A p \in DOMAIN Program : "main" \in DOMAIN Program[p]
    BY DEF Program, AsyncTimeout, AsyncSetGet, AsyncSetGet2, Benchmark, Publisher, Subscriber
  <2> QED BY <2>1, KnownPrograms DEF ProgInit
<1> QED BY <1>1 DEF ScriptOfProgram, Vocabulary

LEMMA AttemptKept ==
    ASSUME TypeOK, ProgTypeOK, ScriptOfProgram, AttemptInv, [ProgNext]_progVars
    PROVE  AttemptInv'
<1>1. program' = program /\ ScriptOfProgram'
  BY ScriptSteps, ScriptOfProgramKept
<1> SUFFICES ASSUME program \in {"publisher", "subscriber"}, OneAttempt
             PROVE  OneAttempt'
  BY <1>1 DEF AttemptInv
<1>2. CASE Statement
  <2> DEFINE s == Head(script)
  <2>1. /\ s.call = "disconnect" => s.in \subseteq {"Connected", "Subscribed"}
        /\ \/ UNCHANGED vars \/ Connect \/ (s.call = "disconnect" /\ state \in s.in /\ Disconnect)
           \/ Command \/ Publish \/ \E ch \in Channels : Subscribe(ch)
    <3>1. s \in Vocabulary(program)
      BY <1>2, StatementCases DEF ScriptOfProgram
    <3>2. s.call = "disconnect" => s.in \subseteq {"Connected", "Subscribed"}
      BY <3>1, DisconnectsConnected
    <3>3. \/ UNCHANGED vars \/ Connect \/ (s.call = "disconnect" /\ state \in s.in /\ Disconnect)
          \/ Command \/ Publish \/ \E ch \in Channels : Subscribe(ch)
      BY <1>2, StatementCases DEF PassOver, CallConnect, CallDisconnect, CallRequest, WaitOrCancel, End
    <3> QED BY <3>2, <3>3
  <2> HIDE DEF s
  <2>2. CASE s.call = "disconnect" /\ state \in s.in /\ Disconnect
    <3>1. Subscribable
      BY <2>1, <2>2 DEF Subscribable
    <3> QED BY <2>2, <3>1, OneAttemptCall
  <2>3. CASE UNCHANGED vars
    <3>1. UNCHANGED <<state, link, connectOps>>
      BY <2>3 DEF vars, clientVars, envVars, linkVars, opVars
    <3> QED BY <3>1, OneAttemptSame
  <2>4. CASE Connect \/ Command \/ Publish \/ \E ch \in Channels : Subscribe(ch)
    BY <2>4, OneAttemptCall
  <2> QED BY <2>1, <2>2, <2>3, <2>4
<1>3. CASE HandlerRuns
  BY <1>3, HandlerRunsIsHandler, OneAttemptHandler
<1>4. CASE FreeCall
  BY <1>4 DEF FreeCall
<1>5. CASE Environment
  BY <1>5, OneAttemptEnvironment
<1>6. CASE UNCHANGED vars
  <2>1. UNCHANGED <<state, link, connectOps>>
    BY <1>6 DEF vars, clientVars, envVars, linkVars, opVars
  <2> QED BY <2>1, OneAttemptSame
<1>7. (\E t \in Timers : Expire(t) \/ OnTimer(t)) \/ UNCHANGED progVars => UNCHANGED vars
  BY DEF Expire, OnTimer, progVars
<1> QED BY <1>2, <1>3, <1>4, <1>5, <1>6, <1>7 DEF ProgNext

\* Every call the program has yet to make is of its table, and is well formed.
THEOREM ScriptsKept == ProgSpec => [](TypeOK /\ ProgTypeOK /\ ScriptOfProgram)
<1>1. ProgSpec => [](TypeOK /\ ProgTypeOK)
  BY ProgramsAreApplications, TypeCorrect, ProgramsTyped, PTL
<1>2. ProgInit => ScriptOfProgram
  BY ScriptOfProgramInit
<1>3. TypeOK /\ ProgTypeOK /\ ScriptOfProgram /\ [ProgNext]_progVars => ScriptOfProgram'
  BY ScriptOfProgramKept
<1> QED BY <1>1, <1>2, <1>3, PTL DEF ProgSpec

\* The publisher and the subscriber (async_pubsub.cpp:52-142) disconnect a client that is connected
\* and no other, and connect() starts nothing while an attempt is under way (redisasyncclient.cpp:45):
\* the client is Connecting exactly while it has its one attempt.
THEOREM AttemptsKept == ProgSpec => []AttemptInv
<1>1. ProgInit => AttemptInv
  <2> SUFFICES ASSUME ProgInit PROVE AttemptInv
    OBVIOUS
  <2>1. state = "Unconnected" /\ connectOps = <<>>
    BY DEF ProgInit, Init, EnvInit
  <2> QED BY <2>1, ScriptOfProgramInit DEF AttemptInv, OneAttempt, ConnectedImpliesOpen
<1>2. TypeOK /\ ProgTypeOK /\ ScriptOfProgram /\ AttemptInv /\ [ProgNext]_progVars => AttemptInv'
  BY AttemptKept
<1> QED BY <1>1, <1>2, ScriptsKept, PTL DEF ProgSpec

\* The publisher and the subscriber of async_pubsub.cpp connect again from inside of the error
\* handler, which one lost connection calls twice; still they have one attempt under way at a time,
\* and isConnected is true to them only of a socket that was connected.
THEOREM OneAttemptAtATime == ProgSpec => []ReconnectsOnce
<1>1. AttemptInv => ReconnectsOnce
  BY DEF AttemptInv, OneAttempt, ReconnectsOnce
<1> QED BY <1>1, AttemptsKept, PTL

-----------------------------------------------------------------------------
(* The programs that connect once: async_set_get, async_set_get2 and the   *)
(* benchmark.                                                              *)

ConnectsOnce == {"async_set_get", "async_set_get2", "benchmark"}

\* Which function a handler of the client calls.
LEMMA HandlerCalls ==
    ASSUME HandlerRuns
    PROVE  /\ UNCHANGED <<program, timers, onReply, expiries, ended>> /\ script = <<>>
           /\ \/ script' = script
              \/ frame' # "handler" /\ script' \in After(program, "error", <<>>)
              \/ /\ HandleAsyncConnect /\ connectOps' = Tail(connectOps)
                 /\ script' \in After(program, Outcome[connectOps[1]], <<>>)
              \/ /\ ParseChunk /\ frame' = "handler"
                 /\ script' \in After(program, onReply[Head(handlers)], <<>>)
<1>0. UNCHANGED <<program, timers, onReply, expiries, ended>> /\ script = <<>>
  BY DEF HandlerRuns, AtRest
<1>1. CASE Silent
  BY <1>0, <1>1 DEF Silent
<1>2. CASE Wrote
  BY <1>0, <1>2, CallBackIs DEF Wrote, AsyncWrite, loopVars
<1>3. CASE HandledConnect
  BY <1>0, <1>3, CallBackIs DEF HandledConnect
<1>4. CASE HandledRead
  <2>1. frame' # "handler"
    BY <1>4 DEF HandledRead, AsyncRead
  <2> QED BY <1>0, <1>4, <2>1, CallBackIs DEF HandledRead
<1>5. CASE Parsed
  <2>1. frame' \in {"parse", "handler", "error", "none"}
    BY <1>5, FrameAfterParsing DEF Parsed
  <2> QED BY <1>0, <1>5, <2>1, CallBackIs DEF Parsed
<1> QED BY <1>1, <1>2, <1>3, <1>4, <1>5 DEF HandlerRuns

\* What the functions of these programs call: only main connects, and none disconnects.
LEMMA CallsOnce ==
    ASSUME NEW p \in ConnectsOnce, NEW f \in DOMAIN Program[p], NEW body \in Program[p][f]
    PROVE  /\ f = "main" => body = <<Do("connect", None)>>
           /\ f # "main" => \A s \in Range(body) : s.call \in {"command", "wait", "exit"}
           /\ f \in {"refused", "aborted", "error"} => \A s \in Range(body) : s.call = "exit"
<1> DEFINE Plain(b) == \A s \in Range(b) : s.call \in {"command", "wait", "exit"}
<1>1. Range(<<>>) = {} /\ \A a : Range(<<a>>) = {a}
  BY DEF Range
<1>2. \A call, arg : Do(call, arg).call = call
  BY DEF Do, If
<1>3. /\ \A h : Plain(<<Do("command", h)>>)
      /\ Plain(Exit) /\ Plain(Throw) /\ Plain(Work) /\ Plain(<<>>)
      /\ \A s \in Range(Exit) \cup Range(Throw) : s.call = "exit"
  BY <1>1, <1>2 DEF Exit, Throw, Work, Set
<1>4. Plain(StartWorkers)
  <2>1. /\ [w \in 1 .. Workers |-> Set] \in Seq(Instruction) /\ ResetTimeout \in Seq(Instruction)
    BY StartWorkersTyped, InstructionsOf
  <2>2. Range(StartWorkers) = Range([w \in 1 .. Workers |-> Set]) \cup Range(ResetTimeout)
    BY <2>1, RangeConcat DEF StartWorkers
  <2>3. Range([w \in 1 .. Workers |-> Set]) \subseteq {Set}
    BY DEF Range
  <2>4. Range(ResetTimeout) = {CallLater("timer")} /\ CallLater("timer").call = "wait" /\ Set.call = "command"
    BY <1>1, <1>2 DEF ResetTimeout, CallLater, Set
  <2> QED BY <2>2, <2>3, <2>4
<1>5. Plain(ResetTimeout \o <<Do("command", "printOPS")>>)
  <2>1. "printOPS" \in ReplyFunctions
    BY DEF ReplyFunctions
  <2>2. ResetTimeout \in Seq(Instruction) /\ <<Do("command", "printOPS")>> \in Seq(Instruction)
    BY <2>1, InstructionsOf
  <2>3. Range(ResetTimeout \o <<Do("command", "printOPS")>>) =
           Range(ResetTimeout) \cup Range(<<Do("command", "printOPS")>>)
    BY <2>2, RangeConcat
  <2>4. Plain(ResetTimeout) /\ Plain(<<Do("command", "printOPS")>>)
    BY <1>1, <1>2 DEF ResetTimeout, CallLater
  <2> QED BY <2>3, <2>4
<1>6. CASE p \in {"async_set_get", "async_set_get2"}
  <2>1. f \in DOMAIN AsyncSetGet /\ body \in AsyncSetGet[f]
    BY <1>6, Tables, AsyncSetGet2Table
  <2> HIDE DEF Plain
  <2>2. /\ f = "main" => body = <<Do("connect", None)>>
        /\ f # "main" => Plain(body)
        /\ f \in {"refused", "aborted", "error"} => \A s \in Range(body) : s.call = "exit"
    BY <1>3, <2>1, AsyncSetGetTable
  <2> QED BY <2>2 DEF Plain
<1>7. CASE p = "benchmark"
  <2>1. f \in DOMAIN Benchmark /\ body \in Benchmark[f]
    BY <1>7, Tables
  <2> HIDE DEF Plain
  <2>2. /\ f = "main" => body = <<Do("connect", None)>>
        /\ f # "main" => Plain(body)
        /\ f \in {"refused", "aborted", "error"} => \A s \in Range(body) : s.call = "exit"
    BY <1>3, <1>4, <1>5, <2>1, BenchmarkTable
  <2> QED BY <2>2 DEF Plain
<1> QED BY <1>6, <1>7 DEF ConnectsOnce

LEMMA AfterOnce ==
    ASSUME program \in ConnectsOnce, program \in Programs, NEW f, f # "main", NEW left \in Seq(Instruction),
           NEW s \in After(program, f, left), NEW x \in Range(s)
    PROVE  /\ x.call \in {"command", "wait", "exit"} \/ x \in Range(left)
           /\ f \in {"refused", "aborted", "error"} => x.call = "exit" \/ x \in Range(left)
<1>1. CASE f \notin DOMAIN Program[program] /\ s = left
  BY <1>1
<1>2. CASE f \in DOMAIN Program[program] /\ \E body \in Program[program][f] : Range(s) = Range(body) \cup Range(left)
  <2>1. PICK body \in Program[program][f] : Range(s) = Range(body) \cup Range(left)
    BY <1>2
  <2>2. x \in Range(body) \/ x \in Range(left)
    BY <2>1
  <2>3. CASE x \in Range(left)
    BY <2>3
  <2>4. CASE x \in Range(body)
    BY <1>2, <2>4, CallsOnce
  <2> QED BY <2>2, <2>3, <2>4
<1>3. \/ f \notin DOMAIN Program[program] /\ s = left
      \/ f \in DOMAIN Program[program] /\ \E body \in Program[program][f] :
            /\ body \in Seq(Instruction) /\ s = body \o left
            /\ Range(s) = Range(body) \cup Range(left)
  BY RangeAfter, SMTT(30)
<1> QED BY <1>1, <1>2, <1>3

\* It connects first thing.
Starting ==
    /\ script = <<Do("connect", None)>>
    /\ state = "Unconnected" /\ connectOps = <<>> /\ readOps = <<>> /\ frame = "none"

\* Before it is connected it has asked for nothing and waits for no timer.
NotYet ==
    /\ onReply = <<>>
    /\ \A t \in Timers : ~timers[t].waiting /\ timers[t].due = 0
    /\ \A s \in Range(script) : s.call \in {"connect", "exit"}

OnceInv ==
    /\ Starting \/ \A s \in Range(script) : s.call \in {"command", "wait", "exit"}
    /\ state # "Connected" => NotYet
    /\ told \in {"none", "Connected"} /\ "state" \notin reported
    /\ ConnInv /\ PairInv

TypesOfAll == TypeOK /\ TypeOK' /\ PairTyped /\ PairTyped' /\ SingleWriter /\ ProgTypeOK

LEMMA OnceStatement ==
    ASSUME TypesOfAll, OnceInv, program \in ConnectsOnce, Statement
    PROVE  OnceInv'
<1> USE DEF TypesOfAll
<1> DEFINE s == Head(script)
           left == Tail(script)
<1>1. /\ s \in Range(script) /\ left \in Seq(Instruction) /\ Range(left) \subseteq Range(script)
      /\ script # <<>> /\ program \in Programs
  BY StatementCases DEF ProgTypeOK
<1>2. Range(<<>>) = {} /\ \A a : Range(<<a>>) = {a}
  BY DEF Range
<1>3. UNCHANGED vars => ConnInv' /\ PairInv'
  <2>1. UNCHANGED vars => UNCHANGED <<connectOps, readOps, frame, link, handlers, state>>
    BY DEF vars, envVars, linkVars, opVars, clientVars, queueVars, loopVars
  <2> QED BY <2>1, ConnKept, PairSame DEF OnceInv
<1>4. CASE Starting
  <2>1. s = Do("connect", None) /\ left = <<>> /\ s.call = "connect"
    BY <1>4 DEF Starting, Do, If
  <2>2. NotYet /\ state = "Unconnected"
    BY <1>4 DEF OnceInv, Starting
  <2>3. PassOver(left) \/ CallConnect(left)
    BY <2>1, StatementCases
  <2> HIDE DEF left, s
  <2>4. CASE PassOver(left)
    <3>1. script' = <<>> /\ UNCHANGED <<state, told, reported, onReply, timers>>
      BY <2>1, <2>4 DEF PassOver, vars, clientVars, historyVars
    <3>2. UNCHANGED vars
      BY <2>4 DEF PassOver
    <3> QED BY <1>2, <1>3, <2>2, <3>1, <3>2 DEF OnceInv, NotYet
  <2>5. CASE CallConnect(left)
    <3>1. script' = <<>> /\ Connect /\ UNCHANGED <<onReply, timers, reported>>
      BY <2>1, <2>2, <2>5 DEF CallConnect, Connect
    <3>2. told' = told
      BY <2>2, <3>1 DEF Connect
    <3>3. ConnInv'
      BY <1>4, <3>1, ConnectAtRestConn DEF OnceInv, Starting
    <3>4. PairInv'
      BY <3>1, ConnectPair DEF OnceInv
    <3> QED BY <1>2, <2>2, <3>1, <3>2, <3>3, <3>4 DEF OnceInv, NotYet
  <2> QED BY <2>3, <2>4, <2>5
<1>5. CASE \A x \in Range(script) : x.call \in {"command", "wait", "exit"}
  <2>1. /\ s.call \in {"command", "wait", "exit"}
        /\ \A x \in Range(left) : x.call \in {"command", "wait", "exit"}
        /\ s.call \in {"command", "wait"} => state = "Connected"
        /\ \A x \in Range(left) : state # "Connected" => x.call \in {"connect", "exit"}
    BY <1>1, <1>5 DEF OnceInv, NotYet
  <2>2. \/ PassOver(left) \/ End
        \/ s.call = "command" /\ CallRequest(Command, state = "Connected", s.arg, left)
        \/ s.call = "wait" /\ WaitOrCancel(s.arg, TRUE, left)
    BY <2>1, StatementCases
  <2> HIDE DEF left, s
  <2>3. CASE PassOver(left)
    <3>1. script' = left /\ UNCHANGED <<state, told, reported, onReply, timers>>
      BY <2>3 DEF PassOver, vars, clientVars, historyVars
    <3>2. UNCHANGED vars
      BY <2>3 DEF PassOver
    <3> QED BY <1>3, <2>1, <3>1, <3>2 DEF OnceInv, NotYet
  <2>4. CASE End
    <3>1. script' = <<>> /\ UNCHANGED <<state, told, reported, onReply, timers>>
      BY <2>4 DEF End, vars, clientVars, historyVars
    <3>2. UNCHANGED vars
      BY <2>4 DEF End
    <3> QED BY <1>2, <1>3, <3>1, <3>2 DEF OnceInv, NotYet
  <2>5. CASE s.call = "command" /\ CallRequest(Command, state = "Connected", s.arg, left)
    <3>1. state = "Connected" /\ Command /\ script' = left
      BY <2>1, <2>5 DEF CallRequest
    <3>2. UNCHANGED <<state, told, reported>>
      BY <3>1 DEF Command, Request1
    <3>3. ConnInv' /\ PairInv'
      BY <3>1, CallConn, CommandPair DEF OnceInv
    <3> QED BY <2>1, <3>1, <3>2, <3>3 DEF OnceInv
  <2>6. CASE s.call = "wait" /\ WaitOrCancel(s.arg, TRUE, left)
    <3>1. state = "Connected" /\ script' = left /\ UNCHANGED <<state, told, reported>>
      BY <2>1, <2>6 DEF WaitOrCancel, vars, clientVars, historyVars
    <3>2. UNCHANGED vars
      BY <2>6 DEF WaitOrCancel
    <3> QED BY <1>3, <2>1, <3>1, <3>2 DEF OnceInv
  <2> QED BY <2>2, <2>3, <2>4, <2>5, <2>6
<1> QED BY <1>4, <1>5 DEF OnceInv

\* The handler that is called is one that was given with a request.
LEMMA FrontIsGiven ==
    ASSUME TypeOK, PairTyped, PairInv, handlers # <<>>
    PROVE  Head(handlers) \in 1 .. issued
<1>1. handlers \in Seq(Nat) /\ Len(handlers) \in Nat \ {0} /\ Len(strand) \in Nat /\ Len(delivered) \in Nat
  BY EmptySeq, NoneOf DEF TypeOK, PairTyped
<1>2. Head(handlers) = handlers[1] /\ handlers[1] = Popped + 1
  BY <1>1, HeadTailProperties DEF PairInv, HandlersPaired
<1>3. issued = (Popped + Len(handlers)) + Len(strand)
  BY DEF PairInv, HandlersPaired, Queued
<1>4. Popped \in Nat
  <2>1. frame = "handler" => Len(delivered) # 0
    BY NoneOf DEF PairInv, HandlersPaired, TypeOK
  <2> QED BY <1>1, <2>1 DEF Popped
<1> QED BY <1>1, <1>2, <1>3, <1>4

LEMMA HandlerReports ==
    ASSUME Handler
    PROVE  /\ told' \in {told, "Connected"}
           /\ \E what \in {"io", "refused", "parser"} : reported' \in {reported, reported \cup {what}}
<1>1. told' \in {told, "Connected"}
  BY DEF Handler, DoAsyncCommand, CallMessageHandler, AsyncWrite, HandleAsyncConnect,
      ConnectHandlerReturns, AsyncRead, ReadLoop, ReadAgain, ParseChunk, HandlerReturns,
      ErrorHandlerReturns, historyVars
<1>2. CASE \/ DoAsyncCommand \/ CallMessageHandler \/ AsyncWrite \/ HandleAsyncConnect
           \/ ConnectHandlerReturns \/ AsyncRead \/ ReadAgain \/ HandlerReturns \/ ErrorHandlerReturns
  <2>1. \E what \in {"io", "refused", "parser"} : reported' \in {reported, reported \cup {what}}
    BY <1>2 DEF DoAsyncCommand, CallMessageHandler, AsyncWrite, HandleAsyncConnect,
        ConnectHandlerReturns, AsyncRead, ReadAgain, HandlerReturns, ErrorHandlerReturns, historyVars, Report1
  <2> QED BY <1>1, <2>1
<1>3. CASE ParseChunk
  <2>1. PICK out \in Parse(Head(rest)) :
          /\ redisParser' = out.parser
          /\ CASE out.result = "Completed" ->
                    rest' = Remains(out.left) /\ DoProcessMessage(out.value)
               [] out.result = "Incompleted" ->
                    /\ rest' = Tail(rest)
                    /\ UNCHANGED <<frame, strand, singleShotMsgHandlers, delivered, reported>>
               [] out.result = "Error" ->
                    /\ rest' = <<>> /\ frame' = "none" /\ Report1("parser")
                    /\ UNCHANGED <<strand, singleShotMsgHandlers, delivered>>
    BY <1>3 DEF ParseChunk
  <2>2. out.result \in {"Completed", "Incompleted", "Error"}
    BY DEF Parse, OutOfStep
  <2>3. DoProcessMessage(out.value) => reported' = reported \/ reported' = reported \cup {"refused"}
    BY DEF DoProcessMessage, PostMessage, CallFront, Refuse, Report1
  <2>4. reported' = reported \/ reported' = reported \cup {"refused"} \/ reported' = reported \cup {"parser"}
    BY <2>1, <2>2, <2>3 DEF Report1
  <2> QED BY <1>1, <2>4
<1> QED BY <1>2, <1>3 DEF Handler, ReadLoop

LEMMA CallsTheFront ==
    ASSUME ParseChunk, frame' = "handler"
    PROVE  handlers # <<>> /\ rest # <<>>
<1>1. PICK out \in Parse(Head(rest)) :
          /\ redisParser' = out.parser
          /\ CASE out.result = "Completed" ->
                    rest' = Remains(out.left) /\ DoProcessMessage(out.value)
               [] out.result = "Incompleted" ->
                    /\ rest' = Tail(rest)
                    /\ UNCHANGED <<frame, strand, singleShotMsgHandlers, delivered, reported>>
               [] out.result = "Error" ->
                    /\ rest' = <<>> /\ frame' = "none" /\ Report1("parser")
                    /\ UNCHANGED <<strand, singleShotMsgHandlers, delivered>>
  BY DEF ParseChunk
<1>2. out.result \in {"Completed", "Incompleted", "Error"} /\ frame = "parse" /\ rest # <<>>
  BY DEF Parse, OutOfStep, ParseChunk
<1>3. DoProcessMessage(out.value)
  BY <1>1, <1>2
<1> QED BY <1>2, <1>3 DEF DoProcessMessage, PostMessage, CallFront, Refuse

LEMMA GivenFunction ==
    ASSUME ProgTypeOK, NEW n \in 1 .. issued
    PROVE  onReply[n] \in ReplyFunctions \cup {None}
<1>1. onReply \in Seq(ReplyFunctions \cup {None}) /\ Len(onReply) = issued
  BY DEF ProgTypeOK
<1> QED BY <1>1, ElementOfSeq

LEMMA OneOutcome ==
    ASSUME TypeOK, Len(connectOps) <= 1, HandleAsyncConnect
    PROVE  /\ connectOps[1] \in {"ok", "error", "aborted"} /\ connectOps' = <<>> /\ connectOps # <<>>
           /\ state' = IF connectOps[1] = "ok" THEN "Connected" ELSE "Unconnected"
<1>1. connectOps \in Seq({"pending", "ok", "error", "aborted"}) /\ Len(connectOps) \in Nat
      /\ DOMAIN connectOps = 1 .. Len(connectOps)
  BY LenProperties DEF TypeOK, EnvTypeOK
<1>2. PICK i \in DOMAIN connectOps : /\ connectOps[i] # "pending" /\ connectOps' = RemoveAt(connectOps, i)
                                     /\ state' = IF connectOps[i] = "ok" THEN "Connected" ELSE "Unconnected"
  BY DEF HandleAsyncConnect
<1>3. Len(connectOps) = 1 /\ i = 1
  BY <1>1, <1>2
<1>4. connectOps' = <<>>
  BY <1>1, <1>2, <1>3, RemovedAll
<1>5. connectOps[1] \in {"pending", "ok", "error", "aborted"}
  BY <1>1, <1>3, ElementOfSeq
<1> QED BY <1>2, <1>3, <1>4, <1>5, EmptySeq

LEMMA AtMostOneAttempt ==
    ASSUME TypeOK, ConnInv
    PROVE  Len(connectOps) <= 1
<1>1. Len(connectOps) + Len(readOps) + Running <= 1
  BY DEF ConnInv, OnePlace
<1> QED BY <1>1, PlaceTypes

LEMMA OnceHandler ==
    ASSUME TypesOfAll, OnceInv, program \in ConnectsOnce, HandlerRuns
    PROVE  OnceInv'
<1> USE DEF TypesOfAll
<1>0. Handler /\ program \in Programs /\ <<>> \in Seq(Instruction) /\ Range(<<>>) = {}
  BY HandlerRunsIsHandler, EmptySeq, RangeOfParts DEF ProgTypeOK
<1>1. ConnInv' /\ PairInv'
  BY <1>0, HandlerConn, HandlerPair DEF OnceInv
<1>2. UNCHANGED <<program, timers, onReply>> /\ script = <<>>
  BY HandlerCalls
<1>3. told' \in {"none", "Connected"} /\ "state" \notin reported'
  BY <1>0, HandlerReports DEF OnceInv
<1>4. HandleAsyncConnect =>
         /\ connectOps[1] \in {"ok", "error", "aborted"} /\ state = "Connecting"
         /\ state' = IF connectOps[1] = "ok" THEN "Connected" ELSE "Unconnected"
  BY AtMostOneAttempt, OneOutcome DEF OnceInv, ConnInv
<1>5. ~HandleAsyncConnect => state' = state
  BY <1>0 DEF Handler, DoAsyncCommand, CallMessageHandler, AsyncWrite,
        ConnectHandlerReturns, AsyncRead, ReadLoop, ReadAgain, ParseChunk, HandlerReturns,
        ErrorHandlerReturns
<1>6. ParseChunk /\ frame' = "handler" =>
         /\ onReply[Head(handlers)] \in ReplyFunctions \cup {None} /\ state = "Connected" /\ ~HandleAsyncConnect
  <2> SUFFICES ASSUME ParseChunk, frame' = "handler"
               PROVE  /\ onReply[Head(handlers)] \in ReplyFunctions \cup {None} /\ state = "Connected"
                      /\ ~HandleAsyncConnect
    OBVIOUS
  <2>1. handlers # <<>> /\ frame = "parse"
    BY CallsTheFront DEF ParseChunk
  <2>2. state = "Connected"
    BY <2>1 DEF OnceInv, PairInv, PlainConn, NothingLeft
  <2>3. onReply[Head(handlers)] \in ReplyFunctions \cup {None}
    BY <2>1, FrontIsGiven, GivenFunction DEF OnceInv
  <2> QED BY <2>1, <2>2, <2>3 DEF HandleAsyncConnect
<1>7. \A f : f # "main" /\ script' \in After(program, f, <<>>) =>
         /\ \A x \in Range(script') : x.call \in {"command", "wait", "exit"}
         /\ f \in {"refused", "aborted", "error"} => \A x \in Range(script') : x.call = "exit"
  BY <1>0, AfterOnce
<1>8. None # "main" /\ "main" \notin ReplyFunctions
  BY DEF None, ReplyFunctions
<1>9. /\ \A x \in Range(script') : x.call \in {"command", "wait", "exit"}
      /\ state' # "Connected" => \A x \in Range(script') : x.call = "exit"
  <2>1. CASE script' = script
    BY <1>0, <1>2, <2>1
  <2>2. CASE script' \in After(program, "error", <<>>)
    BY <1>7, <2>2
  <2>3. CASE HandleAsyncConnect /\ script' \in After(program, Outcome[connectOps[1]], <<>>)
    <3>1. /\ Outcome["ok"] = "connected" /\ Outcome["error"] = "refused" /\ Outcome["aborted"] = "aborted"
      BY DEF Outcome
    <3> QED BY <1>4, <1>7, <2>3, <3>1
  <2>4. CASE ParseChunk /\ frame' = "handler" /\ script' \in After(program, onReply[Head(handlers)], <<>>)
    BY <1>5, <1>6, <1>7, <1>8, <2>4
  <2> QED BY <2>1, <2>2, <2>3, <2>4, HandlerCalls
<1>10. state' # "Connected" => NotYet'
  <2>1. state' # "Connected" => state # "Connected"
    BY <1>4, <1>5
  <2> QED BY <1>2, <1>9, <2>1 DEF OnceInv, NotYet
<1> QED BY <1>1, <1>3, <1>9, <1>10 DEF OnceInv

\* The environment completes operations, and starts none.
LEMMA EnvironmentStartsNothing ==
    ASSUME Environment
    PROVE  /\ connectOps = <<>> => connectOps' = <<>>
           /\ readOps = <<>> => readOps' = <<>>
<1>1. DOMAIN <<>> = {}
  OBVIOUS
<1>2. CASE ConnectDone
  BY <1>1, <1>2 DEF ConnectDone
<1>3. CASE ReadSome
  <2>1. UNCHANGED connectOps /\ \E i \in DOMAIN readOps : TRUE
    BY <1>3 DEF ReadSome
  <2> QED BY <1>1, <2>1
<1>4. CASE ReadFails
  <2>1. UNCHANGED connectOps /\ \E i \in DOMAIN readOps : TRUE
    BY <1>4 DEF ReadFails
  <2> QED BY <1>1, <2>1
<1>5. CASE WriteSome \/ WriteFails \/ ServerReply \/ LinkDrops \/ \E ch \in Channels : ServerPublish(ch, Audience(ch))
  <2>1. UNCHANGED <<connectOps, readOps>>
    BY <1>5 DEF WriteSome, WriteFails, ServerReply, LinkDrops, ServerPublish, opVars
  <2> QED BY <2>1
<1> QED BY <1>2, <1>3, <1>4, <1>5 DEF Environment

LEMMA OnceKept ==
    ASSUME TypesOfAll, OnceInv, program \in ConnectsOnce, [ProgNext]_progVars
    PROVE  OnceInv'
<1> USE DEF TypesOfAll
<1>1. CASE Statement
  BY <1>1, OnceStatement
<1>2. CASE HandlerRuns
  BY <1>2, OnceHandler
<1>3. CASE FreeCall
  BY <1>3 DEF FreeCall, ConnectsOnce
<1>4. ASSUME UNCHANGED vars PROVE ConnInv' /\ PairInv' /\ UNCHANGED <<state, told, reported, connectOps, readOps, frame>>
  <2>1. UNCHANGED <<connectOps, readOps, frame, link, handlers, state, told, reported>>
    BY <1>4 DEF vars, envVars, linkVars, opVars, clientVars, queueVars, loopVars, historyVars
  <2> QED BY <1>4, <2>1, ConnKept, PairSame DEF OnceInv
<1>5. CASE \E t \in Timers : Expire(t)
  <2>1. PICK t \in Timers : Expire(t)
    BY <1>5
  <2>2. UNCHANGED <<vars, program, script, onReply>> /\ state = "Connected"
    BY <2>1 DEF Expire, OnceInv, NotYet
  <2>3. UNCHANGED vars
    BY <2>2
  <2> QED BY <1>4, <2>2, <2>3 DEF OnceInv, Starting
<1>6. CASE \E t \in Timers : OnTimer(t)
  <2>1. PICK t \in Timers : OnTimer(t)
    BY <1>6
  <2>2. UNCHANGED vars /\ timers[t].due > 0 /\ script' \in After(program, t, <<>>)
    BY <2>1, CallBackIs DEF OnTimer
  <2>3. state = "Connected"
    <3>1. timers[t].due # 0
      BY <2>2
    <3> QED BY <3>1 DEF OnceInv, NotYet
  <2>4. \A x \in Range(script') : x.call \in {"command", "wait", "exit"}
    <3>1. t # "main" /\ <<>> \in Seq(Instruction) /\ Range(<<>>) = {} /\ program \in Programs
      BY EmptySeq, RangeOfParts DEF Timers, ProgTypeOK
    <3> QED BY <2>2, <3>1, AfterOnce
  <2> QED BY <1>4, <2>2, <2>3, <2>4 DEF OnceInv
<1>7. CASE Environment /\ UNCHANGED programVars
  <2>1. UNCHANGED <<script, timers, onReply, state, told, reported, frame>>
    BY <1>7 DEF programVars, Environment, clientVars, historyVars, loopVars
  <2>2. ConnInv' /\ PairInv'
    BY <1>7, EnvironmentConn, EnvironmentPair DEF OnceInv
  <2>3. connectOps = <<>> /\ readOps = <<>> => connectOps' = <<>> /\ readOps' = <<>>
    BY <1>7, EnvironmentStartsNothing
  <2> QED BY <2>1, <2>2, <2>3 DEF OnceInv, Starting, NotYet
<1>8. CASE UNCHANGED progVars
  <2>1. UNCHANGED <<vars, script, timers, onReply>>
    BY <1>8 DEF progVars, programVars
  <2> QED BY <1>4, <2>1 DEF OnceInv, Starting, NotYet
<1> QED BY <1>1, <1>2, <1>3, <1>5, <1>6, <1>7, <1>8 DEF ProgNext

LEMMA OnceInit ==
    ASSUME ProgInit, program \in ConnectsOnce
    PROVE  OnceInv
<1>1. "main" \in DOMAIN Program[program] /\ script \in Program[program]["main"]
  <2>1. \A p \in DOMAIN Program : "main" \in DOMAIN Program[p]
    BY DEF Program, AsyncTimeout, AsyncSetGet, AsyncSetGet2, Benchmark, Publisher, Subscriber
  <2> QED BY <2>1, KnownPrograms DEF ProgInit
<1>2. script = <<Do("connect", None)>>
  BY <1>1, CallsOnce
<1>3. Starting
  BY <1>2 DEF ProgInit, Init, EnvInit, Starting
<1>4. NotYet
  <2>1. \A s \in Range(script) : s.call = "connect"
    BY <1>2 DEF Range, Do, If
  <2> QED BY <2>1 DEF ProgInit, NotYet
<1>5. ConnInv /\ PairInv
  BY ConnInit, PairInit DEF ProgInit
<1> QED BY <1>3, <1>4, <1>5 DEF OnceInv, ProgInit, Init

\* The assertions of benchmark.cpp:104 and of redisasyncclient.cpp:182 hold in the programs that
\* connect once, for any number of workers that share the connection and however the server's bytes
\* and the timer come in between.
THEOREM AssertionsKept == ProgSpec => []AssertionsHold
<1> DEFINE I == program \in ConnectsOnce => OnceInv
           T == TypeOK /\ PairTyped /\ SingleWriter /\ ProgTypeOK
<1>1. ProgInit => I
  BY OnceInit
<1>2. T /\ T' /\ I /\ [ProgNext]_progVars => I'
  <2> SUFFICES ASSUME T, T', I, [ProgNext]_progVars, program \in ConnectsOnce
               PROVE  OnceInv'
    BY ScriptSteps
  <2> QED BY OnceKept DEF TypesOfAll
<1>3. ProgSpec => []T
  <2>1. TypeOK => PairTyped
    BY PairTypes
  <2> QED BY <2>1, ProgramsAreApplications, TypeCorrect, OneWriter, ProgramsTyped, PTL
<1>4. T /\ I => AssertionsHold
  <2> SUFFICES ASSUME T, I, program \in {"async_set_get", "async_set_get2", "benchmark"}
               PROVE  ReplyMatching /\ ConnectCallbackHonest /\ "state" \notin reported
    BY DEF AssertionsHold
  <2>1. OnceInv
    BY DEF ConnectsOnce
  <2>2. ReplyMatching
    <3> SUFFICES ASSUME NEW i \in DOMAIN delivered PROVE delivered[i].reply.id = delivered[i].handler
      BY DEF ReplyMatching
    <3>1. i \in 1 .. Len(delivered)
      BY LenProperties DEF TypeOK
    <3> QED BY <2>1, <3>1 DEF OnceInv, PairInv, HandlersPaired
  <2> QED BY <2>1, <2>2 DEF OnceInv, ConnectCallbackHonest
<1> QED BY <1>1, <1>2, <1>3, <1>4, PTL DEF ProgSpec

-----------------------------------------------------------------------------
(* What a program does while one of its reply handlers runs.               *)

\* The programs that are called back with replies, and those whose requests have no handler.
CalledBack == {"async_timeout", "async_set_get", "async_set_get2", "benchmark"}
Quietly    == {"publisher", "subscriber", "listener"}

\* A reply handler, and the error handler that a call of it may run, only make commands, set
\* timers or end the program.
LEMMA RepliesAreModest ==
    ASSUME NEW p \in CalledBack, NEW f \in ReplyFunctions \cup {"error"}, f \in DOMAIN Program[p],
           NEW body \in Program[p][f], NEW s \in Range(body)
    PROVE  s.call \in {"command", "wait", "cancel", "exit"}
<1>1. CASE p \in ConnectsOnce
  <2>1. f # "main"
    BY DEF ReplyFunctions
  <2> QED BY <1>1, <2>1, CallsOnce
<1>2. CASE p = "async_timeout"
  <2>1. f \in DOMAIN AsyncTimeout /\ body \in AsyncTimeout[f] /\ f \in {"onSet", "onGet", "stop", "afterSet", "afterGet", "afterDel", "printOPS", "error"}
    BY <1>2, Tables DEF ReplyFunctions
  <2>2. body = <<Cancel("timer")>> \o Get \/ body = Throw
    BY <2>1, AsyncTimeoutTable
  <2>3. \A call, arg : Do(call, arg).call = call
    BY DEF Do, If
  <2>4. <<Cancel("timer")>> \in Seq(Instruction) /\ Get \in Seq(Instruction)
    BY InstructionsOf DEF Timers
  <2>5. Range(<<Cancel("timer")>> \o Get) = Range(<<Cancel("timer")>>) \cup Range(Get)
    BY <2>4, RangeOfTwo, Zenon
  <2>6. /\ Range(Throw) = {Do("exit", None)} /\ Range(<<Cancel("timer")>>) = {Do("cancel", "timer")}
        /\ Range(Get) = {Do("wait", "timer"), Do("command", "onGet")}
    BY DEF Range, Throw, Exit, Cancel, CallLater, Get
  <2>7. CASE body = Throw
    BY <2>3, <2>6, <2>7
  <2>8. CASE body = <<Cancel("timer")>> \o Get
    BY <2>3, <2>5, <2>6, <2>8
  <2> QED BY <2>2, <2>7, <2>8
<1> QED BY <1>1, <1>2 DEF CalledBack, ConnectsOnce

LEMMA AfterReply ==
    ASSUME program \in CalledBack, program \in Programs, NEW f \in ReplyFunctions \cup {"error", None},
           NEW left \in Seq(Instruction), NEW s \in After(program, f, left), NEW x \in Range(s)
    PROVE  x.call \in {"command", "wait", "cancel", "exit"} \/ x \in Range(left)
<1>1. None \notin DOMAIN Program[program]
  <2>1. /\ None \notin DOMAIN AsyncTimeout /\ None \notin DOMAIN AsyncSetGet
        /\ None \notin DOMAIN AsyncSetGet2 /\ None \notin DOMAIN Benchmark
    BY DEF None, AsyncTimeout, AsyncSetGet, AsyncSetGet2, Benchmark
  <2> QED BY <2>1, Tables DEF CalledBack
<1>2. CASE f \notin DOMAIN Program[program]
  BY <1>2 DEF After
<1>3. CASE f \in DOMAIN Program[program]
  <2>1. PICK body \in Program[program][f] : s = body \o left
    BY <1>3 DEF After
  <2>2. Range(s) = Range(body) \cup Range(left)
    BY <1>3, <2>1, BodiesTyped, RangeConcat
  <2>3. f \in ReplyFunctions \cup {"error"}
    BY <1>1, <1>3
  <2> QED BY <1>3, <2>2, <2>3, RepliesAreModest
<1> QED BY <1>2, <1>3

\* The other programs make no command, and no reply calls a function of theirs.
LEMMA QuietPrograms ==
    /\ \A p \in Quietly : \A s \in Vocabulary(p) : s.call # "command"
    /\ \A p \in Quietly : None \notin DOMAIN Program[p]
<1>1. \A call, arg, states : Do(call, arg).call = call /\ If(states, call, arg).call = call
  BY DEF Do, If
<1>2. Range(<<>>) = {} /\ (\A a : Range(<<a>>) = {a}) /\ \A a, b : Range(<<a, b>>) = {a, b}
  BY DEF Range
<1>3. \A p \in Quietly : None \notin DOMAIN Program[p]
  BY Tables DEF Quietly, None, Publisher, Subscriber
<1> DEFINE NoCommand(b) == \A x \in Range(b) : x.call # "command"
<1>4. /\ NoCommand(ConnectPublisher) /\ NoCommand(ConnectSubscriber) /\ NoCommand(OnPublishTimeout)
      /\ (\A t \in Timers : NoCommand(<<CallLater(t)>>)) /\ NoCommand(<<>>)
      /\ NoCommand(<<Do("subscribe", Topic), Do("subscribe", Pattern)>>)
  BY <1>1, <1>2 DEF ConnectPublisher, ConnectSubscriber, OnPublishTimeout, CallLater
<1>5. ASSUME NEW p \in Quietly, NEW s \in Vocabulary(p) PROVE s.call # "command"
  <2>1. PICK f \in DOMAIN Program[p] : \E body \in Program[p][f] : s \in Range(body)
    BY DEF Vocabulary
  <2>2. PICK body \in Program[p][f] : s \in Range(body)
    BY <2>1
  <2> HIDE DEF NoCommand
  <2>3. "connectTimer" \in Timers /\ "publishTimer" \in Timers
    BY DEF Timers
  <2>4. CASE p = "publisher"
    <3>1. f \in DOMAIN Publisher /\ body \in Publisher[f]
      BY <2>4, Tables
    <3>2. NoCommand(body)
      BY <1>4, <2>3, <3>1, PublisherTable
    <3> QED BY <2>2, <3>2 DEF NoCommand
  <2>5. CASE p = "subscriber"
    <3>1. f \in DOMAIN Subscriber /\ body \in Subscriber[f]
      BY <2>5, Tables
    <3>2. NoCommand(body)
      BY <1>4, <2>3, <3>1, SubscriberTable
    <3> QED BY <2>2, <3>2 DEF NoCommand
  <2>6. CASE p = "listener"
    <3>1. f \in DOMAIN [main |-> {<<>>}] /\ body \in [main |-> {<<>>}][f]
      BY <2>6, Tables
    <3>2. NoCommand(body)
      BY <1>4, <3>1, ListenerTable
    <3> QED BY <2>2, <3>2 DEF NoCommand
  <2> QED BY <2>4, <2>5, <2>6 DEF Quietly
<1> QED BY <1>3, <1>5

\* While a reply handler runs it is the first in the queue, and the program only makes calls
\* that leave it there.
PopInv ==
    /\ frame # "undefined"
    /\ program \in Quietly => \A i \in DOMAIN onReply : onReply[i] = None
    /\ frame = "handler" =>
          /\ handlers # <<>>
          /\ program \in Quietly => script = <<>>
          /\ program \in CalledBack => \A s \in Range(script) : s.call \in {"command", "wait", "cancel", "exit"}

LEMMA AllPrograms ==
    ASSUME ProgTypeOK
    PROVE  program \in CalledBack \cup Quietly /\ program \in Programs
BY KnownPrograms, Tables DEF ProgTypeOK, CalledBack, Quietly

\* The function of the handler in front was given with a request.
LEMMA FrontOfQueue ==
    ASSUME TypeOK, OrderInv, ProgTypeOK, frame # "handler", handlers # <<>>
    PROVE  Head(handlers) \in DOMAIN onReply /\ onReply[Head(handlers)] \in ReplyFunctions \cup {None}
<1>1. onReply \in Seq(ReplyFunctions \cup {None}) /\ Len(onReply) = issued /\ issued \in Nat
      /\ DOMAIN onReply = 1 .. issued
  BY LenProperties DEF ProgTypeOK, TypeOK
<1>2. PICK sent, written, queued, answered \in 0 .. issued : Marks(sent, written, queued, answered)
  BY DEF OrderInv
<1>3. Within(Uncalled, answered, queued) /\ Uncalled = handlers
  BY <1>2 DEF Marks, AnswerLine, Uncalled
<1>4. handlers \in Seq(Nat) /\ Len(handlers) \in Nat \ {0} /\ Head(handlers) = handlers[1] /\ 1 \in DOMAIN handlers
  BY EmptySeq, NoneOf, HeadTailProperties, LenProperties DEF TypeOK
<1>5. answered < handlers[1] /\ handlers[1] <= queued /\ handlers[1] \in Nat
  BY <1>3, <1>4, ElementOfSeq DEF Within
<1>6. handlers[1] \in 1 .. issued
  BY <1>1, <1>5
<1> QED BY <1>1, <1>4, <1>6, ElementOfSeq

\* Which calls of the client leave the queue and the handler that runs alone.
LEMMA CallsLeaveQueue ==
    ASSUME \/ Connect \/ Command \/ Publish \/ UNCHANGED vars
           \/ \E ch \in Channels : Subscribe(ch)
           \/ \E h \in held : Unsubscribe(h)
    PROVE  UNCHANGED <<frame, handlers>>
BY DEF Connect, Command, Publish, Request1, Subscribe, Unsubscribe, vars, clientVars, queueVars, loopVars

LEMMA PopStatement ==
    ASSUME TypeOK, ProgTypeOK, ScriptOfProgram, PopInv, Statement
    PROVE  PopInv'
<1> DEFINE s == Head(script)
           left == Tail(script)
<1>1. /\ script # <<>> /\ s \in Range(script) /\ left \in Seq(Instruction) /\ Range(left) \subseteq Range(script)
      /\ program' = program /\ program \in Programs
  BY StatementCases DEF ProgTypeOK
<1>2. frame' = frame
  BY StatementCases DEF PassOver, CallConnect, CallDisconnect, CallRequest, WaitOrCancel, End, Connect,
        Disconnect, Command, Publish, Request1, Subscribe, vars, clientVars, loopVars
<1>3. program' \in Quietly => \A i \in DOMAIN onReply' : onReply'[i] = None
  <2> SUFFICES ASSUME program \in Quietly PROVE \A i \in DOMAIN onReply' : onReply'[i] = None
    BY <1>1
  <2>1. s.call # "command"
    BY <1>1, QuietPrograms DEF ScriptOfProgram
  <2>2. onReply' = onReply \/ onReply' = Append(onReply, None)
    BY <2>1, StatementCases DEF PassOver, CallConnect, CallDisconnect, CallRequest, WaitOrCancel, End
  <2>3. onReply \in Seq(ReplyFunctions \cup {None})
    BY DEF ProgTypeOK
  <2>4. CASE onReply' = Append(onReply, None)
    <3>1. \A i \in DOMAIN Append(onReply, None) : Append(onReply, None)[i] = None
      BY <2>3, AppendProperties, LenProperties DEF PopInv
    <3> QED BY <2>4, <3>1
  <2> QED BY <2>2, <2>4 DEF PopInv
<1>4. ASSUME frame = "handler"
      PROVE  /\ handlers' # <<>> /\ program \in CalledBack
             /\ \A x \in Range(script') : x.call \in {"command", "wait", "cancel", "exit"}
  <2>1. program \in CalledBack /\ s.call \in {"command", "wait", "cancel", "exit"}
        /\ \A x \in Range(left) : x.call \in {"command", "wait", "cancel", "exit"}
    BY <1>1, <1>4, AllPrograms DEF PopInv
  <2>2. \/ PassOver(left) \/ End \/ CallRequest(Command, state = "Connected", s.arg, left)
        \/ WaitOrCancel(s.arg, TRUE, left) \/ WaitOrCancel(s.arg, FALSE, left)
    BY <2>1, StatementCases
  <2>3. handlers' = handlers
    BY <2>2, CallsLeaveQueue DEF PassOver, End, CallRequest, WaitOrCancel
  <2>4. script' = left \/ script' = <<>> \/ script' \in After(program, "error", left)
    BY <2>2, CallBackIs DEF PassOver, End, CallRequest, WaitOrCancel
  <2>5. \A x \in Range(script') : x.call \in {"command", "wait", "cancel", "exit"}
    <3>1. Range(<<>>) = {}
      BY DEF Range
    <3>2. CASE script' \in After(program, "error", left)
      BY <1>1, <2>1, <3>2, AfterReply
    <3> QED BY <2>1, <2>4, <3>1, <3>2
  <2> QED BY <1>4, <2>1, <2>3, <2>5 DEF PopInv
<1>5. CalledBack \cap Quietly = {}
  BY DEF CalledBack, Quietly
<1> QED BY <1>1, <1>2, <1>3, <1>4, <1>5 DEF PopInv

LEMMA PopHandler ==
    ASSUME TypeOK, ProgTypeOK, OrderInv, PopInv, HandlerRuns
    PROVE  PopInv'
<1>1. /\ Handler /\ script = <<>> /\ UNCHANGED <<program, onReply>> /\ program \in Programs
      /\ <<>> \in Seq(Instruction) /\ Range(<<>>) = {}
  BY HandlerRunsIsHandler, HandlerCalls, EmptySeq, RangeOfParts DEF ProgTypeOK
<1>2. frame' # "undefined" /\ (frame' = "handler" => ParseChunk /\ frame = "parse")
  <2>1. CASE ParseChunk
    BY <2>1, FrameAfterParsing DEF ParseChunk
  <2>2. CASE HandlerReturns
    BY <2>2 DEF HandlerReturns, PopInv
  <2>3. CASE \/ DoAsyncCommand \/ CallMessageHandler \/ AsyncWrite \/ HandleAsyncConnect
             \/ ConnectHandlerReturns \/ AsyncRead \/ ReadAgain \/ ErrorHandlerReturns
    BY <2>3 DEF DoAsyncCommand, CallMessageHandler, AsyncWrite, HandleAsyncConnect, ConnectHandlerReturns,
        AsyncRead, ReadAgain, ErrorHandlerReturns, ProcessMessage, loopVars, PopInv
  <2> QED BY <1>1, <2>1, <2>2, <2>3 DEF Handler, ReadLoop
<1>3. ASSUME frame' = "handler"
      PROVE  /\ handlers' # <<>>
             /\ program \in Quietly => script' = <<>>
             /\ program \in CalledBack => \A s \in Range(script') : s.call \in {"command", "wait", "cancel", "exit"}
  <2>1. handlers # <<>> /\ handlers' = handlers /\ ParseChunk /\ frame = "parse"
    BY <1>2, <1>3, CallsTheFront DEF ParseChunk
  <2>2. Head(handlers) \in DOMAIN onReply /\ onReply[Head(handlers)] \in ReplyFunctions \cup {None}
    BY <2>1, FrontOfQueue
  <2>3. script' = <<>> \/ script' \in After(program, onReply[Head(handlers)], <<>>)
    BY <1>1, <1>3, <2>1, HandlerCalls DEF HandleAsyncConnect
  <2>4. program \in Quietly => script' = <<>>
    <3>1. program \in Quietly => onReply[Head(handlers)] = None /\ None \notin DOMAIN Program[program]
      BY <2>2, QuietPrograms DEF PopInv
    <3> QED BY <2>3, <3>1 DEF After
  <2>5. program \in CalledBack => \A s \in Range(script') : s.call \in {"command", "wait", "cancel", "exit"}
    <3>1. PICK g \in ReplyFunctions \cup {None} : g = onReply[Head(handlers)]
      BY <2>2
    <3> QED BY <1>1, <2>3, <3>1, AfterReply
  <2> QED BY <2>1, <2>4, <2>5
<1> QED BY <1>1, <1>2, <1>3 DEF PopInv

LEMMA PopKept ==
    ASSUME TypeOK, ProgTypeOK, ScriptOfProgram, OrderInv, PopInv, [ProgNext]_progVars
    PROVE  PopInv'
<1>1. CASE Statement
  BY <1>1, PopStatement
<1>2. CASE HandlerRuns
  BY <1>2, PopHandler
<1>3. CASE FreeCall
  <2>1. UNCHANGED <<frame, handlers>> /\ UNCHANGED <<program, script>> /\ program = "listener"
    BY <1>3, CallsLeaveQueue DEF FreeCall
  <2>2. \A i \in DOMAIN onReply' : onReply'[i] = None
    <3>1. issued' \in {issued, issued + 1} /\ issued \in Nat
      BY <1>3, RequestsMade DEF FreeCall, TypeOK
    <3>2. PICK n \in {0, 1} : n = issued' - issued
      <4>1. CASE issued' = issued
        BY <3>1, <4>1
      <4>2. CASE issued' = issued + 1
        BY <3>1, <4>2
      <4> QED BY <3>1, <4>1, <4>2
    <3>3. onReply' = onReply \o [i \in 1 .. n |-> None]
      BY <1>3, <3>2 DEF FreeCall
    <3>4. onReply \in Seq(ReplyFunctions \cup {None}) /\ [i \in 1 .. n |-> None] \in Seq(ReplyFunctions \cup {None})
      <4>1. [i \in 1 .. n |-> None] \in [1 .. n -> ReplyFunctions \cup {None}]
        OBVIOUS
      <4> QED BY <4>1, SequenceOf DEF ProgTypeOK
    <3>5. Range(onReply') = Range(onReply) \cup Range([i \in 1 .. n |-> None])
      BY <3>3, <3>4, RangeConcat
    <3>6. \A x \in Range(onReply') : x = None
      BY <2>1, <3>5 DEF PopInv, Quietly, Range
    <3> QED BY <3>6 DEF Range
  <2>3. "listener" \notin CalledBack
    BY DEF CalledBack
  <2> QED BY <2>1, <2>2, <2>3 DEF PopInv
<1>4. CASE \E t \in Timers : Expire(t) \/ OnTimer(t)
  <2>1. PICK t \in Timers : Expire(t) \/ OnTimer(t)
    BY <1>4
  <2>2. UNCHANGED <<vars, program, onReply>> /\ (script' = script \/ frame = "none")
    BY <2>1 DEF Expire, OnTimer
  <2>3. UNCHANGED <<frame, handlers>>
    BY <2>2, CallsLeaveQueue
  <2> QED BY <2>2, <2>3 DEF PopInv
<1>5. CASE (Environment /\ UNCHANGED programVars) \/ UNCHANGED progVars
  <2>1. UNCHANGED <<frame, handlers, program, script, onReply>>
    BY <1>5 DEF Environment, programVars, progVars, vars, clientVars, queueVars, loopVars
  <2> QED BY <2>1 DEF PopInv
<1> QED BY <1>1, <1>2, <1>3, <1>4, <1>5 DEF ProgNext

\* No program lets handlers.pop() (redisclientimpl.cpp:298, :322) meet a queue that its reply
\* handler has emptied, although all of them call the client from inside of callbacks.
THEOREM ProgramsPopWhatTheyCalled == ProgSpec => []NeverPopsEmpty
<1>1. ProgInit => PopInv
  BY DEF ProgInit, Init, PopInv
<1>2. TypeOK /\ ProgTypeOK /\ ScriptOfProgram /\ OrderInv /\ PopInv /\ [ProgNext]_progVars => PopInv'
  BY PopKept
<1>3. PopInv => NeverPopsEmpty
  BY DEF PopInv, NeverPopsEmpty
<1> QED BY <1>1, <1>2, <1>3, ScriptsKept, ProgramsAreApplications, OrderKept, PTL DEF ProgSpec

-----------------------------------------------------------------------------
(* The programs that are to run for ever: async_timeout and the two halves *)
(* of async_pubsub.                                                        *)

Lasting == {"async_timeout", "publisher", "subscriber"}

\* Every call of a in s has one of b after it.
Followed(s, a, b) == \A i \in DOMAIN s : s[i].call = a => \E j \in DOMAIN s : i < j /\ s[j].call = b

LEMMA FollowedNothing == \A a, b : Followed(<<>>, a, b)
BY DEF Followed

LEMMA FollowedOne ==
    ASSUME NEW x, NEW a, NEW b, x.call # a
    PROVE  Followed(<<x>>, a, b)
BY DEF Followed

LEMMA FollowedTail ==
    ASSUME NEW s \in Seq(Instruction), s # <<>>, NEW a, NEW b, Followed(s, a, b)
    PROVE  /\ Followed(Tail(s), a, b)
           /\ Head(s).call = a => \E x \in Range(Tail(s)) : x.call = b
<1>1. /\ Len(s) \in Nat \ {0} /\ DOMAIN s = 1 .. Len(s) /\ Head(s) = s[1]
      /\ DOMAIN Tail(s) = 1 .. Len(s) - 1
      /\ \A i \in 1 .. Len(s) - 1 : Tail(s)[i] = s[i + 1]
  BY EmptySeq, LenProperties, HeadTailProperties
<1>2. \A i \in 1 .. Len(s) - 1 : i + 1 \in 1 .. Len(s) /\ i + 1 # 1
  BY <1>1
<1>3. ASSUME NEW j \in 1 .. Len(s), 1 < j PROVE j - 1 \in 1 .. Len(s) - 1 /\ Tail(s)[j - 1] = s[j]
  <2>1. j - 1 \in 1 .. Len(s) - 1 /\ (j - 1) + 1 = j
    BY <1>1, <1>3
  <2> QED BY <1>1, <2>1
<1>4. ASSUME NEW i \in DOMAIN Tail(s), Tail(s)[i].call = a
      PROVE  \E j \in DOMAIN Tail(s) : i < j /\ Tail(s)[j].call = b
  <2>1. i + 1 \in DOMAIN s /\ s[i + 1].call = a
    BY <1>1, <1>2, <1>4
  <2>2. PICK j \in DOMAIN s : i + 1 < j /\ s[j].call = b
    BY <2>1 DEF Followed
  <2>3. j - 1 \in DOMAIN Tail(s) /\ Tail(s)[j - 1] = s[j] /\ i < j - 1
    <3>1. i \in Nat /\ j \in 1 .. Len(s) /\ 1 < j /\ i < j - 1
      BY <1>1, <1>4, <2>2
    <3> QED BY <1>1, <1>3, <3>1
  <2> QED BY <2>2, <2>3
<1>5. ASSUME Head(s).call = a PROVE \E x \in Range(Tail(s)) : x.call = b
  <2>1. PICK j \in DOMAIN s : 1 < j /\ s[j].call = b
    BY <1>1, <1>5 DEF Followed
  <2>2. j - 1 \in DOMAIN Tail(s) /\ Tail(s)[j - 1] = s[j]
    BY <1>1, <1>3, <2>1
  <2> QED BY <2>1, <2>2 DEF Range
<1> QED BY <1>4, <1>5 DEF Followed

LEMMA FollowedConcat ==
    ASSUME NEW s \in Seq(Instruction), NEW t \in Seq(Instruction), NEW a, NEW b,
           Followed(s, a, b) \/ \E x \in Range(t) : x.call = b, Followed(t, a, b)
    PROVE  Followed(s \o t, a, b)
<1>1. /\ \A i \in 1 .. Len(s) + Len(t) : (s \o t)[i] = IF i <= Len(s) THEN s[i] ELSE t[i - Len(s)]
      /\ DOMAIN (s \o t) = 1 .. Len(s) + Len(t) /\ Len(s) \in Nat /\ Len(t) \in Nat
      /\ DOMAIN s = 1 .. Len(s) /\ DOMAIN t = 1 .. Len(t)
  BY ConcatProperties, LenProperties
<1>2. ASSUME NEW j \in 1 .. Len(t) PROVE Len(s) + j \in DOMAIN (s \o t) /\ (s \o t)[Len(s) + j] = t[j]
  <2>1. Len(s) + j \in 1 .. Len(s) + Len(t) /\ (Len(s) + j) - Len(s) = j /\ ~(Len(s) + j <= Len(s))
    BY <1>1
  <2> QED BY <1>1, <2>1
<1>3. SUFFICES ASSUME NEW i \in 1 .. Len(s) + Len(t), (s \o t)[i].call = a
               PROVE  \E j \in 1 .. Len(s) + Len(t) : i < j /\ (s \o t)[j].call = b
  BY <1>1 DEF Followed
<1>4. CASE i <= Len(s)
  <2>1. i \in DOMAIN s /\ s[i].call = a
    BY <1>1, <1>3, <1>4
  <2>2. CASE Followed(s, a, b)
    <3>1. PICK j \in DOMAIN s : i < j /\ s[j].call = b
      BY <2>1, <2>2 DEF Followed
    <3>2. j \in 1 .. Len(s) + Len(t) /\ (s \o t)[j] = s[j]
      BY <1>1, <3>1
    <3> QED BY <3>1, <3>2
  <2>3. CASE \E x \in Range(t) : x.call = b
    <3>1. PICK j \in 1 .. Len(t) : t[j].call = b
      BY <1>1, <2>3 DEF Range
    <3>2. i < Len(s) + j
      BY <1>1, <1>4, <3>1
    <3> QED BY <1>1, <1>2, <3>1, <3>2
  <2> QED BY <2>2, <2>3
<1>5. CASE ~(i <= Len(s))
  <2>1. i - Len(s) \in 1 .. Len(t) /\ (s \o t)[i] = t[i - Len(s)]
    BY <1>1, <1>5
  <2>2. PICK j \in 1 .. Len(t) : i - Len(s) < j /\ t[j].call = b
    BY <1>1, <1>3, <2>1 DEF Followed
  <2>3. i < Len(s) + j
    BY <1>1, <2>2
  <2> QED BY <1>1, <1>2, <2>2, <2>3
<1> QED BY <1>4, <1>5

\* What the three programs call, and in which states.
CallIs(x, call, arg, in) == x.call = call /\ x.arg = arg /\ x.in = in

LEMMA PublisherCalls ==
    \A s \in Vocabulary("publisher") :
       \/ CallIs(s, "disconnect", "publishTimer", {"Connected"}) \/ CallIs(s, "connect", None, State)
       \/ CallIs(s, "publish", None, {"Connected"})
       \/ CallIs(s, "wait", "publishTimer", State) \/ CallIs(s, "wait", "connectTimer", State)
<1> SUFFICES ASSUME NEW s \in Vocabulary("publisher")
             PROVE  \/ CallIs(s, "disconnect", "publishTimer", {"Connected"}) \/ CallIs(s, "connect", None, State)
                    \/ CallIs(s, "publish", None, {"Connected"})
                    \/ CallIs(s, "wait", "publishTimer", State) \/ CallIs(s, "wait", "connectTimer", State)
  OBVIOUS
<1>1. PICK f \in DOMAIN Publisher : \E body \in Publisher[f] : s \in Range(body)
  BY Tables DEF Vocabulary
<1>2. PICK body \in Publisher[f] : s \in Range(body)
  BY <1>1
<1>3. (\A a : Range(<<a>>) = {a}) /\ \A a, b : Range(<<a, b>>) = {a, b}
  BY DEF Range
<1>4. \/ body = <<CallLater("publishTimer")>> \/ body = <<CallLater("connectTimer")>>
      \/ body = OnPublishTimeout \/ body = ConnectPublisher
  BY PublisherTable
<1>5. \/ s = CallLater("publishTimer") \/ s = CallLater("connectTimer") \/ s = Do("connect", None)
      \/ s = If({"Connected"}, "publish", None) \/ s = If({"Connected"}, "disconnect", "publishTimer")
  BY <1>2, <1>3, <1>4 DEF OnPublishTimeout, ConnectPublisher
<1> QED BY <1>5 DEF CallIs, CallLater, Do, If

LEMMA SubscriberCalls ==
    \A s \in Vocabulary("subscriber") :
       \/ CallIs(s, "disconnect", None, {"Connected", "Subscribed"}) \/ CallIs(s, "connect", None, State)
       \/ CallIs(s, "subscribe", Topic, State) \/ CallIs(s, "subscribe", Pattern, State)
       \/ CallIs(s, "wait", "connectTimer", State)
<1> SUFFICES ASSUME NEW s \in Vocabulary("subscriber")
             PROVE  \/ CallIs(s, "disconnect", None, {"Connected", "Subscribed"}) \/ CallIs(s, "connect", None, State)
                    \/ CallIs(s, "subscribe", Topic, State) \/ CallIs(s, "subscribe", Pattern, State)
                    \/ CallIs(s, "wait", "connectTimer", State)
  OBVIOUS
<1>1. PICK f \in DOMAIN Subscriber : \E body \in Subscriber[f] : s \in Range(body)
  BY Tables DEF Vocabulary
<1>2. PICK body \in Subscriber[f] : s \in Range(body)
  BY <1>1
<1>3. (\A a : Range(<<a>>) = {a}) /\ \A a, b : Range(<<a, b>>) = {a, b}
  BY DEF Range
<1>4. \/ body = <<Do("subscribe", Topic), Do("subscribe", Pattern)>> \/ body = <<CallLater("connectTimer")>>
      \/ body = ConnectSubscriber
  BY SubscriberTable
<1>5. \/ s = CallLater("connectTimer") \/ s = Do("connect", None) \/ s = Do("subscribe", Topic)
      \/ s = Do("subscribe", Pattern) \/ s = If({"Connected", "Subscribed"}, "disconnect", None)
  BY <1>2, <1>3, <1>4 DEF ConnectSubscriber
<1> QED BY <1>5 DEF CallIs, CallLater, Do, If

LEMMA TimeoutCalls ==
    \A s \in Vocabulary("async_timeout") :
       \/ CallIs(s, "disconnect", None, State) \/ CallIs(s, "connect", None, State)
       \/ CallIs(s, "command", "onGet", State) \/ CallIs(s, "wait", "timer", State)
       \/ CallIs(s, "cancel", "timer", State) \/ CallIs(s, "exit", None, State)
<1> SUFFICES ASSUME NEW s \in Vocabulary("async_timeout")
             PROVE  \/ CallIs(s, "disconnect", None, State) \/ CallIs(s, "connect", None, State)
                    \/ CallIs(s, "command", "onGet", State) \/ CallIs(s, "wait", "timer", State)
                    \/ CallIs(s, "cancel", "timer", State) \/ CallIs(s, "exit", None, State)
  OBVIOUS
<1>1. PICK f \in DOMAIN AsyncTimeout : \E body \in AsyncTimeout[f] : s \in Range(body)
  BY Tables DEF Vocabulary
<1>2. PICK body \in AsyncTimeout[f] : s \in Range(body)
  BY <1>1
<1>3. (\A a : Range(<<a>>) = {a}) /\ \A a, b : Range(<<a, b>>) = {a, b}
  BY DEF Range
<1>4. \/ body = Run \/ body = Get \/ body = <<Cancel("timer")>> \/ body = <<Cancel("timer")>> \o Get
      \/ body = <<Do("disconnect", None)>> \o Run \/ body = Throw
  BY AsyncTimeoutTable
<1>5. /\ Range(<<Cancel("timer")>> \o Get) = Range(<<Cancel("timer")>>) \cup Range(Get)
      /\ Range(<<Do("disconnect", None)>> \o Run) = Range(<<Do("disconnect", None)>>) \cup Range(Run)
  <2>1. /\ <<Cancel("timer")>> \in Seq(Instruction) /\ Get \in Seq(Instruction)
        /\ <<Do("disconnect", None)>> \in Seq(Instruction) /\ Run \in Seq(Instruction)
    BY InstructionsOf DEF Timers
  <2> QED BY <2>1, RangeOfTwo, Zenon
<1>6. /\ Range(Run) = {CallLater("timer"), Do("connect", None)}
      /\ Range(Get) = {CallLater("timer"), Do("command", "onGet")}
      /\ Range(Throw) = {Do("exit", None)}
  BY <1>3 DEF Run, Get, Throw, Exit
<1>7. Range(<<Do("disconnect", None)>>) = {Do("disconnect", None)} /\ Range(<<Cancel("timer")>>) = {Cancel("timer")}
  BY <1>3
<1>8. Range(body) \subseteq {CallLater("timer"), Do("connect", None), Do("disconnect", None), Do("command", "onGet"),
                            Cancel("timer"), Do("exit", None)}
  <2>1. CASE body = Run
    BY <1>6, <2>1
  <2>2. CASE body = Get
    BY <1>6, <2>2
  <2>3. CASE body = <<Cancel("timer")>>
    BY <1>7, <2>3
  <2>4. CASE body = <<Cancel("timer")>> \o Get
    BY <1>5, <1>6, <1>7, <2>4
  <2>5. CASE body = <<Do("disconnect", None)>> \o Run
    BY <1>5, <1>6, <1>7, <2>5
  <2>6. CASE body = Throw
    BY <1>6, <2>6
  <2> QED BY <1>4, <2>1, <2>2, <2>3, <2>4, <2>5, <2>6
<1> QED BY <1>2, <1>8 DEF CallIs, CallLater, Cancel, Do, If

-----------------------------------------------------------------------------
(* What keeps them going: a script in which calls are paired, a timer, an  *)
(* attempt to connect, or a read.                                          *)

Makes(s, call) == \E x \in Range(s) : x.call = call
Waits(s, t)    == \E x \in Range(s) : x.call = "wait" /\ x.arg = t

\* The functions of the three programs, one sequence of calls each.
LEMMA BodyOfOne ==
    /\ \A a : Range(<<a>>) = {a}
    /\ \A a, b : Range(<<a, b>>) = {a, b}
    /\ \A a, b, x, y : a.call # x /\ b.call # x => Followed(<<a, b>>, x, y)
    /\ \A a, b, x, y : b.call = y /\ y # x => Followed(<<a, b>>, x, y)
<1>1. (\A a : Range(<<a>>) = {a}) /\ \A a, b : Range(<<a, b>>) = {a, b}
  BY DEF Range
<1>2. \A a, b : DOMAIN <<a, b>> = {1, 2} /\ <<a, b>>[1] = a /\ <<a, b>>[2] = b
  OBVIOUS
<1> QED BY <1>1, <1>2 DEF Followed

LEMMA PublisherDoes ==
    ASSUME NEW f \in DOMAIN Publisher, NEW body \in Publisher[f]
    PROVE  /\ Followed(body, "disconnect", "connect")
           /\ f \in {"connected", "publishTimer"} => Waits(body, "publishTimer")
           /\ f \in {"refused", "aborted"} => Waits(body, "connectTimer")
           /\ f \in {"main", "connectTimer", "error"} => Makes(body, "connect")
<1>1. /\ \A states, call, arg : /\ If(states, call, arg).call = call /\ If(states, call, arg).arg = arg
                                /\ Do(call, arg).call = call /\ Do(call, arg).arg = arg
      /\ \A t : CallLater(t).call = "wait" /\ CallLater(t).arg = t
  BY DEF If, Do, CallLater
<1>2. CASE \/ body = <<CallLater("publishTimer")>> /\ f = "connected"
           \/ body = <<CallLater("connectTimer")>> /\ f \in {"refused", "aborted"}
  BY <1>1, <1>2, FollowedOne, BodyOfOne DEF Waits
<1>3. CASE body = OnPublishTimeout /\ f = "publishTimer"
  BY <1>1, <1>3, BodyOfOne DEF OnPublishTimeout, Waits
<1>4. CASE body = ConnectPublisher /\ f \in {"main", "connectTimer", "error"}
  <2>1. PICK a, b : body = <<a, b>> /\ a.call = "disconnect" /\ b.call = "connect"
    BY <1>1, <1>4 DEF ConnectPublisher
  <2>2. Followed(body, "disconnect", "connect") /\ Makes(body, "connect")
    BY <2>1, BodyOfOne DEF Makes
  <2> QED BY <1>4, <2>2
<1> QED BY <1>2, <1>3, <1>4, PublisherTable

LEMMA SubscriberDoes ==
    ASSUME NEW f \in DOMAIN Subscriber, NEW body \in Subscriber[f]
    PROVE  /\ Followed(body, "disconnect", "connect")
           /\ f \in {"refused", "aborted"} => Waits(body, "connectTimer")
           /\ f \in {"main", "connectTimer", "error"} => Makes(body, "connect") /\ Makes(body, "disconnect")
<1>1. /\ \A states, call, arg : /\ If(states, call, arg).call = call /\ If(states, call, arg).arg = arg
                                /\ Do(call, arg).call = call /\ Do(call, arg).arg = arg
      /\ \A t : CallLater(t).call = "wait" /\ CallLater(t).arg = t
  BY DEF If, Do, CallLater
<1>2. CASE body = <<CallLater("connectTimer")>> /\ f \in {"refused", "aborted"}
  BY <1>1, <1>2, FollowedOne, BodyOfOne DEF Waits
<1>3. CASE body = <<Do("subscribe", Topic), Do("subscribe", Pattern)>> /\ f = "connected"
  BY <1>1, <1>3, BodyOfOne
<1>4. CASE body = ConnectSubscriber /\ f \in {"main", "connectTimer", "error"}
  BY <1>1, <1>4, BodyOfOne DEF ConnectSubscriber, Makes
<1> QED BY <1>2, <1>3, <1>4, SubscriberTable

LEMMA TimeoutDoes ==
    ASSUME NEW f \in DOMAIN AsyncTimeout, NEW body \in AsyncTimeout[f]
    PROVE  /\ Followed(body, "disconnect", "connect")
           /\ f \in {"main", "connected", "onGet", "timer"} => Waits(body, "timer")
           /\ f = "main" => Makes(body, "connect")
           /\ IF f = "refused" THEN body = <<Cancel("timer")>> ELSE Followed(body, "cancel", "wait")
<1>1. /\ \A call, arg : Do(call, arg).call = call /\ Do(call, arg).arg = arg
      /\ \A t : CallLater(t).call = "wait" /\ CallLater(t).arg = t /\ Cancel(t).call = "cancel"
  BY DEF If, Do, CallLater, Cancel
<1>2. /\ Run \in Seq(Instruction) /\ Get \in Seq(Instruction) /\ Throw \in Seq(Instruction)
      /\ <<Cancel("timer")>> \in Seq(Instruction) /\ <<Do("disconnect", None)>> \in Seq(Instruction)
  BY InstructionsOf DEF Timers
<1>3. /\ Range(Run) = {CallLater("timer"), Do("connect", None)}
      /\ Range(Get) = {CallLater("timer"), Do("command", "onGet")}
  BY BodyOfOne DEF Run, Get
<1>4. /\ Waits(Run, "timer") /\ Waits(Get, "timer") /\ Makes(Run, "connect")
      /\ Followed(Run, "disconnect", "connect") /\ Followed(Run, "cancel", "wait")
      /\ Followed(Get, "disconnect", "connect") /\ Followed(Get, "cancel", "wait")
  <2>1. Waits(Run, "timer") /\ Waits(Get, "timer") /\ Makes(Run, "connect")
    BY <1>1, <1>3 DEF Waits, Makes
  <2>2. \A a, b, x, y : a.call # x /\ b.call # x => Followed(<<a, b>>, x, y)
    BY BodyOfOne
  <2> QED BY <1>1, <2>1, <2>2 DEF Run, Get
<1>5. CASE f = "main" /\ body = Run
  BY <1>4, <1>5
<1>6. CASE f = "connected" /\ body = Get
  BY <1>4, <1>6
<1>7. CASE f = "refused" /\ body = <<Cancel("timer")>>
  BY <1>1, <1>7, FollowedOne
<1>8. CASE f = "onGet" /\ body = <<Cancel("timer")>> \o Get
  <2>1. Followed(<<Cancel("timer")>>, "disconnect", "connect") /\ \E x \in Range(Get) : x.call = "wait"
    BY <1>1, <1>3, FollowedOne
  <2>2. Followed(body, "disconnect", "connect") /\ Followed(body, "cancel", "wait")
    BY <1>2, <1>4, <1>8, <2>1, FollowedConcat
  <2>3. Range(body) = Range(<<Cancel("timer")>>) \cup Range(Get)
    BY <1>2, <1>8, RangeOfTwo
  <2> QED BY <1>4, <1>8, <2>2, <2>3 DEF Waits
<1>9. CASE f = "timer" /\ body = <<Do("disconnect", None)>> \o Run
  <2>1. Followed(<<Do("disconnect", None)>>, "cancel", "wait") /\ \E x \in Range(Run) : x.call = "connect"
    BY <1>1, <1>3, FollowedOne
  <2>2. Followed(body, "disconnect", "connect") /\ Followed(body, "cancel", "wait")
    BY <1>2, <1>4, <1>9, <2>1, FollowedConcat
  <2>3. Range(body) = Range(<<Do("disconnect", None)>>) \cup Range(Run)
    BY <1>2, <1>9, RangeOfTwo
  <2> QED BY <1>4, <1>9, <2>2, <2>3 DEF Waits
<1>10. CASE f = "error" /\ body = Throw
  <2>1. body = <<Do("exit", None)>>
    BY <1>10 DEF Throw, Exit
  <2> QED BY <1>1, <1>10, <2>1, FollowedOne
<1> QED BY <1>5, <1>6, <1>7, <1>8, <1>9, <1>10, AsyncTimeoutTable

\* A function called back puts its calls before those there were.
LEMMA AfterLasting ==
    ASSUME NEW p \in Lasting, p \in Programs, NEW f, NEW left \in Seq(Instruction), NEW s \in After(p, f, left)
    PROVE  /\ Followed(left, "disconnect", "connect") => Followed(s, "disconnect", "connect")
           /\ \A call : Makes(left, call) => Makes(s, call)
           /\ \A t : Waits(left, t) => Waits(s, t)
           /\ p \in {"publisher", "subscriber"} =>
                 /\ f \in {"refused", "aborted"} => Waits(s, "connectTimer")
                 /\ f \in {"connectTimer", "error"} => Makes(s, "connect")
           /\ p = "publisher" /\ f \in {"connected", "publishTimer"} => Waits(s, "publishTimer")
           /\ p = "subscriber" /\ f = "error" => Makes(s, "disconnect")
           /\ p = "async_timeout" =>
                 /\ f \in {"connected", "timer"} => Waits(s, "timer")
                 /\ IF f = "refused" THEN left = <<>> => s = <<Cancel("timer")>>
                                     ELSE Followed(left, "cancel", "wait") => Followed(s, "cancel", "wait")
<1> DEFINE Shape(body) ==
             /\ Followed(body, "disconnect", "connect")
             /\ p \in {"publisher", "subscriber"} =>
                   /\ f \in {"refused", "aborted"} => Waits(body, "connectTimer")
                   /\ f \in {"connectTimer", "error"} => Makes(body, "connect")
             /\ p = "publisher" /\ f \in {"connected", "publishTimer"} => Waits(body, "publishTimer")
             /\ p = "subscriber" /\ f = "error" => Makes(body, "disconnect")
             /\ p = "async_timeout" =>
                   /\ f \in {"connected", "timer"} => Waits(body, "timer")
                   /\ IF f = "refused" THEN body = <<Cancel("timer")>> ELSE Followed(body, "cancel", "wait")
<1>1. \A body \in Program[p][f] : f \in DOMAIN Program[p] => Shape(body)
  <2> SUFFICES ASSUME NEW body \in Program[p][f], f \in DOMAIN Program[p] PROVE Shape(body)
    OBVIOUS
  <2>1. CASE p = "publisher"
    BY <2>1, Tables, PublisherDoes
  <2>2. CASE p = "subscriber"
    BY <2>2, Tables, SubscriberDoes
  <2>3. CASE p = "async_timeout"
    BY <2>3, Tables, TimeoutDoes
  <2> QED BY <2>1, <2>2, <2>3 DEF Lasting
<1>2. /\ p = "publisher" => {"connected", "refused", "aborted", "publishTimer", "connectTimer", "error"} \subseteq DOMAIN Program[p]
      /\ p = "subscriber" => {"connected", "refused", "aborted", "connectTimer", "error"} \subseteq DOMAIN Program[p]
      /\ p = "async_timeout" => {"connected", "refused", "timer", "error"} \subseteq DOMAIN Program[p]
  <2>1. /\ DOMAIN Publisher = {"main", "connected", "refused", "aborted", "publishTimer", "connectTimer", "error"}
        /\ DOMAIN Subscriber = {"main", "connected", "refused", "aborted", "connectTimer", "error"}
        /\ DOMAIN AsyncTimeout = {"main", "connected", "refused", "onGet", "timer", "error"}
    BY DEF Publisher, Subscriber, AsyncTimeout
  <2> QED BY <2>1, Tables
<1> HIDE DEF Shape
<1>3. CASE f \notin DOMAIN Program[p] /\ s = left
  BY <1>2, <1>3 DEF Lasting
<1>4. CASE f \in DOMAIN Program[p] /\ \E body \in Program[p][f] :
                 /\ body \in Seq(Instruction) /\ s = body \o left
                 /\ Range(s) = Range(body) \cup Range(left)
  <2>1. PICK body \in Program[p][f] : /\ body \in Seq(Instruction) /\ s = body \o left
                                      /\ Range(s) = Range(body) \cup Range(left)
    BY <1>4
  <2>2. Shape(body)
    BY <1>1, <1>4
  <2>3. /\ \A call : Makes(body, call) \/ Makes(left, call) => Makes(s, call)
        /\ \A t : Waits(body, t) \/ Waits(left, t) => Waits(s, t)
    BY <2>1 DEF Makes, Waits
  <2>4. \A a, b : Followed(body, a, b) /\ Followed(left, a, b) => Followed(s, a, b)
    BY <2>1, FollowedConcat
  <2>5. body = <<Cancel("timer")>> /\ left = <<>> => s = <<Cancel("timer")>>
    BY <2>1
  <2> QED BY <2>2, <2>3, <2>4, <2>5 DEF Shape
<1> QED BY <1>3, <1>4, RangeAfter

\* The first call of what is left is taken from it.
LEMMA TailMakes ==
    ASSUME NEW s \in Seq(Instruction), s # <<>>
    PROVE  /\ \A call : Makes(s, call) /\ Head(s).call # call => Makes(Tail(s), call)
           /\ \A t : Waits(s, t) /\ ~(Head(s).call = "wait" /\ Head(s).arg = t) => Waits(Tail(s), t)
           /\ \A x \in Range(s) : x = Head(s) \/ x \in Range(Tail(s))
<1>1. Len(s) \in Nat \ {0} /\ DOMAIN s = 1 .. Len(s) /\ Head(s) = s[1]
      /\ DOMAIN Tail(s) = 1 .. Len(s) - 1
      /\ \A i \in 1 .. Len(s) - 1 : Tail(s)[i] = s[i + 1]
  BY EmptySeq, LenProperties, HeadTailProperties
<1>2. ASSUME NEW i \in DOMAIN s PROVE i = 1 \/ \E j \in DOMAIN Tail(s) : s[i] = Tail(s)[j]
  <2>1. i = 1 \/ (i - 1 \in 1 .. Len(s) - 1 /\ (i - 1) + 1 = i)
    BY <1>1
  <2> QED BY <1>1, <2>1
<1>3. \A x \in Range(s) : x = Head(s) \/ x \in Range(Tail(s))
  BY <1>1, <1>2 DEF Range
<1> QED BY <1>3 DEF Makes, Waits

\* What is left when one element is taken out.
LEMMA RemoveAtElements ==
    ASSUME NEW S, NEW s \in Seq(S), NEW i \in DOMAIN s
    PROVE  /\ \A k \in 1 .. i - 1 : RemoveAt(s, i)[k] = s[k]
           /\ \A k \in i .. Len(s) - 1 : RemoveAt(s, i)[k] = s[k + 1]
<1>0. DOMAIN s = 1 .. Len(s) /\ Len(s) \in Nat /\ \A j \in 1 .. Len(s) : s[j] \in S
  BY LenProperties, ElementOfSeq
<1>1. /\ SubSeq(s, 1, i - 1) \in Seq(S) /\ Len(SubSeq(s, 1, i - 1)) = i - 1
      /\ \A k \in 1 .. i - 1 : SubSeq(s, 1, i - 1)[k] = s[k]
  BY <1>0, SubSeqProperties
<1>2. /\ SubSeq(s, i + 1, Len(s)) \in Seq(S)
      /\ Len(SubSeq(s, i + 1, Len(s))) = Len(s) - i
      /\ \A k \in 1 .. Len(s) - i : SubSeq(s, i + 1, Len(s))[k] = s[i + k]
  <2>1. i + 1 \in 1 .. Len(s) + 1 /\ Len(s) - (i + 1) + 1 = Len(s) - i
    BY <1>0
  <2>2. \A k \in 1 .. Len(s) - i : (i + 1) + k - 1 = i + k
    BY <1>0
  <2> QED BY <2>1, <2>2, SuffixProperties
<1>3. \A k \in 1 .. Len(s) - 1 :
         RemoveAt(s, i)[k] = IF k <= i - 1 THEN SubSeq(s, 1, i - 1)[k] ELSE SubSeq(s, i + 1, Len(s))[k - (i - 1)]
  <2> DEFINE a == SubSeq(s, 1, i - 1)
             b == SubSeq(s, i + 1, Len(s))
  <2>1. a \in Seq(S) /\ b \in Seq(S) /\ Len(a) = i - 1 /\ Len(b) = Len(s) - i /\ RemoveAt(s, i) = a \o b
    BY <1>1, <1>2 DEF RemoveAt
  <2>2. (i - 1) + (Len(s) - i) = Len(s) - 1
    BY <1>0
  <2> HIDE DEF a, b
  <2>3. \A k \in 1 .. Len(a) + Len(b) : (a \o b)[k] = IF k <= Len(a) THEN a[k] ELSE b[k - Len(a)]
    BY <2>1, ConcatProperties
  <2>4. \A k \in 1 .. Len(s) - 1 : RemoveAt(s, i)[k] = IF k <= i - 1 THEN a[k] ELSE b[k - (i - 1)]
    BY <2>1, <2>2, <2>3
  <2> QED BY <2>4 DEF a, b
<1>4. ASSUME NEW k \in 1 .. i - 1 PROVE RemoveAt(s, i)[k] = s[k]
  <2>1. k \in 1 .. Len(s) - 1 /\ k <= i - 1
    BY <1>0
  <2> QED BY <1>1, <1>3, <2>1
<1>5. ASSUME NEW k \in i .. Len(s) - 1 PROVE RemoveAt(s, i)[k] = s[k + 1]
  <2>1. k \in 1 .. Len(s) - 1 /\ ~(k <= i - 1) /\ k - (i - 1) \in 1 .. Len(s) - i /\ i + (k - (i - 1)) = k + 1
    BY <1>0
  <2>2. RemoveAt(s, i)[k] = SubSeq(s, i + 1, Len(s))[k - (i - 1)]
    BY <1>3, <2>1
  <2>3. SubSeq(s, i + 1, Len(s))[k - (i - 1)] = s[i + (k - (i - 1))]
    BY <1>2, <2>1
  <2> QED BY <2>1, <2>2, <2>3
<1> QED BY <1>4, <1>5

\* Taking out an element leaves the others.
LEMMA OthersRemain ==
    ASSUME NEW S, NEW s \in Seq(S), NEW i \in DOMAIN s, NEW j \in DOMAIN s, i # j
    PROVE  \E k \in DOMAIN RemoveAt(s, i) : RemoveAt(s, i)[k] = s[j]
<1>1. DOMAIN s = 1 .. Len(s) /\ Len(s) \in Nat /\ DOMAIN RemoveAt(s, i) = 1 .. Len(s) - 1
  BY LenProperties, RemoveAtType
<1>2. CASE j < i
  <2>1. j \in 1 .. i - 1 /\ j \in 1 .. Len(s) - 1
    BY <1>1, <1>2
  <2> QED BY <1>1, <2>1, RemoveAtElements
<1>3. CASE j > i
  <2>1. j - 1 \in i .. Len(s) - 1 /\ j - 1 \in 1 .. Len(s) - 1 /\ (j - 1) + 1 = j
    BY <1>1, <1>3
  <2>2. RemoveAt(s, i)[j - 1] = s[(j - 1) + 1]
    BY <2>1, RemoveAtElements
  <2> QED BY <1>1, <2>1, <2>2
<1> QED BY <1>1, <1>2, <1>3

\* An element whose removal leaves the same as that of the first is equal to the first: the least
\* one up to it that is not would follow one that is.
LEMMA RemovedLikeFirst ==
    ASSUME NEW S, NEW s \in Seq(S), NEW i \in DOMAIN s, RemoveAt(s, i) = Tail(s)
    PROVE  s[i] = s[1]
<1>1. /\ DOMAIN s = 1 .. Len(s) /\ Len(s) \in Nat /\ i \in 1 .. Len(s) /\ s # <<>>
      /\ \A k \in 1 .. Len(s) - 1 : Tail(s)[k] = s[k + 1]
  BY LenProperties, EmptySeq, HeadTailProperties
<1>2. \A k \in 1 .. i - 1 : s[k] = s[k + 1]
  <2> SUFFICES ASSUME NEW k \in 1 .. i - 1 PROVE s[k] = s[k + 1]
    OBVIOUS
  <2>1. k \in 1 .. Len(s) - 1
    BY <1>1
  <2> QED BY <1>1, <2>1, RemoveAtElements
<1> DEFINE T == {k \in 1 .. i : s[k] # s[1]}
<1>3. SUFFICES T = {}
  BY <1>1
<1>4. SUFFICES ASSUME T # {} PROVE FALSE
  OBVIOUS
<1>5. PICK k \in T : \A y \in T : k <= y
  <2>1. T \subseteq Nat
    BY <1>1
  <2> HIDE DEF T
  <2> QED BY <1>4, <2>1, SmallestOf
<1>6. k \in 1 .. i /\ k # 1
  OBVIOUS
<1>7. k - 1 \in 1 .. i - 1 /\ (k - 1) + 1 = k /\ k - 1 \in 1 .. i /\ ~(k <= k - 1)
  BY <1>1, <1>6
<1>8. s[k - 1] = s[1]
  BY <1>5, <1>7
<1>9. s[k] = s[1]
  BY <1>2, <1>7, <1>8
<1> QED BY <1>5, <1>9

\* What a call of a program comes to, for the client's state, its operations and the timers.
ClientSame == UNCHANGED <<state, connectOps, readOps, frame>>

Passed(s, left) ==
    state \notin s.in /\ script' = left /\ ClientSame /\ UNCHANGED <<timers, ended>>
Attempting(s, left) ==
    /\ s.call = "connect" /\ script' = left
    /\ state' = "Connecting" /\ connectOps' # <<>> /\ UNCHANGED <<readOps, frame, timers, ended>>
AtOnce(s, left) ==
    /\ s.call = "connect" /\ script' \in After(program, "connected", left)
    /\ state \notin {"Unconnected", "Closed"} /\ ClientSame /\ UNCHANGED <<timers, ended>>
Closing(s, left) ==
    /\ s.call = "disconnect" /\ script' = left
    /\ state' = "Closed" /\ UNCHANGED <<frame, ended>>
    /\ \A t \in Timers : t # s.arg => timers'[t] = timers[t]
Requesting(s, left) ==
    /\ s.call \in {"command", "publish", "subscribe"} /\ script' = left
    /\ state \in {"Connected", "Subscribed"} /\ state' = IF s.call = "subscribe" THEN "Subscribed" ELSE state
    /\ UNCHANGED <<connectOps, readOps, frame, timers, ended>>
Refused(s, left) ==
    /\ s.call \in {"command", "publish", "subscribe"} /\ script' \in After(program, "error", left)
    /\ ClientSame /\ UNCHANGED <<timers, ended>>
Timing(s, left) ==
    /\ s.call \in {"wait", "cancel"} /\ script' = left /\ ClientSame /\ UNCHANGED ended
    /\ s.arg \in Timers
    /\ timers' = [timers EXCEPT ![s.arg].waiting = (s.call = "wait")]

LEMMA StatementSummary ==
    ASSUME TypeOK, ProgTypeOK, Statement
    PROVE  \/ Passed(Head(script), Tail(script)) \/ Attempting(Head(script), Tail(script))
           \/ AtOnce(Head(script), Tail(script)) \/ Closing(Head(script), Tail(script))
           \/ Requesting(Head(script), Tail(script)) \/ Refused(Head(script), Tail(script))
           \/ Timing(Head(script), Tail(script)) \/ ended'
<1> DEFINE s == Head(script)
           left == Tail(script)
           Goal == \/ Passed(s, left) \/ Attempting(s, left) \/ AtOnce(s, left) \/ Closing(s, left)
                   \/ Requesting(s, left) \/ Refused(s, left) \/ Timing(s, left) \/ ended'
<1> SUFFICES Goal
  OBVIOUS
<1>0. UNCHANGED vars => ClientSame
  BY DEF vars, clientVars, envVars, linkVars, opVars, loopVars, ClientSame
<1>1. \/ state \notin s.in /\ PassOver(left)
      \/ s.call = "connect" /\ CallConnect(left)
      \/ s.call = "disconnect" /\ CallDisconnect(s.arg, left)
      \/ s.call = "command" /\ CallRequest(Command, state = "Connected", s.arg, left)
      \/ s.call = "publish" /\ CallRequest(Publish, state = "Connected", None, left)
      \/ s.call = "subscribe" /\ \E ch \in Channels : CallRequest(Subscribe(ch), Subscribable, None, left)
      \/ s.call = "wait" /\ s.arg \in Timers /\ WaitOrCancel(s.arg, TRUE, left)
      \/ s.call = "cancel" /\ s.arg \in Timers /\ WaitOrCancel(s.arg, FALSE, left)
      \/ End
  BY StatementCases
<1> HIDE DEF s, left
<1>2. CASE state \notin s.in /\ PassOver(left)
  BY <1>0, <1>2 DEF PassOver, Passed
<1>3. CASE s.call = "connect" /\ CallConnect(left)
  <2>1. CASE state \in {"Unconnected", "Closed"}
    <3>1. /\ state' = "Connecting" /\ StartConnect /\ script' = left
          /\ UNCHANGED <<readOps, frame, timers, ended>>
      BY <1>3, <2>1 DEF CallConnect, Connect
    <3>2. connectOps' # <<>>
      <4>1. connectOps \in Seq({"pending", "ok", "error", "aborted"})
        BY DEF TypeOK, EnvTypeOK
      <4>2. PICK o \in {"pending", "error"} : connectOps' = Append(connectOps, o)
        BY <3>1 DEF StartConnect
      <4>3. Len(connectOps') = Len(connectOps) + 1 /\ Len(connectOps) \in Nat
        BY <4>1, <4>2
      <4>4. Len(connectOps') # 0
        BY <4>3
      <4> QED BY <4>4
    <3> QED BY <1>3, <3>1, <3>2 DEF Attempting
  <2>2. CASE state \notin {"Unconnected", "Closed"}
    <3>1. ClientSame /\ UNCHANGED <<timers, ended>>
      BY <1>3, <2>2 DEF CallConnect, Connect, ClientSame
    <3>2. script' \in After(program, "connected", left)
      BY <1>3, <2>2, CallBackIs DEF CallConnect
    <3> QED BY <1>3, <2>2, <3>1, <3>2 DEF AtOnce
  <2> QED BY <2>1, <2>2
<1>4. CASE s.call = "disconnect" /\ CallDisconnect(s.arg, left)
  <2>1. state' = "Closed" /\ UNCHANGED <<frame, ended>> /\ script' = left
    BY <1>4 DEF CallDisconnect, Disconnect, Close, loopVars
  <2>2. \A t \in Timers : t # s.arg => timers'[t] = timers[t]
    BY <1>4 DEF CallDisconnect
  <2> QED BY <1>4, <2>1, <2>2 DEF Closing
<1>5. CASE \/ s.call = "command" /\ CallRequest(Command, state = "Connected", s.arg, left)
           \/ s.call = "publish" /\ CallRequest(Publish, state = "Connected", None, left)
  <2>1. UNCHANGED <<state, connectOps, readOps, frame, timers, ended>>
    BY <1>5 DEF CallRequest, Command, Publish, Request1, envVars, opVars, loopVars
  <2>2. (state = "Connected" /\ script' = left) \/ script' \in After(program, "error", left)
    BY <1>5, CallBackIs DEF CallRequest
  <2> QED BY <1>5, <2>1, <2>2 DEF Requesting, Refused, ClientSame
<1>6. CASE s.call = "subscribe" /\ \E ch \in Channels : CallRequest(Subscribe(ch), Subscribable, None, left)
  <2>1. PICK ch \in Channels : CallRequest(Subscribe(ch), Subscribable, None, left)
    BY <1>6
  <2>2. UNCHANGED <<connectOps, readOps, frame, timers, ended>>
    BY <2>1 DEF CallRequest, Subscribe, envVars, opVars, loopVars
  <2>3. \/ Subscribable /\ state' = "Subscribed" /\ script' = left
        \/ ~Subscribable /\ state' = state /\ script' \in After(program, "error", left)
    BY <2>1, CallBackIs DEF CallRequest, Subscribe
  <2> QED BY <1>6, <2>2, <2>3 DEF Requesting, Refused, ClientSame, Subscribable
<1>7. CASE \/ s.call = "wait" /\ s.arg \in Timers /\ WaitOrCancel(s.arg, TRUE, left)
           \/ s.call = "cancel" /\ s.arg \in Timers /\ WaitOrCancel(s.arg, FALSE, left)
  <2>1. UNCHANGED <<vars, ended>> /\ script' = left /\ s.arg \in Timers /\ s.call \in {"wait", "cancel"}
    BY <1>7 DEF WaitOrCancel
  <2>2. timers' = [timers EXCEPT ![s.arg].waiting = (s.call = "wait")]
    BY <1>7 DEF WaitOrCancel
  <2>3. ClientSame
    BY <1>0, <2>1
  <2> QED BY <2>1, <2>2, <2>3 DEF Timing
<1>8. CASE End
  BY <1>8 DEF End
<1> QED BY <1>1, <1>2, <1>3, <1>4, <1>5, <1>6, <1>7, <1>8

LEMMA LastingCalls ==
    ASSUME NEW p \in Lasting, NEW s \in Vocabulary(p)
    PROVE  /\ s.call \in {"connect", "wait", "cancel"} => s.in = State
           /\ s.call = "cancel" => p = "async_timeout"
           /\ s.call \in {"wait", "cancel"} /\ p = "async_timeout" => s.arg = "timer"
           /\ s.call = "disconnect" => s.arg = IF p = "publisher" THEN "publishTimer" ELSE None
           /\ s.call = "subscribe" => p = "subscriber"
           /\ s.call = "disconnect" /\ p = "subscriber" => s.in = {"Connected", "Subscribed"}
           /\ s.call = "disconnect" /\ p = "publisher" => s.in = {"Connected"}
<1>1. CASE p = "publisher"
  BY <1>1, PublisherCalls DEF CallIs
<1>2. CASE p = "subscriber"
  BY <1>2, SubscriberCalls DEF CallIs
<1>3. CASE p = "async_timeout"
  BY <1>3, TimeoutCalls DEF CallIs
<1> QED BY <1>1, <1>2, <1>3 DEF Lasting

\* What a handler of the client comes to: a connection attempt that ends, or a step that leaves the
\* client's state, and a function called with the error or the reply.
LEMMA HandlerSummary ==
    ASSUME TypeOK, OrderInv, ProgTypeOK, HandlerRuns
    PROVE  /\ UNCHANGED <<program, timers, ended>> /\ script = <<>>
           /\ \/ \E o \in {"ok", "error", "aborted"} :
                    /\ state' = IF o = "ok" THEN "Connected" ELSE "Unconnected"
                    /\ o = "ok" => frame' = "connect"
                    /\ script' \in After(program, Outcome[o], <<>>)
              \/ /\ UNCHANGED <<state, connectOps>>
                 /\ \/ script' = <<>>
                    \/ \E f \in {"error", None} \cup ReplyFunctions : script' \in After(program, f, <<>>)
<1>1. UNCHANGED <<program, timers, ended>> /\ script = <<>>
  BY HandlerCalls
<1>2. CASE HandleAsyncConnect /\ connectOps' = Tail(connectOps)
           /\ script' \in After(program, Outcome[connectOps[1]], <<>>)
  <2>1. connectOps \in Seq({"pending", "ok", "error", "aborted"})
    BY DEF TypeOK, EnvTypeOK
  <2>2. PICK i \in DOMAIN connectOps :
          /\ connectOps[i] # "pending" /\ connectOps' = RemoveAt(connectOps, i)
          /\ state' = IF connectOps[i] = "ok" THEN "Connected" ELSE "Unconnected"
          /\ connectOps[i] = "ok" => frame' = "connect"
    BY <1>2 DEF HandleAsyncConnect
  <2>3. RemoveAt(connectOps, i) = Tail(connectOps)
    BY <1>2, <2>2
  <2>4. connectOps[i] = connectOps[1]
    BY <2>1, <2>3, RemovedLikeFirst
  <2>5. connectOps[i] \in {"ok", "error", "aborted"}
    BY <2>1, <2>2
  <2> QED BY <1>1, <1>2, <2>2, <2>4, <2>5
<1>3. CASE ~HandleAsyncConnect
  <2>1. UNCHANGED <<state, connectOps>>
    BY <1>3, HandlerRunsIsHandler DEF Handler, DoAsyncCommand, CallMessageHandler, AsyncWrite,
        ConnectHandlerReturns, AsyncRead, ReadLoop, ReadAgain, ParseChunk, HandlerReturns,
        ErrorHandlerReturns, envVars, opVars
  <2>2. ParseChunk /\ frame' = "handler" => onReply[Head(handlers)] \in {None} \cup ReplyFunctions
    <3> SUFFICES ASSUME ParseChunk, frame' = "handler" PROVE onReply[Head(handlers)] \in {None} \cup ReplyFunctions
      OBVIOUS
    <3>1. handlers # <<>> /\ frame # "handler"
      BY CallsTheFront DEF ParseChunk
    <3> QED BY <3>1, FrontOfQueue
  <2> QED BY <1>1, <1>3, <2>1, <2>2, HandlerCalls
<1>4. HandleAsyncConnect =>
        connectOps' = Tail(connectOps) /\ script' \in After(program, Outcome[connectOps[1]], <<>>)
  <2> SUFFICES ASSUME HandleAsyncConnect
               PROVE  connectOps' = Tail(connectOps) /\ script' \in After(program, Outcome[connectOps[1]], <<>>)
    OBVIOUS
  <2>1. frame = "none" /\ connectOps' # connectOps
    <3>1. PICK i \in DOMAIN connectOps : connectOps' = RemoveAt(connectOps, i)
      BY DEF HandleAsyncConnect
    <3>2. connectOps \in Seq({"pending", "ok", "error", "aborted"})
      BY DEF TypeOK, EnvTypeOK
    <3>3. Len(RemoveAt(connectOps, i)) = Len(connectOps) - 1 /\ Len(connectOps) \in Nat
      BY <3>2, RemoveAtType, LenProperties
    <3> QED BY <3>1, <3>3 DEF HandleAsyncConnect
  <2>2. ~(Silent \/ Wrote \/ HandledRead \/ Parsed)
    BY <2>1 DEF Silent, Wrote, HandledRead, Parsed, DoAsyncCommand, CallMessageHandler, AsyncWrite,
        ConnectHandlerReturns, AsyncRead, ReadAgain, ParseChunk, HandlerReturns,
        ErrorHandlerReturns, envVars, opVars
  <2> QED BY <2>2, CallBackIs DEF HandlerRuns, HandledConnect
<1> QED BY <1>2, <1>3, <1>4

\* A timer that runs, or has run out, or is about to be started.
Alive(t) == timers[t].waiting \/ timers[t].due > 0 \/ Waits(script, t)

\* It stays so through every call but one that disconnects or cancels with it.
LEMMA AliveThroughCalls ==
    ASSUME TypeOK, ProgTypeOK, ScriptOfProgram, program \in Lasting, Statement, ~ended',
           NEW t \in Timers, Alive(t),
           Head(script).call \in {"disconnect", "cancel"} => Head(script).arg # t
    PROVE  Alive(t)'
<1> DEFINE s == Head(script)
           left == Tail(script)
<1>1. /\ program' = program /\ script # <<>> /\ script \in Seq(Instruction) /\ left \in Seq(Instruction)
      /\ s \in Vocabulary(program) /\ program \in Programs /\ state \in State
  BY StatementCases DEF ProgTypeOK, ScriptOfProgram, TypeOK
<1>2. timers \in [Timers -> [waiting : BOOLEAN, due : 0 .. MaxExpiries]]
  BY DEF ProgTypeOK
<1>3. Waits(script, t) /\ ~(s.call = "wait" /\ s.arg = t) => Waits(left, t)
  BY <1>1, TailMakes
<1>4. /\ Passed(s, left) \/ Attempting(s, left) \/ AtOnce(s, left) \/ Closing(s, left)
         \/ Requesting(s, left) \/ Refused(s, left) \/ Timing(s, left)
      /\ s.call \in {"disconnect", "cancel"} => s.arg # t
  BY StatementSummary
<1> DEFINE Ticks(tm) == tm[t].waiting \/ tm[t].due > 0
<1>5. \A f : script' \in After(program, f, left) => (Waits(left, t) => Waits(script', t))
  BY <1>1, AfterLasting
<1>6. SUFFICES Ticks(timers') \/ Waits(script', t)
  BY DEF Alive
<1>7. Ticks(timers) \/ Waits(script, t)
  BY DEF Alive
<1> HIDE DEF s, left
<1>8. CASE Passed(s, left)
  <2>1. ~(s.call = "wait")
    BY <1>1, <1>8, LastingCalls DEF Passed
  <2> QED BY <1>3, <1>7, <1>8, <2>1 DEF Passed
<1>9. CASE Attempting(s, left)
  BY <1>3, <1>7, <1>9 DEF Attempting
<1>10. CASE AtOnce(s, left)
  BY <1>3, <1>5, <1>7, <1>10 DEF AtOnce
<1>11. CASE Closing(s, left)
  <2>1. timers'[t] = timers[t] /\ script' = left /\ s.call = "disconnect"
    BY <1>4, <1>11 DEF Closing
  <2> QED BY <1>3, <1>7, <2>1
<1>12. CASE Requesting(s, left)
  BY <1>3, <1>7, <1>12 DEF Requesting
<1>13. CASE Refused(s, left)
  BY <1>3, <1>5, <1>7, <1>13 DEF Refused
<1>14. CASE Timing(s, left)
  <2>1. CASE s.arg = t
    <3>1. s.call = "wait" /\ timers' = [timers EXCEPT ![t].waiting = TRUE]
      BY <1>4, <1>14, <2>1 DEF Timing
    <3>2. timers'[t].waiting
      BY <1>2, <3>1
    <3> QED BY <3>2
  <2>2. CASE s.arg # t
    <3>1. timers'[t] = timers[t] /\ script' = left
      BY <1>2, <1>14, <2>2 DEF Timing
    <3> QED BY <1>3, <1>7, <2>2, <3>1
  <2> QED BY <2>1, <2>2
<1> QED BY <1>4, <1>8, <1>9, <1>10, <1>11, <1>12, <1>13, <1>14

\* A lasting program that is not connected is about to connect, trying to, or has a timer to try again.
Onward ==
    /\ Followed(script, "disconnect", "connect")
    /\ state = "Closed" => Makes(script, "connect")
    /\ state = "Connecting" => connectOps # <<>>
    /\ state = "Unconnected" /\ program \in {"publisher", "subscriber"} =>
          Alive("connectTimer") \/ Makes(script, "connect")

Sound == TypeOK /\ ProgTypeOK /\ ScriptOfProgram

LEMMA OnwardStatement ==
    ASSUME Sound, program \in Lasting, Onward, Statement, ~ended'
    PROVE  Onward'
<1> DEFINE s == Head(script)
           left == Tail(script)
<1>1. /\ program' = program /\ script # <<>> /\ script \in Seq(Instruction) /\ left \in Seq(Instruction)
      /\ s \in Vocabulary(program) /\ program \in Programs /\ state \in State
  BY StatementCases DEF Sound, ProgTypeOK, ScriptOfProgram, TypeOK
<1>2. /\ Passed(s, left) \/ Attempting(s, left) \/ AtOnce(s, left) \/ Closing(s, left)
         \/ Requesting(s, left) \/ Refused(s, left) \/ Timing(s, left)
  BY StatementSummary DEF Sound
<1>3. /\ Followed(left, "disconnect", "connect")
      /\ s.call = "disconnect" => Makes(left, "connect")
      /\ Makes(script, "connect") /\ s.call # "connect" => Makes(left, "connect")
  BY <1>1, FollowedTail, TailMakes DEF Onward, Makes
<1>4. \A f : script' \in After(program, f, left) =>
              /\ Followed(script', "disconnect", "connect")
              /\ Makes(left, "connect") => Makes(script', "connect")
  BY <1>1, <1>3, AfterLasting
<1>5. Followed(script', "disconnect", "connect")
  BY <1>2, <1>3, <1>4 DEF Passed, Attempting, AtOnce, Closing, Requesting, Refused, Timing
<1>6. "connectTimer" \in Timers /\ "connectTimer" # None /\ "connectTimer" # "publishTimer"
  BY DEF Timers, None
<1>7. Alive("connectTimer") /\ program \in {"publisher", "subscriber"} => Alive("connectTimer")'
  <2> SUFFICES ASSUME Alive("connectTimer"), program \in {"publisher", "subscriber"} PROVE Alive("connectTimer")'
    OBVIOUS
  <2>1. s.call \in {"disconnect", "cancel"} => s.arg # "connectTimer"
    BY <1>1, <1>6, LastingCalls
  <2> QED BY <1>6, <2>1, AliveThroughCalls DEF Sound
<1>8. s.call = "connect" => s.in = State
  BY <1>1, LastingCalls
<1> HIDE DEF s, left
<1>9. CASE Attempting(s, left)
  BY <1>5, <1>9 DEF Attempting, Onward
<1>10. CASE Closing(s, left)
  BY <1>3, <1>5, <1>10 DEF Closing, Onward
<1>11. CASE Passed(s, left) \/ AtOnce(s, left) \/ Requesting(s, left) \/ Refused(s, left) \/ Timing(s, left)
  <2>1. state' = state \/ state' = "Subscribed"
    BY <1>11 DEF Passed, AtOnce, Requesting, Refused, Timing, ClientSame
  <2>2. connectOps' = connectOps
    BY <1>11 DEF Passed, AtOnce, Requesting, Refused, Timing, ClientSame
  <2>3. state \in {"Closed", "Unconnected"} /\ Makes(script, "connect") => Makes(script', "connect")
    <3>1. state \in {"Closed", "Unconnected"} => s.call # "connect" \/ ~(Passed(s, left) \/ AtOnce(s, left))
      BY <1>1, <1>8 DEF Passed, AtOnce
    <3> QED BY <1>3, <1>4, <1>11, <3>1 DEF Passed, AtOnce, Requesting, Refused, Timing
  <2> QED BY <1>1, <1>5, <1>7, <2>1, <2>2, <2>3 DEF Onward
<1> QED BY <1>2, <1>9, <1>10, <1>11

LEMMA OnwardHandler ==
    ASSUME Sound, OrderInv, program \in Lasting, Onward, HandlerRuns
    PROVE  Onward'
<1>1. /\ UNCHANGED <<program, timers>> /\ script = <<>> /\ program \in Programs
      /\ <<>> \in Seq(Instruction)
  BY HandlerSummary, EmptySeq DEF Sound, ProgTypeOK
<1>2. ~Makes(<<>>, "connect") /\ Followed(<<>>, "disconnect", "connect") /\ \A t : ~Waits(<<>>, t)
  BY FollowedNothing, RangeOfParts, EmptySeq DEF Makes, Waits
<1>3. \A f : script' \in After(program, f, <<>>) => Followed(script', "disconnect", "connect")
  BY <1>1, <1>2, AfterLasting
<1>4. CASE \E o \in {"ok", "error", "aborted"} :
                    /\ state' = IF o = "ok" THEN "Connected" ELSE "Unconnected"
                    /\ o = "ok" => frame' = "connect"
                    /\ script' \in After(program, Outcome[o], <<>>)
  <2>1. PICK o \in {"ok", "error", "aborted"} :
                    /\ state' = IF o = "ok" THEN "Connected" ELSE "Unconnected"
                    /\ script' \in After(program, Outcome[o], <<>>)
    BY <1>4
  <2>2. o # "ok" => Outcome[o] \in {"refused", "aborted"}
    BY DEF Outcome
  <2>3. o # "ok" /\ program \in {"publisher", "subscriber"} => Waits(script', "connectTimer")
    BY <1>1, <2>1, <2>2, AfterLasting
  <2>4. o # "ok" /\ program \in {"publisher", "subscriber"} => Alive("connectTimer")'
    BY <2>3 DEF Alive
  <2> QED BY <1>1, <1>3, <2>1, <2>4 DEF Onward
<1>5. CASE /\ UNCHANGED <<state, connectOps>>
           /\ \/ script' = <<>>
              \/ \E f \in {"error", None} \cup ReplyFunctions : script' \in After(program, f, <<>>)
  <2>1. Followed(script', "disconnect", "connect")
    BY <1>2, <1>3, <1>5
  <2>2. Alive("connectTimer") => Alive("connectTimer")'
    BY <1>1, <1>2 DEF Alive
  <2> QED BY <1>1, <1>2, <1>5, <2>1, <2>2 DEF Onward
<1> QED BY <1>4, <1>5, HandlerSummary DEF Sound

\* The client does not notice a timer.
LEMMA TimerSteps ==
    ASSUME Sound, NEW u \in Timers, Expire(u) \/ OnTimer(u)
    PROVE  /\ UNCHANGED <<state, connectOps, readOps, frame, program, ended>>
           /\ \/ script' = script /\ \A t \in Timers : Alive(t) => Alive(t)'
              \/ script = <<>> /\ script' \in After(program, u, <<>>) /\ \A t \in Timers : t # u => timers'[t] = timers[t]
<1>1. UNCHANGED <<vars, program, ended>>
  BY DEF Expire, OnTimer
<1>2. UNCHANGED <<state, connectOps, readOps, frame>>
  BY <1>1 DEF vars, clientVars, envVars, linkVars, opVars, loopVars
<1>3. timers \in [Timers -> [waiting : BOOLEAN, due : 0 .. MaxExpiries]] /\ MaxExpiries \in Nat
  BY ProgramsAssumption DEF Sound, ProgTypeOK
<1>4. CASE Expire(u)
  <2>1. script' = script
    BY <1>4 DEF Expire
  <2>2. \A t \in Timers : timers'[t] = IF t = u THEN [waiting |-> FALSE, due |-> timers[u].due + 1] ELSE timers[t]
    BY <1>3, <1>4 DEF Expire
  <2>3. timers'[u].due > 0
    <3>1. timers[u].due \in 0 .. MaxExpiries
      BY <1>3
    <3> QED BY <1>3, <2>2, <3>1
  <2>4. \A t \in Timers : Alive(t) => Alive(t)'
    BY <2>1, <2>2, <2>3 DEF Alive
  <2> QED BY <1>1, <1>2, <2>1, <2>4
<1>5. CASE OnTimer(u)
  <2>1. script = <<>> /\ script' \in After(program, u, <<>>)
    BY <1>5, CallBackIs DEF OnTimer, AtRest
  <2>2. \A t \in Timers : t # u => timers'[t] = timers[t]
    BY <1>3, <1>5 DEF OnTimer
  <2> QED BY <1>1, <1>2, <2>1, <2>2
<1> QED BY <1>4, <1>5

LEMMA OnwardTimer ==
    ASSUME Sound, program \in Lasting, Onward, NEW u \in Timers, Expire(u) \/ OnTimer(u)
    PROVE  Onward'
<1>1. UNCHANGED <<state, connectOps, program>>
  BY TimerSteps
<1>2. "connectTimer" \in Timers
  BY DEF Timers
<1>3. CASE script' = script /\ \A t \in Timers : Alive(t) => Alive(t)'
  BY <1>1, <1>2, <1>3 DEF Onward
<1>4. CASE script = <<>> /\ script' \in After(program, u, <<>>) /\ \A t \in Timers : t # u => timers'[t] = timers[t]
  <2>1. /\ ~Makes(<<>>, "connect") /\ Followed(<<>>, "disconnect", "connect") /\ \A t : ~Waits(<<>>, t)
        /\ <<>> \in Seq(Instruction) /\ program \in Programs
    BY FollowedNothing, RangeOfParts, EmptySeq DEF Makes, Waits, Sound, ProgTypeOK
  <2>2. /\ Followed(script', "disconnect", "connect")
        /\ program \in {"publisher", "subscriber"} /\ u = "connectTimer" => Makes(script', "connect")
    BY <1>4, <2>1, AfterLasting
  <2>3. u # "connectTimer" => timers'["connectTimer"] = timers["connectTimer"]
    BY <1>2, <1>4
  <2>4. u # "connectTimer" /\ Alive("connectTimer") => Alive("connectTimer")'
    BY <1>4, <2>1, <2>3 DEF Alive
  <2> QED BY <1>1, <1>4, <2>1, <2>2, <2>4 DEF Onward
<1> QED BY <1>3, <1>4, TimerSteps

\* While a program is connected the timer it goes on with is alive; async_timeout cancels its
\* timer only to start it again, or when it could not connect.
Timed ==
    /\ program = "publisher" /\ state = "Connected" => Alive("publishTimer")
    /\ program = "async_timeout" /\ state = "Connected" => Alive("timer")
    /\ program = "async_timeout" =>
          Followed(script, "cancel", "wait") \/ (script = <<Cancel("timer")>> /\ state = "Unconnected")
    /\ program # "subscriber" => state # "Subscribed"

LEMMA TimedStatement ==
    ASSUME Sound, program \in Lasting, Timed, Statement, ~ended'
    PROVE  Timed'
<1> DEFINE s == Head(script)
           left == Tail(script)
<1>1. /\ program' = program /\ script # <<>> /\ script \in Seq(Instruction) /\ left \in Seq(Instruction)
      /\ s \in Vocabulary(program) /\ program \in Programs /\ state \in State
      /\ Range(left) \subseteq Vocabulary(program)
  BY StatementCases DEF Sound, ProgTypeOK, ScriptOfProgram, TypeOK
<1>2. \/ Passed(s, left) \/ Attempting(s, left) \/ AtOnce(s, left) \/ Closing(s, left)
      \/ Requesting(s, left) \/ Refused(s, left) \/ Timing(s, left)
  BY StatementSummary DEF Sound
<1>3. "timer" \in Timers /\ "publishTimer" \in Timers /\ None # "timer"
  BY DEF Timers, None
<1>4. /\ s.call \in {"connect", "wait", "cancel"} => s.in = State
      /\ s.call = "cancel" => program = "async_timeout"
      /\ s.call \in {"wait", "cancel"} /\ program = "async_timeout" => s.arg = "timer"
      /\ s.call = "disconnect" => s.arg = IF program = "publisher" THEN "publishTimer" ELSE None
      /\ s.call = "subscribe" => program = "subscriber"
      /\ s.call = "disconnect" /\ program = "publisher" => s.in = {"Connected"}
  BY <1>1, LastingCalls
<1>5. ASSUME NEW t \in Timers, Alive(t), s.call \in {"disconnect", "cancel"} => s.arg # t
      PROVE  Alive(t)'
  BY <1>5, AliveThroughCalls DEF Sound
<1>6. /\ Followed(script, "cancel", "wait") => Followed(left, "cancel", "wait")
      /\ Followed(script, "cancel", "wait") /\ s.call = "cancel" => Makes(left, "wait")
      /\ script = <<Cancel("timer")>> => left = <<>> /\ s.call = "cancel"
  <2>1. /\ Followed(script, "cancel", "wait") => Followed(left, "cancel", "wait")
        /\ Followed(script, "cancel", "wait") /\ s.call = "cancel" => Makes(left, "wait")
    BY <1>1, FollowedTail DEF Makes
  <2>2. script = <<Cancel("timer")>> => left = <<>> /\ s.call = "cancel"
    BY DEF Cancel, Do, If
  <2> QED BY <2>1, <2>2
<1>7. program = "async_timeout" /\ Makes(left, "wait") => Waits(left, "timer")
  BY <1>1, LastingCalls DEF Makes, Waits
<1>8. program = "async_timeout" => \A f : f # "refused" /\ script' \in After(program, f, left) =>
         (Followed(left, "cancel", "wait") => Followed(script', "cancel", "wait"))
  BY <1>1, AfterLasting
<1> HIDE DEF s, left
<1>9. /\ state' = "Connected" => state = "Connected" /\ ~Attempting(s, left) /\ ~Closing(s, left)
      /\ program # "subscriber" => state' # "Subscribed"
  BY <1>2, <1>4 DEF Passed, Attempting, AtOnce, Closing, Requesting, Refused, Timing, ClientSame, Timed
<1>10. ASSUME program = "publisher", state' = "Connected" PROVE Alive("publishTimer")'
  <2>1. s.call # "cancel" /\ s.call # "disconnect"
    BY <1>2, <1>4, <1>9, <1>10 DEF Passed, AtOnce, Requesting, Refused, Timing
  <2> QED BY <1>3, <1>5, <1>9, <1>10, <2>1 DEF Timed
<1>11. ASSUME program = "async_timeout", state' = "Connected" PROVE Alive("timer")'
  <2>1. CASE s.call # "cancel"
    <3>1. s.call \in {"disconnect", "cancel"} => s.arg # "timer"
      BY <1>3, <1>4, <1>11, <2>1
    <3> QED BY <1>3, <1>5, <1>9, <1>11, <3>1 DEF Timed
  <2>2. CASE s.call = "cancel"
    <3>1. Waits(left, "timer")
      BY <1>6, <1>7, <1>9, <1>11, <2>2 DEF Timed
    <3>2. script' = left
      BY <1>1, <1>2, <1>4, <2>2 DEF Passed, Attempting, AtOnce, Closing, Requesting, Refused, Timing
    <3> QED BY <3>1, <3>2 DEF Alive
  <2> QED BY <2>1, <2>2
<1>12. ASSUME program = "async_timeout" PROVE Followed(script', "cancel", "wait")
  <2>1. CASE script = <<Cancel("timer")>>
    <3>1. script' = <<>>
      BY <1>1, <1>2, <1>4, <1>6, <2>1 DEF Passed, Attempting, AtOnce, Closing, Requesting, Refused, Timing
    <3> QED BY <3>1, FollowedNothing
  <2>2. CASE Followed(script, "cancel", "wait")
    BY <1>2, <1>6, <1>8, <1>12, <2>2 DEF Passed, Attempting, AtOnce, Closing, Requesting, Refused, Timing
  <2> QED BY <1>12, <2>1, <2>2 DEF Timed
<1> QED BY <1>1, <1>9, <1>10, <1>11, <1>12 DEF Timed

LEMMA TimedHandler ==
    ASSUME Sound, OrderInv, program \in Lasting, Timed, HandlerRuns
    PROVE  Timed'
<1>1. /\ UNCHANGED <<program, timers>> /\ script = <<>> /\ program \in Programs
      /\ <<>> \in Seq(Instruction) /\ Followed(<<>>, "cancel", "wait") /\ \A t : ~Waits(<<>>, t)
  BY HandlerSummary, EmptySeq, FollowedNothing, RangeOfParts DEF Sound, ProgTypeOK, Waits
<1>2. ASSUME NEW f, script' \in After(program, f, <<>>)
      PROVE  /\ f = "connected" /\ program = "publisher" => Waits(script', "publishTimer")
             /\ f = "connected" /\ program = "async_timeout" => Waits(script', "timer")
             /\ program = "async_timeout" =>
                   IF f = "refused" THEN script' = <<Cancel("timer")>> ELSE Followed(script', "cancel", "wait")
  BY <1>1, <1>2, AfterLasting
<1>3. CASE \E o \in {"ok", "error", "aborted"} :
                    /\ state' = IF o = "ok" THEN "Connected" ELSE "Unconnected"
                    /\ o = "ok" => frame' = "connect"
                    /\ script' \in After(program, Outcome[o], <<>>)
  <2>1. PICK o \in {"ok", "error", "aborted"} :
                    /\ state' = IF o = "ok" THEN "Connected" ELSE "Unconnected"
                    /\ script' \in After(program, Outcome[o], <<>>)
    BY <1>3
  <2>2. Outcome["ok"] = "connected" /\ Outcome["error"] = "refused" /\ Outcome["aborted"] = "aborted"
    BY DEF Outcome
  <2>3. CASE o = "ok"
    <3>1. /\ program = "publisher" => Waits(script', "publishTimer")
          /\ program = "async_timeout" => Waits(script', "timer") /\ Followed(script', "cancel", "wait")
      BY <1>2, <2>1, <2>2, <2>3
    <3> QED BY <1>1, <2>1, <2>3, <3>1 DEF Timed, Alive
  <2>4. CASE o # "ok"
    <3>1. state' = "Unconnected"
      BY <2>1, <2>4
    <3>2. program = "async_timeout" => script' = <<Cancel("timer")>> \/ Followed(script', "cancel", "wait")
      BY <1>2, <2>1, <2>2, <2>4
    <3> QED BY <1>1, <3>1, <3>2 DEF Timed
  <2> QED BY <2>3, <2>4
<1>4. CASE /\ UNCHANGED <<state, connectOps>>
           /\ \/ script' = <<>>
              \/ \E f \in {"error", None} \cup ReplyFunctions : script' \in After(program, f, <<>>)
  <2>1. "refused" \notin {"error", None} \cup ReplyFunctions
    BY DEF None, ReplyFunctions
  <2>2. program = "async_timeout" => Followed(script', "cancel", "wait")
    BY <1>1, <1>2, <1>4, <2>1
  <2>3. \A t : Alive(t) => Alive(t)'
    BY <1>1 DEF Alive
  <2> QED BY <1>1, <1>4, <2>2, <2>3 DEF Timed
<1> QED BY <1>3, <1>4, HandlerSummary DEF Sound

LEMMA TimedTimer ==
    ASSUME Sound, program \in Lasting, Timed, NEW u \in Timers, Expire(u) \/ OnTimer(u)
    PROVE  Timed'
<1>1. UNCHANGED <<state, program>>
  BY TimerSteps
<1>2. "publishTimer" \in Timers /\ "timer" \in Timers /\ u # "refused"
  BY DEF Timers
<1>3. CASE script' = script /\ \A t \in Timers : Alive(t) => Alive(t)'
  BY <1>1, <1>2, <1>3 DEF Timed
<1>4. CASE script = <<>> /\ script' \in After(program, u, <<>>) /\ \A t \in Timers : t # u => timers'[t] = timers[t]
  <2>1. /\ Followed(<<>>, "cancel", "wait") /\ \A t : ~Waits(<<>>, t)
        /\ <<>> \in Seq(Instruction) /\ program \in Programs
    BY FollowedNothing, RangeOfParts, EmptySeq DEF Waits, Sound, ProgTypeOK
  <2>2. /\ program = "async_timeout" => Followed(script', "cancel", "wait")
        /\ program = "publisher" /\ u = "publishTimer" => Waits(script', "publishTimer")
        /\ program = "async_timeout" /\ u = "timer" => Waits(script', "timer")
    BY <1>2, <1>4, <2>1, AfterLasting
  <2>3. \A t \in Timers : t # u /\ Alive(t) => Alive(t)'
    BY <1>4, <2>1 DEF Alive
  <2>4. \A t \in Timers : Waits(script', t) => Alive(t)'
    BY DEF Alive
  <2> QED BY <1>1, <1>2, <2>2, <2>3, <2>4 DEF Timed
<1> QED BY <1>3, <1>4, TimerSteps

\* A connected subscriber waits for a read that is not aborted, or is about to disconnect.
ReadLasts == \E i \in DOMAIN readOps : readOps[i].st # "aborted"
Listening ==
    program = "subscriber" /\ state \in {"Connected", "Subscribed"} /\ frame \in {"none", "error"}
        => ReadLasts \/ Makes(script, "disconnect")

LEMMA ListeningStatement ==
    ASSUME Sound, program \in Lasting, Listening, Statement, ~ended'
    PROVE  Listening'
<1> DEFINE s == Head(script)
           left == Tail(script)
<1>1. /\ program' = program /\ script # <<>> /\ script \in Seq(Instruction) /\ left \in Seq(Instruction)
      /\ s \in Vocabulary(program) /\ program \in Programs
  BY StatementCases DEF Sound, ProgTypeOK, ScriptOfProgram
<1>2. \/ Passed(s, left) \/ Attempting(s, left) \/ AtOnce(s, left) \/ Closing(s, left)
      \/ Requesting(s, left) \/ Refused(s, left) \/ Timing(s, left)
  BY StatementSummary DEF Sound
<1>3. s.call = "disconnect" /\ program = "subscriber" => s.in = {"Connected", "Subscribed"}
  BY <1>1, LastingCalls
<1>4. Makes(script, "disconnect") /\ s.call # "disconnect" => Makes(left, "disconnect")
  BY <1>1, TailMakes
<1>5. \A f : script' \in After(program, f, left) /\ Makes(left, "disconnect") => Makes(script', "disconnect")
  BY <1>1, AfterLasting
<1> HIDE DEF s, left
<1>6. SUFFICES ASSUME program = "subscriber", state' \in {"Connected", "Subscribed"}, frame' \in {"none", "error"}
               PROVE  ReadLasts' \/ Makes(script', "disconnect")
  BY <1>1 DEF Listening
<1>7. /\ state \in {"Connected", "Subscribed"} /\ UNCHANGED <<frame, readOps>>
      /\ s.call # "disconnect"
  BY <1>2, <1>3, <1>6 DEF Passed, Attempting, AtOnce, Closing, Requesting, Refused, Timing, ClientSame
<1>8. Makes(left, "disconnect") => Makes(script', "disconnect")
  BY <1>2, <1>5, <1>7 DEF Passed, Attempting, AtOnce, Closing, Requesting, Refused, Timing
<1> QED BY <1>4, <1>6, <1>7, <1>8 DEF Listening, ReadLasts

LEMMA AppendedReadLasts ==
    ASSUME TypeOK, readOps' = Append(readOps, StartedRead)
    PROVE  ReadLasts'
<1>1. readOps \in Seq(ReadOp) /\ StartedRead.st # "aborted" /\ Len(readOps) \in Nat
  BY LenProperties DEF TypeOK, EnvTypeOK, StartedRead
<1>2. Len(readOps) + 1 \in DOMAIN readOps' /\ readOps'[Len(readOps) + 1] = StartedRead
  <2>1. PICK r : r = StartedRead
    OBVIOUS
  <2>2. r \in ReadOp
    BY <2>1, OpTypes
  <2>3. readOps' = Append(readOps, r)
    BY <2>1
  <2> QED BY <1>1, <2>1, <2>2, <2>3, AppendProperties
<1> QED BY <1>1, <1>2 DEF ReadLasts

LEMMA ListeningHandler ==
    ASSUME Sound, program \in Lasting, Listening, HandlerRuns
    PROVE  Listening'
<1>1. /\ program' = program /\ script = <<>> /\ program \in Programs /\ <<>> \in Seq(Instruction)
      /\ ~Makes(<<>>, "disconnect")
  BY HandlerCalls, EmptySeq, RangeOfParts DEF Sound, ProgTypeOK, Makes
<1>2. SUFFICES ASSUME program = "subscriber", state' \in {"Connected", "Subscribed"}, frame' \in {"none", "error"}
               PROVE  ReadLasts' \/ Makes(script', "disconnect")
  BY <1>1 DEF Listening
<1>3. CallBack("error", <<>>) => Makes(script', "disconnect")
  <2>1. CallBack("error", <<>>) => script' \in After(program, "error", <<>>)
    BY CallBackIs
  <2>2. script' \in After(program, "error", <<>>) => Makes(script', "disconnect")
    BY <1>1, <1>2, AfterLasting DEF Lasting
  <2> QED BY <2>1, <2>2
<1>4. state \in {"Connected", "Subscribed"} /\ frame \in {"none", "error"} => ReadLasts
  BY <1>1, <1>2 DEF Listening
<1>5. CASE HandleAsyncConnect
  <2>1. PICK i \in DOMAIN connectOps :
          IF connectOps[i] = "ok" THEN frame' = "connect" ELSE state' = "Unconnected"
    BY <1>5 DEF HandleAsyncConnect
  <2> QED BY <1>2, <2>1
<1>6. CASE DoAsyncCommand \/ CallMessageHandler \/ AsyncWrite \/ ErrorHandlerReturns \/ HandlerReturns
  <2>1. UNCHANGED <<readOps, state>>
    BY <1>6 DEF DoAsyncCommand, CallMessageHandler, AsyncWrite, ErrorHandlerReturns, HandlerReturns, envVars, opVars
  <2>2. frame \in {"none", "error"}
    BY <1>2, <1>6 DEF DoAsyncCommand, CallMessageHandler, AsyncWrite, ErrorHandlerReturns, HandlerReturns, loopVars
  <2> QED BY <1>2, <1>4, <2>1, <2>2 DEF ReadLasts
<1>7. CASE ConnectHandlerReturns \/ ReadAgain
  <2>1. readOps' = Append(readOps, StartedRead)
    BY <1>7 DEF ConnectHandlerReturns, ReadAgain, ProcessMessage
  <2> QED BY <2>1, AppendedReadLasts DEF Sound
<1>8. CASE HandledRead
  <2>1. readOps \in Seq(ReadOp) /\ frame = "none" /\ state' = state
    BY <1>8 DEF Sound, TypeOK, EnvTypeOK, HandledRead, AsyncRead
  <2>2. PICK i \in DOMAIN readOps :
          /\ readOps[i].st # "pending" /\ readOps' = RemoveAt(readOps, i)
          /\ readOps[i].st = "ok" => frame' = "parse"
    BY <1>8 DEF HandledRead, AsyncRead
  <2>3. PICK j \in DOMAIN readOps : readOps[j].st # "aborted"
    BY <1>2, <1>4, <2>1 DEF ReadLasts
  <2>4. CASE i # j
    <3>1. \E k \in DOMAIN readOps' : readOps'[k] = readOps[j]
      BY <2>1, <2>2, <2>4, OthersRemain
    <3> QED BY <2>3, <3>1 DEF ReadLasts
  <2>5. CASE i = j
    <3>1. readOps[i].st = "error"
      <4>1. readOps[i] \in ReadOp
        BY <2>1, ElementOfSeq
      <4>2. readOps[i].st \in {"pending", "ok", "error", "aborted"}
        BY <4>1 DEF ReadOp
      <4> QED BY <1>2, <2>2, <2>3, <2>5, <4>2
    <3>2. CallBack("error", <<>>)
      BY <1>8, <2>2, <3>1 DEF HandledRead
    <3> QED BY <1>3, <3>2
  <2> QED BY <2>4, <2>5
<1>9. CASE Parsed
  BY <1>2, <1>3, <1>9 DEF Parsed
<1> QED BY <1>5, <1>6, <1>7, <1>8, <1>9 DEF HandlerRuns, Silent, Wrote, HandledConnect

LEMMA ListeningTimer ==
    ASSUME Sound, program \in Lasting, Listening, NEW u \in Timers, Expire(u) \/ OnTimer(u)
    PROVE  Listening'
<1>1. UNCHANGED <<state, readOps, frame, program>> /\ (script' = script \/ script = <<>>)
  BY TimerSteps
<1>2. ~Makes(<<>>, "disconnect")
  BY EmptySeq, RangeOfParts DEF Makes
<1> QED BY <1>1, <1>2 DEF Listening, ReadLasts

\* The environment aborts nothing.
LEMMA EnvironmentReads ==
    ASSUME TypeOK, Environment, ReadLasts
    PROVE  ReadLasts'
<1>1. readOps \in Seq(ReadOp) /\ \A j \in DOMAIN readOps : readOps[j] \in ReadOp
  BY ElementOfSeq DEF TypeOK, EnvTypeOK
<1>2. PICK k \in DOMAIN readOps : readOps[k].st # "aborted"
  BY DEF ReadLasts
<1>3. CASE ReadSome
  <2> DEFINE whole(n) == SubSeq(toClient, 1, n)
             later(n) == SubSeq(toClient, n + 1, Len(toClient))
             data(n, cut) == IF cut THEN Append(whole(n), [later(n)[1] EXCEPT !.part = "first"]) ELSE whole(n)
  <2>1. PICK i \in DOMAIN readOps, n \in 0 .. Len(toClient), cut \in BOOLEAN :
          readOps' = [j \in DOMAIN readOps |-> IF j = i THEN [st |-> "ok", data |-> data(n, cut)]
                                                        ELSE Overwrite(readOps[j], data(n, cut))]
    BY <1>3 DEF ReadSome
  <2> HIDE DEF data
  <2>2. PICK d : d = data(n, cut)
    OBVIOUS
  <2>3. k \in DOMAIN readOps' /\ (k # i => readOps'[k] = Overwrite(readOps[k], d))
        /\ (k = i => readOps'[k] = [st |-> "ok", data |-> d])
    BY <2>1, <2>2
  <2>4. k # i => readOps'[k].st = readOps[k].st
    <3>1. readOps[k] \in ReadOp
      BY <1>1
    <3>2. Overwrite(readOps[k], d).st = readOps[k].st
      BY <3>1 DEF Overwrite, ReadOp
    <3> QED BY <2>3, <3>2
  <2> QED BY <1>2, <2>3, <2>4 DEF ReadLasts
<1>4. CASE ReadFails
  <2>1. PICK i \in DOMAIN readOps : readOps' = [readOps EXCEPT ![i].st = "error"]
    BY <1>4 DEF ReadFails
  <2>2. k \in DOMAIN readOps' /\ (k # i => readOps'[k] = readOps[k])
        /\ (k = i => readOps'[k] = [readOps[k] EXCEPT !.st = "error"])
    BY <2>1
  <2>3. readOps'[k].st # "aborted"
    BY <1>1, <1>2, <2>2 DEF ReadOp
  <2> QED BY <2>2, <2>3 DEF ReadLasts
<1>5. CASE ConnectDone \/ WriteSome \/ WriteFails \/ ServerReply \/ LinkDrops \/ \E ch \in Channels : ServerPublish(ch, Audience(ch))
  <2>1. UNCHANGED readOps
    BY <1>5 DEF ConnectDone, WriteSome, WriteFails, ServerReply, LinkDrops, ServerPublish, opVars
  <2> QED BY <2>1 DEF ReadLasts
<1> QED BY <1>3, <1>4, <1>5 DEF Environment

\* What a program that is to run for ever has to go on with, until it ends.
GoesOn == Onward /\ Timed /\ Listening
LastInv == program \in Lasting => ended \/ GoesOn

LEMMA GoesOnSame ==
    ASSUME GoesOn, UNCHANGED <<program, script, timers, state, frame>>,
           connectOps # <<>> => connectOps' # <<>>, ReadLasts => ReadLasts'
    PROVE  GoesOn'
<1>1. \A t : Alive(t) => Alive(t)'
  BY DEF Alive
<1> QED BY <1>1 DEF GoesOn, Onward, Timed, Listening

LEMMA LastKept ==
    ASSUME Sound, OrderInv, LastInv, [ProgNext]_progVars
    PROVE  LastInv'
<1>1. program' = program /\ (ended => ended')
  <2>1. program' = program
    BY ScriptSteps DEF Sound
  <2>2. CASE Statement
    <3>1. CASE CallConnect(Tail(script)) \/ CallDisconnect(Head(script).arg, Tail(script))
      BY <3>1, <2>1 DEF CallConnect, CallDisconnect
    <3>2. CASE CallRequest(Command, state = "Connected", Head(script).arg, Tail(script))
      BY <3>2, <2>1 DEF CallRequest
    <3>3. CASE CallRequest(Publish, state = "Connected", None, Tail(script))
      BY <3>3, <2>1 DEF CallRequest
    <3>4. CASE \E ch \in Channels : CallRequest(Subscribe(ch), Subscribable, None, Tail(script))
      BY <3>4, <2>1 DEF CallRequest
    <3>5. CASE WaitOrCancel(Head(script).arg, TRUE, Tail(script)) \/ WaitOrCancel(Head(script).arg, FALSE, Tail(script))
      BY <3>5, <2>1 DEF WaitOrCancel
    <3>6. CASE End \/ PassOver(Tail(script))
      BY <3>6, <2>1 DEF End, PassOver
    <3> QED BY <2>2, <3>1, <3>2, <3>3, <3>4, <3>5, <3>6, StatementCases DEF Sound
  <2>3. CASE HandlerRuns \/ FreeCall \/ (\E t \in Timers : Expire(t) \/ OnTimer(t)) \/ UNCHANGED programVars
             \/ UNCHANGED progVars
    BY <2>3 DEF HandlerRuns, FreeCall, Expire, OnTimer, programVars, progVars
  <2> QED BY <2>1, <2>2, <2>3 DEF ProgNext
<1> SUFFICES ASSUME program \in Lasting, ~ended, ~ended', GoesOn
             PROVE  GoesOn'
  BY <1>1 DEF LastInv
<1>2. CASE Statement
  BY <1>2, OnwardStatement, TimedStatement, ListeningStatement DEF GoesOn
<1>3. CASE HandlerRuns
  BY <1>3, OnwardHandler, TimedHandler, ListeningHandler DEF GoesOn
<1>4. CASE FreeCall
  BY <1>4 DEF FreeCall, Lasting
<1>5. CASE \E t \in Timers : Expire(t) \/ OnTimer(t)
  <2>1. PICK t \in Timers : Expire(t) \/ OnTimer(t)
    BY <1>5
  <2> QED BY <2>1, OnwardTimer, TimedTimer, ListeningTimer DEF GoesOn
<1>6. CASE Environment /\ UNCHANGED programVars
  <2>1. UNCHANGED <<program, script, timers, state, frame>>
    BY <1>6 DEF Environment, programVars, clientVars, loopVars
  <2>2. connectOps # <<>> => connectOps' # <<>>
    <3>1. CASE ConnectDone
      <4>1. PICK i \in DOMAIN connectOps, o \in {"ok", "error"} : connectOps' = [connectOps EXCEPT ![i] = o]
        BY <3>1 DEF ConnectDone
      <4>2. DOMAIN connectOps' = DOMAIN connectOps /\ DOMAIN <<>> = {}
        BY <4>1
      <4> QED BY <4>2
    <3>2. CASE ReadSome \/ ReadFails \/ WriteSome \/ WriteFails \/ ServerReply \/ LinkDrops
               \/ \E ch \in Channels : ServerPublish(ch, Audience(ch))
      BY <3>2 DEF ReadSome, ReadFails, WriteSome, WriteFails, ServerReply, LinkDrops, ServerPublish, opVars
    <3> QED BY <1>6, <3>1, <3>2 DEF Environment
  <2>3. ReadLasts => ReadLasts'
    BY <1>6, EnvironmentReads DEF Sound
  <2> QED BY <2>1, <2>2, <2>3, GoesOnSame
<1>7. CASE UNCHANGED progVars
  <2>1. UNCHANGED <<program, script, timers, state, frame, connectOps, readOps>>
    BY <1>7 DEF progVars, programVars, vars, clientVars, envVars, linkVars, opVars, loopVars
  <2>2. ReadLasts => ReadLasts'
    BY <2>1 DEF ReadLasts
  <2> QED BY <2>1, <2>2, GoesOnSame
<1> QED BY <1>2, <1>3, <1>4, <1>5, <1>6, <1>7 DEF ProgNext

LEMMA LastInit ==
    ASSUME ProgInit
    PROVE  LastInv
<1> SUFFICES ASSUME program \in Lasting PROVE GoesOn
  BY DEF LastInv
<1>1. state = "Unconnected" /\ frame = "none" /\ program \in Programs /\ script \in Program[program].main
  BY DEF ProgInit, Init
<1>2. CASE program = "publisher"
  <2>1. "main" \in DOMAIN Publisher /\ script \in Publisher["main"]
    BY <1>1, <1>2, Tables DEF Publisher
  <2>2. Followed(script, "disconnect", "connect") /\ Makes(script, "connect")
    BY <2>1, PublisherDoes
  <2> QED BY <1>1, <1>2, <2>2 DEF GoesOn, Onward, Timed, Listening
<1>3. CASE program = "subscriber"
  <2>1. "main" \in DOMAIN Subscriber /\ script \in Subscriber["main"]
    BY <1>1, <1>3, Tables DEF Subscriber
  <2>2. Followed(script, "disconnect", "connect") /\ Makes(script, "connect")
    BY <2>1, SubscriberDoes
  <2> QED BY <1>1, <1>3, <2>2 DEF GoesOn, Onward, Timed, Listening
<1>4. CASE program = "async_timeout"
  <2>1. "main" \in DOMAIN AsyncTimeout /\ script \in AsyncTimeout["main"]
    BY <1>1, <1>4, Tables DEF AsyncTimeout
  <2>2. Followed(script, "disconnect", "connect") /\ Makes(script, "connect") /\ Followed(script, "cancel", "wait")
    BY <2>1, TimeoutDoes
  <2> QED BY <1>1, <1>4, <2>2 DEF GoesOn, Onward, Timed, Listening
<1> QED BY <1>2, <1>3, <1>4 DEF Lasting

\* The programs meant to run for ever are never left with nothing to wait for: publisher and
\* subscriber (async_pubsub.cpp:52-142) always have a timer, an attempt to connect or a read that is
\* going to end, and async_timeout (async_timeout.cpp:37-110) the timer that guards its connection,
\* whatever is lost, refused, late or out of order, unless it could not connect.
THEOREM NeverLeftStranded == ProgSpec => []NeverStranded
<1>1. ProgInit => LastInv
  BY LastInit
<1>2. Sound /\ OrderInv /\ LastInv /\ [ProgNext]_progVars => LastInv'
  BY LastKept
<1>3. Sound /\ AttemptInv /\ LastInv => NeverStranded
  <2> SUFFICES ASSUME Sound, AttemptInv, LastInv, Waiting
               PROVE  /\ program \in {"publisher", "subscriber"} =>
                            \/ \E t \in Timers : timers[t].waiting
                            \/ connectOps # <<>>
                            \/ readOps # <<>> /\ link \in {"up", "dropped"}
                      /\ program = "async_timeout" =>
                            timers["timer"].waiting \/ connectOps # <<>> \/ state = "Unconnected"
    BY DEF NeverStranded
  <2>1. script = <<>> /\ ~ended /\ frame = "none" /\ \A t \in Timers : timers[t].due = 0
    BY DEF Waiting, AtRest
  <2>2. \A t \in Timers : Alive(t) => timers[t].waiting
    <3>1. <<>> \in Seq(Instruction)
      BY EmptySeq
    <3>2. Range(script) = {}
      BY <2>1, <3>1, RangeOfParts
    <3>3. \A t \in Timers : ~Waits(script, t)
      BY <3>2 DEF Waits
    <3>4. ASSUME NEW t \in Timers, Alive(t) PROVE timers[t].waiting
      BY <2>1, <3>3, <3>4 DEF Alive
    <3> QED BY <3>4
  <2>3. ~Makes(script, "connect") /\ ~Makes(script, "disconnect")
    <3>1. <<>> \in Seq(Instruction)
      BY EmptySeq
    <3>2. Range(script) = {}
      BY <2>1, <3>1, RangeOfParts
    <3> QED BY <3>2 DEF Makes
  <2>4. program \in Lasting => GoesOn
    BY <2>1 DEF LastInv
  <2>5. "timer" \in Timers /\ "publishTimer" \in Timers /\ "connectTimer" \in Timers
    BY DEF Timers
  <2>6. state \in {"Unconnected", "Connecting", "Connected", "Subscribed", "Closed"}
    BY DEF Sound, TypeOK, State
  <2>7. ASSUME program \in {"publisher", "subscriber"}
        PROVE  \/ \E t \in Timers : timers[t].waiting
               \/ connectOps # <<>>
               \/ readOps # <<>> /\ link \in {"up", "dropped"}
    <3>1. GoesOn
      BY <2>4, <2>7 DEF Lasting
    <3>2. CASE state = "Unconnected"
      BY <2>2, <2>3, <2>5, <2>7, <3>1, <3>2 DEF GoesOn, Onward
    <3>3. CASE state \in {"Closed", "Connecting"}
      BY <2>3, <3>1, <3>3 DEF GoesOn, Onward
    <3>4. CASE state \in {"Connected", "Subscribed"} /\ program = "publisher"
      BY <2>2, <2>5, <3>1, <3>4 DEF GoesOn, Timed
    <3>5. CASE state \in {"Connected", "Subscribed"} /\ program = "subscriber"
      <4>1. ReadLasts
        BY <2>1, <2>3, <3>1, <3>5 DEF GoesOn, Listening
      <4>2. readOps # <<>>
        BY <4>1 DEF ReadLasts
      <4>3. link \in {"up", "dropped"}
        BY <3>5 DEF AttemptInv, OneAttempt, ConnectedImpliesOpen
      <4> QED BY <4>2, <4>3
    <3> QED BY <2>6, <2>7, <3>2, <3>3, <3>4, <3>5
  <2>8. ASSUME program = "async_timeout"
        PROVE  timers["timer"].waiting \/ connectOps # <<>> \/ state = "Unconnected"
    <3>1. GoesOn
      BY <2>4, <2>8 DEF Lasting
    <3> QED BY <2>2, <2>3, <2>5, <2>6, <2>8, <3>1 DEF GoesOn, Onward, Timed
  <2> QED BY <2>7, <2>8
<1> QED BY <1>1, <1>2, <1>3, ScriptsKept, AttemptsKept, ProgramsAreApplications, OrderKept, PTL
        DEF ProgSpec, Sound

-----------------------------------------------------------------------------
(* Subscriptions.  The requests that the server has not answered yet stand *)
(* in two queues: those posted to the strand and, behind doAsyncCommand,   *)
(* those on their way (Sent).  Being told the requests of a queue, one     *)
(* after the other, leads from one set of channels subscribed to to        *)
(* another.                                                                *)

\* The channels a server is subscribed to once it has been told r.
ToldOf(A, r) == IF r.kind = "subscribe" THEN A \cup {r.chan}
                ELSE IF r.kind = "unsubscribe" THEN A \ {r.chan} ELSE A

\* Being told the requests q leads from the channels A to the channels B.
Leads(q, A, B) ==
    \E f \in [1 .. Len(q) + 1 -> SUBSET Channels] :
       f[1] = A /\ f[Len(q) + 1] = B /\ \A i \in 1 .. Len(q) : f[i + 1] = ToldOf(f[i], q[i])

LEMMA ToldType ==
    ASSUME NEW A \in SUBSET Channels, NEW r \in Request
    PROVE  ToldOf(A, r) \in SUBSET Channels
BY DEF ToldOf, Request

LEMMA LeadsTypes ==
    ASSUME NEW q \in Seq(Request), NEW A, NEW B, Leads(q, A, B)
    PROVE  A \in SUBSET Channels /\ B \in SUBSET Channels
<1>1. Len(q) \in Nat /\ 1 \in 1 .. Len(q) + 1 /\ Len(q) + 1 \in 1 .. Len(q) + 1
  BY LenProperties
<1> QED BY <1>1 DEF Leads

LEMMA LeadsNowhere ==
    ASSUME NEW A \in SUBSET Channels, NEW B
    PROVE  Leads(<<>>, A, B) <=> A = B
<1>0. Len(<<>>) = 0
  BY EmptySeq
<1>1. Leads(<<>>, A, A)
  <2> DEFINE f == [i \in 1 .. 1 |-> A]
  <2>1. f \in [1 .. 1 -> SUBSET Channels] /\ f[1] = A
    OBVIOUS
  <2> HIDE DEF f
  <2> QED BY <1>0, <2>1 DEF Leads
<1>2. Leads(<<>>, A, B) => A = B
  BY <1>0 DEF Leads
<1> QED BY <1>1, <1>2

\* One request more.
LEMMA LeadsAppend ==
    ASSUME NEW q \in Seq(Request), NEW r \in Request, NEW A, NEW B, Leads(q, A, B)
    PROVE  Leads(Append(q, r), A, ToldOf(B, r))
<1> DEFINE n == Len(q)
           p == Append(q, r)
<1>1. /\ n \in Nat /\ Len(p) = n + 1 /\ p[n + 1] = r
      /\ \A i \in 1 .. n : p[i] = q[i]
  BY LenProperties, AppendProperties
<1> HIDE DEF n, p
<1>2. PICK f \in [1 .. n + 1 -> SUBSET Channels] :
         f[1] = A /\ f[n + 1] = B /\ \A i \in 1 .. n : f[i + 1] = ToldOf(f[i], q[i])
  BY DEF Leads, n
<1> DEFINE g == [i \in 1 .. n + 2 |-> IF i <= n + 1 THEN f[i] ELSE ToldOf(B, r)]
<1>3. B \in SUBSET Channels
  BY LeadsTypes
<1>4. ToldOf(B, r) \in SUBSET Channels
  BY <1>3, ToldType
<1>5. \A i \in 1 .. n + 2 : i <= n + 1 => i \in 1 .. n + 1
  BY <1>1
<1>6. g \in [1 .. n + 2 -> SUBSET Channels]
  BY <1>2, <1>4, <1>5
<1>7. (\A i \in 1 .. n + 1 : g[i] = f[i]) /\ g[n + 2] = ToldOf(B, r)
  <2>1. \A i \in 1 .. n + 1 : i \in 1 .. n + 2 /\ i <= n + 1
    BY <1>1
  <2>2. n + 2 \in 1 .. n + 2 /\ ~(n + 2 <= n + 1)
    BY <1>1
  <2> QED BY <2>1, <2>2
<1> HIDE DEF g
<1>8. ASSUME NEW i \in 1 .. n + 1 PROVE g[i + 1] = ToldOf(g[i], p[i])
  <2>1. CASE i \in 1 .. n
    <3>1. i + 1 \in 1 .. n + 1
      BY <1>1, <2>1
    <3> QED BY <1>1, <1>2, <1>7, <2>1, <3>1
  <2>2. CASE i = n + 1
    <3>1. i + 1 = n + 2
      BY <1>1, <2>2
    <3> QED BY <1>1, <1>2, <1>7, <2>2, <3>1
  <2> QED BY <1>1, <2>1, <2>2, OneMore
<1>9. 1 \in 1 .. n + 1 /\ (n + 1) + 1 = n + 2
  BY <1>1
<1>10. Leads(p, A, ToldOf(B, r))
  <2>1. g[1] = A
    BY <1>2, <1>7, <1>9
  <2>2. Len(p) = n + 1 /\ Len(p) + 1 = n + 2
    BY <1>1
  <2>3. /\ g \in [1 .. Len(p) + 1 -> SUBSET Channels]
        /\ g[1] = A /\ g[Len(p) + 1] = ToldOf(B, r)
        /\ \A i \in 1 .. Len(p) : g[i + 1] = ToldOf(g[i], p[i])
    BY <1>6, <1>7, <1>8, <2>1, <2>2
  <2> QED BY <2>3 DEF Leads
<1> QED BY <1>10 DEF p

\* The first request has been told.
LEMMA LeadsTail ==
    ASSUME NEW q \in Seq(Request), q # <<>>, NEW A, NEW B, Leads(q, A, B)
    PROVE  Leads(Tail(q), ToldOf(A, Head(q)), B)
<1> DEFINE n == Len(q)
           p == Tail(q)
<1>1. /\ n \in Nat \ {0} /\ p \in Seq(Request) /\ Len(p) = n - 1 /\ Head(q) = q[1]
      /\ \A i \in 1 .. n - 1 : p[i] = q[i + 1]
  BY EmptySeq, HeadTailProperties
<1> HIDE DEF n, p
<1>2. PICK f \in [1 .. n + 1 -> SUBSET Channels] :
         f[1] = A /\ f[n + 1] = B /\ \A i \in 1 .. n : f[i + 1] = ToldOf(f[i], q[i])
  BY DEF Leads, n
<1> DEFINE g == [i \in 1 .. n |-> f[i + 1]]
<1>3. \A i \in 1 .. n : i + 1 \in 1 .. n + 1
  BY <1>1
<1>4. g \in [1 .. n -> SUBSET Channels] /\ \A i \in 1 .. n : g[i] = f[i + 1]
  BY <1>2, <1>3
<1> HIDE DEF g
<1>5. 1 \in 1 .. n /\ n \in 1 .. n /\ (n - 1) + 1 = n
  BY <1>1
<1>6. g[1] = ToldOf(A, q[1]) /\ g[n] = B
  BY <1>2, <1>4, <1>5
<1>7. ASSUME NEW i \in 1 .. n - 1 PROVE g[i + 1] = ToldOf(g[i], p[i])
  <2>1. i \in 1 .. n /\ i + 1 \in 1 .. n
    BY <1>1
  <2>2. g[i] = f[i + 1] /\ g[i + 1] = f[(i + 1) + 1]
    BY <1>4, <2>1
  <2>3. f[(i + 1) + 1] = ToldOf(f[i + 1], q[i + 1])
    BY <1>2, <2>1
  <2> QED BY <1>1, <2>2, <2>3
<1>8. Leads(p, ToldOf(A, q[1]), B)
  BY <1>1, <1>4, <1>5, <1>6, <1>7 DEF Leads
<1> QED BY <1>1, <1>8 DEF p

\* A message handler on the strand stands for no request: it is as if the server were told
\* nothing new.
NoRequest        == [kind |-> "command", id |-> 0, chan |-> NoChannel]
RequestOf(job)   == IF IsRequest(job) THEN job.req ELSE NoRequest
RequestsOf(jobs) == [i \in DOMAIN jobs |-> RequestOf(jobs[i])]
Awaiting         == RequestsOf(strand)

LEMMA NothingAsked ==
    /\ NoRequest \in Request /\ NoRequest.kind = "command"
    /\ \A A : ToldOf(A, NoRequest) = A
BY DEF NoRequest, Request, ToldOf

LEMMA RequestType == \A job \in Job : RequestOf(job) \in Request
BY JobTypes, NothingAsked DEF RequestOf, IsRequest

LEMMA RequestsType ==
    ASSUME NEW jobs \in Seq(Job)
    PROVE  /\ RequestsOf(jobs) \in Seq(Request) /\ Len(RequestsOf(jobs)) = Len(jobs)
           /\ DOMAIN jobs = 1 .. Len(jobs) /\ Len(jobs) \in Nat
           /\ \A i \in 1 .. Len(jobs) : RequestsOf(jobs)[i] = RequestOf(jobs[i])
<1>1. DOMAIN jobs = 1 .. Len(jobs) /\ Len(jobs) \in Nat /\ \A i \in DOMAIN jobs : jobs[i] \in Job
  BY LenProperties, ElementOfSeq
<1>2. RequestsOf(jobs) \in [DOMAIN jobs -> Request]
  BY <1>1, RequestType DEF RequestsOf
<1>3. RequestsOf(jobs) \in Seq(Request) /\ Len(RequestsOf(jobs)) = Len(jobs)
  BY <1>2, MappedSeq
<1> QED BY <1>1, <1>3 DEF RequestsOf

LEMMA RequestsAppend ==
    ASSUME NEW jobs \in Seq(Job), NEW job \in Job
    PROVE  RequestsOf(Append(jobs, job)) = Append(RequestsOf(jobs), RequestOf(job))
<1> DEFINE p == Append(jobs, job)
           u == RequestsOf(p)
           v == Append(RequestsOf(jobs), RequestOf(job))
<1>1. /\ p \in Seq(Job) /\ Len(p) = Len(jobs) + 1 /\ Len(jobs) \in Nat
      /\ \A i \in 1 .. Len(jobs) : p[i] = jobs[i]
      /\ p[Len(jobs) + 1] = job
  BY AppendProperties, LenProperties
<1> HIDE DEF p
<1>2. /\ u \in Seq(Request) /\ Len(u) = Len(jobs) + 1
      /\ \A i \in 1 .. Len(jobs) + 1 : u[i] = RequestOf(p[i])
  BY <1>1, RequestsType
<1>3. /\ v \in Seq(Request) /\ Len(v) = Len(jobs) + 1
      /\ \A i \in 1 .. Len(jobs) : v[i] = RequestOf(jobs[i])
      /\ v[Len(jobs) + 1] = RequestOf(job)
  <2>1. RequestsOf(jobs) \in Seq(Request) /\ Len(RequestsOf(jobs)) = Len(jobs) /\ RequestOf(job) \in Request
    BY RequestsType, RequestType
  <2> QED BY <2>1, RequestsType, AppendProperties
<1> HIDE DEF u, v
<1>4. ASSUME NEW i \in 1 .. Len(jobs) + 1 PROVE u[i] = v[i]
  <2>1. i \in 1 .. Len(jobs) \/ i = Len(jobs) + 1
    BY <1>1, OneMore
  <2> QED BY <1>1, <1>2, <1>3, <2>1
<1>5. u = v
  BY <1>2, <1>3, <1>4, SeqEqual
<1> QED BY <1>5 DEF u, v, p

LEMMA RequestsTail ==
    ASSUME NEW jobs \in Seq(Job), jobs # <<>>
    PROVE  /\ RequestsOf(jobs) # <<>> /\ Head(RequestsOf(jobs)) = RequestOf(Head(jobs))
           /\ RequestsOf(Tail(jobs)) = Tail(RequestsOf(jobs))
<1> DEFINE r == RequestsOf(jobs)
           p == Tail(jobs)
           u == RequestsOf(p)
           v == Tail(r)
<1>1. /\ p \in Seq(Job) /\ Len(jobs) \in Nat \ {0} /\ Len(p) = Len(jobs) - 1
      /\ \A i \in 1 .. Len(jobs) - 1 : p[i] = jobs[i + 1]
      /\ Head(jobs) = jobs[1]
  BY EmptySeq, HeadTailProperties
<1>2. /\ r \in Seq(Request) /\ Len(r) = Len(jobs)
      /\ \A i \in 1 .. Len(jobs) : r[i] = RequestOf(jobs[i])
  BY RequestsType
<1> HIDE DEF p, r
<1>3. r # <<>> /\ Head(r) = RequestOf(Head(jobs))
  <2>1. r # <<>>
    BY <1>1, <1>2, EmptySeq
  <2>2. Head(r) = r[1] /\ 1 \in 1 .. Len(jobs)
    BY <1>1, <1>2, <2>1
  <2> QED BY <1>1, <1>2, <2>1, <2>2
<1>4. /\ u \in Seq(Request) /\ Len(u) = Len(jobs) - 1
      /\ \A i \in 1 .. Len(jobs) - 1 : u[i] = RequestOf(p[i])
  BY <1>1, RequestsType
<1>5. /\ v \in Seq(Request) /\ Len(v) = Len(jobs) - 1
      /\ \A i \in 1 .. Len(jobs) - 1 : v[i] = r[i + 1]
  BY <1>2, <1>3, HeadTailProperties
<1> HIDE DEF u, v
<1>6. \A i \in 1 .. Len(jobs) - 1 : i + 1 \in 1 .. Len(jobs)
  BY <1>1
<1>7. \A i \in 1 .. Len(jobs) - 1 : u[i] = v[i]
  BY <1>1, <1>2, <1>4, <1>5, <1>6
<1>8. u = v
  BY <1>4, <1>5, <1>7, SeqEqual
<1> QED BY <1>3, <1>8 DEF u, v, p, r

\* A message handler in the place of another.
LEMMA RequestsReplaced ==
    ASSUME NEW jobs \in Seq(Job), jobs # <<>>, NEW job \in Job, ~IsRequest(Head(jobs)), ~IsRequest(job)
    PROVE  RequestsOf([jobs EXCEPT ![1] = job]) = RequestsOf(jobs)
<1> DEFINE p == [jobs EXCEPT ![1] = job]
           u == RequestsOf(p)
           v == RequestsOf(jobs)
<1>1. 1 \in DOMAIN jobs /\ Head(jobs) = jobs[1] /\ DOMAIN jobs = 1 .. Len(jobs)
  BY EmptySeq, LenProperties
<1>2. /\ p \in Seq(Job) /\ Len(p) = Len(jobs)
      /\ \A i \in 1 .. Len(jobs) : p[i] = IF i = 1 THEN job ELSE jobs[i]
  BY <1>1, ReplaceType
<1> HIDE DEF p
<1>3. /\ u \in Seq(Request) /\ Len(u) = Len(jobs)
      /\ v \in Seq(Request) /\ Len(v) = Len(jobs)
      /\ \A i \in 1 .. Len(jobs) : u[i] = RequestOf(p[i]) /\ v[i] = RequestOf(jobs[i])
  BY <1>2, RequestsType
<1> HIDE DEF u, v
<1>4. RequestOf(job) = NoRequest /\ RequestOf(jobs[1]) = NoRequest
  BY <1>1 DEF RequestOf
<1>5. \A i \in 1 .. Len(jobs) : u[i] = v[i]
  BY <1>2, <1>3, <1>4
<1>6. u = v
  BY <1>3, <1>5, SeqEqual
<1> QED BY <1>6 DEF u, v, p

\* The requests p tell the server what the requests q tell it.
TellsTheSame(q, p) ==
    /\ p \in Seq(Request)
    /\ \A A, B : Leads(q, A, B) => Leads(p, A, B)
    /\ Range(p) \ {NoRequest} = Range(q) \ {NoRequest}

LEMMA SameAppend ==
    ASSUME NEW q \in Seq(Request)
    PROVE  TellsTheSame(q, Append(q, NoRequest))
<1>1. Append(q, NoRequest) \in Seq(Request) /\ Range(Append(q, NoRequest)) = Range(q) \cup {NoRequest}
  BY NothingAsked, AppendProperties, RangeAppend
<1>2. ASSUME NEW A, NEW B, Leads(q, A, B) PROVE Leads(Append(q, NoRequest), A, B)
  BY <1>2, LeadsAppend, NothingAsked
<1> QED BY <1>1, <1>2 DEF TellsTheSame

LEMMA SameTail ==
    ASSUME NEW q \in Seq(Request), q # <<>>, Head(q) = NoRequest
    PROVE  TellsTheSame(q, Tail(q))
<1>1. Tail(q) \in Seq(Request) /\ Range(q) = {NoRequest} \cup Range(Tail(q))
  BY HeadTailProperties, RangeTail
<1>2. ASSUME NEW A, NEW B, Leads(q, A, B) PROVE Leads(Tail(q), A, B)
  BY <1>2, LeadsTail, NothingAsked
<1> QED BY <1>1, <1>2 DEF TellsTheSame

LEMMA SameTwice ==
    ASSUME NEW q, NEW p, NEW r, TellsTheSame(q, p), TellsTheSame(p, r)
    PROVE  TellsTheSame(q, r)
BY DEF TellsTheSame

LEMMA SameItself ==
    ASSUME NEW q \in Seq(Request)
    PROVE  TellsTheSame(q, q)
BY DEF TellsTheSame

\* The requests that the server has not answered.
Underway == Range(Sent) \cup Range(Awaiting)

\* A step moves them on, with the server told of one, and loses some only with the link.
Moved ==
    \/ UNCHANGED subs /\ Sent' = Sent /\ TellsTheSame(Awaiting, Awaiting')
    \/ /\ UNCHANGED subs /\ Awaiting # <<>>
       /\ Sent' = Append(Sent, Head(Awaiting)) /\ Awaiting' = Tail(Awaiting)
    \/ /\ Sent # <<>> /\ Sent' = Tail(Sent) /\ Awaiting' = Awaiting
       /\ subs' = ToldOf(subs, Head(Sent))
    \/ link' # "up" /\ subs' \subseteq subs /\ Underway' \subseteq Underway

LEMMA AwaitingType == TypeOK => Awaiting \in Seq(Request)
BY RequestsType DEF TypeOK, Awaiting

LEMMA RangeOfRequests == \A s, t \in Seq(Request) : Range(s \o t) = Range(s) \cup Range(t)
<1> SUFFICES ASSUME NEW s \in Seq(Request), NEW t \in Seq(Request)
             PROVE  Range(s \o t) = Range(s) \cup Range(t)
  OBVIOUS
<1> QED BY RangeConcat

LEMMA SentRange == PairTyped => Range(Sent) = Range(toServer) \cup (Range(Left) \cup Range(dataQueued))
<1> SUFFICES ASSUME PairTyped PROVE Range(Sent) = Range(toServer) \cup (Range(Left) \cup Range(dataQueued))
  OBVIOUS
<1>1. toServer \in Seq(Request) /\ Left \in Seq(Request) /\ dataQueued \in Seq(Request)
  BY DEF PairTyped
<1>2. Left \o dataQueued \in Seq(Request) /\ Range(Left \o dataQueued) = Range(Left) \cup Range(dataQueued)
  BY <1>1, ConcatProperties, RangeOfRequests
<1>3. Range(toServer \o (Left \o dataQueued)) = Range(toServer) \cup Range(Left \o dataQueued)
  BY <1>1, <1>2, RangeOfRequests
<1> QED BY <1>2, <1>3 DEF Sent

LEMMA SentRangeNext == PairTyped' => (Range(Sent) = Range(toServer) \cup (Range(Left) \cup Range(dataQueued)))'
BY SentRange, PTL

LEMMA NoRange == Range(<<>>) = {}
BY DEF Range

\* Steps that leave the requests alone.
LEMMA MovedNot ==
    ASSUME TypeOK, UNCHANGED <<toServer, writeOps, dataQueued, strand, subs>>
    PROVE  Moved
<1>1. Left' = Left
  BY DEF Left
<1>2. Sent' = Sent
  BY <1>1 DEF Sent
<1>3. Awaiting' = Awaiting
  BY DEF Awaiting
<1>4. Awaiting \in Seq(Request)
  BY AwaitingType
<1> QED BY <1>2, <1>3, <1>4, SameItself DEF Moved

\* A write that is started on a closed socket sends nothing.
LEMMA TransmitNone ==
    ASSUME NEW q, NEW ops, ops = <<>>, Transmit(q, ops), link = "closed"
    PROVE  dataQueued' = <<>> /\ Left' = <<>>
<1>1. CASE q = <<>>
  BY <1>1 DEF Transmit, Left
<1>2. CASE q # <<>>
  <2> DEFINE op == [st |-> "error", left |-> <<>>]
  <2>1. writeOps' = Append(<<>>, op)
    BY <1>2 DEF Transmit, StartedWrite
  <2>2. op.left = <<>>
    OBVIOUS
  <2> HIDE DEF op
  <2>3. writeOps' # <<>> /\ writeOps'[1] = op
    BY <2>1
  <2> QED BY <2>2, <2>3 DEF Left, Transmit
<1> QED BY <1>1, <1>2

\* Its requests are lost, and with them no link that was up.
LEMMA MovedNone ==
    ASSUME TypeOK, PairTyped, PairTyped', Range(Awaiting') \subseteq Range(Awaiting),
           dataQueued' = <<>>, Left' = <<>>, UNCHANGED <<toServer, subs>>, link' # "up"
    PROVE  Moved
<1>1. Range(Sent') = Range(toServer)
  BY SentRangeNext, NoRange
<1>2. Range(toServer) \subseteq Range(Sent)
  BY SentRange
<1> QED BY <1>1, <1>2 DEF Moved, Underway

LEMMA DoAsyncCommandMoves ==
    ASSUME TypeOK, TypeOK', PairTyped, PairTyped', SingleWriter, DoAsyncCommand
    PROVE  Moved
<1> DEFINE req == Head(strand).req
<1>1. /\ UNCHANGED <<link, toServer, subs>> /\ strand # <<>>
      /\ strand' = Tail(strand) /\ IsRequest(Head(strand))
      /\ \/ WriterIdle /\ Transmit(Append(dataQueued, req), writeOps)
         \/ dataQueued' = Append(dataQueued, req) /\ UNCHANGED writeOps
  BY DEF DoAsyncCommand, linkVars, IsRequest
<1>2. strand \in Seq(Job) /\ Head(strand) \in Job
  BY <1>1, HeadTailProperties DEF TypeOK
<1>3. req \in Request /\ RequestOf(Head(strand)) = req
  BY <1>1, <1>2, JobTypes DEF RequestOf, IsRequest
<1>4. Awaiting # <<>> /\ Head(Awaiting) = req /\ Awaiting' = Tail(Awaiting)
  BY <1>1, <1>2, <1>3, RequestsTail DEF Awaiting
<1> HIDE DEF req
<1>5. Append(dataQueued, req) \in Seq(Request)
  BY <1>3, AppendProperties DEF PairTyped
<1>6. WriterIdle => writeOps = <<>>
  BY NoneOf DEF WriterIdle, SingleWriter, TypeOK, EnvTypeOK
<1>7. CASE WriterIdle /\ link = "closed" /\ Transmit(Append(dataQueued, req), writeOps)
  <2>1. dataQueued' = <<>> /\ Left' = <<>>
    BY <1>6, <1>7, TransmitNone
  <2>2. Range(Awaiting') \subseteq Range(Awaiting)
    BY <1>4, RangeTail, AwaitingType
  <2> QED BY <1>1, <1>7, <2>1, <2>2, MovedNone
<1>8. CASE ~(WriterIdle /\ link = "closed" /\ Transmit(Append(dataQueued, req), writeOps))
  <2>1. Left' \o dataQueued' = Left \o Append(dataQueued, req)
    <3>1. CASE WriterIdle /\ link # "closed" /\ Transmit(Append(dataQueued, req), writeOps)
      <4>1. dataQueued' = <<>> /\ Left' = Append(dataQueued, req)
        BY <1>5, <1>6, <3>1, TransmitAll
      <4>2. Left = <<>>
        BY <1>6, <3>1 DEF Left
      <4> QED BY <1>5, <4>1, <4>2, ConcatEmptySeq
    <3>2. CASE dataQueued' = Append(dataQueued, req) /\ UNCHANGED writeOps
      <4>1. Left' = Left
        BY <3>2 DEF Left
      <4> QED BY <3>2, <4>1
    <3> QED BY <1>1, <1>8, <3>1, <3>2
  <2>2. Left \in Seq(Request) /\ dataQueued \in Seq(Request) /\ toServer \in Seq(Request)
    BY DEF PairTyped
  <2>3. Left \o Append(dataQueued, req) = Append(Left \o dataQueued, req)
    BY <1>3, <2>2, ConcatAppend
  <2>4. Left \o dataQueued \in Seq(Request)
    BY <2>2, ConcatProperties
  <2>5. toServer \o Append(Left \o dataQueued, req) = Append(toServer \o (Left \o dataQueued), req)
    BY <1>3, <2>2, <2>4, ConcatAppend
  <2>6. Sent' = Append(Sent, req)
    BY <1>1, <2>1, <2>3, <2>5 DEF Sent
  <2> QED BY <1>1, <1>4, <2>6 DEF Moved
<1> QED BY <1>7, <1>8

LEMMA CallMessageHandlerMoves ==
    ASSUME TypeOK, TypeOK', CallMessageHandler
    PROVE  Moved
<1>1. /\ UNCHANGED <<toServer, writeOps, dataQueued, subs>> /\ strand # <<>>
      /\ Head(strand).run = "msgHandler" /\ ~IsRequest(Head(strand))
  BY DEF CallMessageHandler, envVars, linkVars, opVars, IsRequest
<1>2. PICK h \in Head(strand).to :
         strand' = IF Head(strand).to = {h} THEN Tail(strand)
                   ELSE [strand EXCEPT ![1] = [Head(strand) EXCEPT !.to = Head(strand).to \ {h}]]
  BY DEF CallMessageHandler
<1>3. strand \in Seq(Job) /\ Head(strand) \in Job
  BY <1>1, HeadTailProperties DEF TypeOK
<1>4. Sent' = Sent
  <2>1. Left' = Left
    BY <1>1 DEF Left
  <2> QED BY <1>1, <2>1 DEF Sent
<1>5. Awaiting \in Seq(Request)
  BY AwaitingType
<1>6. CASE strand' = Tail(strand)
  <2>1. Awaiting # <<>> /\ Head(Awaiting) = NoRequest /\ Awaiting' = Tail(Awaiting)
    BY <1>1, <1>3, <1>6, RequestsTail DEF Awaiting, RequestOf
  <2> QED BY <1>1, <1>4, <1>5, <2>1, SameTail DEF Moved
<1>7. CASE strand' = [strand EXCEPT ![1] = [Head(strand) EXCEPT !.to = Head(strand).to \ {h}]]
  <2> DEFINE job == [Head(strand) EXCEPT !.to = Head(strand).to \ {h}]
  <2>1. job \in Job /\ ~IsRequest(job)
    <3>1. Head(strand) \in [run : {"msgHandler"}, to : SUBSET Handle, msg : Nat]
      BY <1>1, <1>3 DEF Job
    <3>2. job \in [run : {"msgHandler"}, to : SUBSET Handle, msg : Nat] /\ job.run = "msgHandler"
      BY <3>1
    <3> QED BY <3>2 DEF Job, IsRequest
  <2> HIDE DEF job
  <2>2. strand' = [strand EXCEPT ![1] = job]
    BY <1>7 DEF job
  <2>3. Awaiting' = Awaiting
    BY <1>1, <1>3, <2>1, <2>2, RequestsReplaced DEF Awaiting
  <2> QED BY <1>1, <1>4, <1>5, <2>3, SameItself DEF Moved
<1> QED BY <1>2, <1>6, <1>7

LEMMA AsyncWriteMoves ==
    ASSUME TypeOK, PairTyped, PairTyped', SingleWriter, WrittenOut, AsyncWrite
    PROVE  Moved
<1>1. UNCHANGED <<strand, link, toServer, subs>> /\ Awaiting' = Awaiting
  BY DEF AsyncWrite, linkVars, Awaiting
<1>2. PICK i \in DOMAIN writeOps :
         \/ writeOps[i].st = "ok" /\ Transmit(dataQueued, RemoveAt(writeOps, i))
         \/ writeOps[i].st = "error" /\ writeOps' = RemoveAt(writeOps, i) /\ UNCHANGED dataQueued
  BY DEF AsyncWrite
<1>3. RemoveAt(writeOps, i) = <<>> /\ i = 1 /\ writeOps # <<>>
  <2>1. writeOps \in Seq(WriteOp) /\ DOMAIN writeOps = 1 .. Len(writeOps)
    BY LenProperties DEF TypeOK, EnvTypeOK
  <2>2. Len(writeOps) = 1
    BY <2>1 DEF SingleWriter
  <2>3. i = 1 /\ writeOps # <<>>
    <3>1. i \in 1 .. 1
      BY <2>1, <2>2
    <3> QED BY <2>1, <2>2, <3>1, NoneOf
  <2> QED BY <2>1, <2>2, <2>3, RemovedAll
<1>4. Left = <<>>
  BY <1>2, <1>3 DEF Left, WrittenOut
<1>5. dataQueued \in Seq(Request) /\ Awaiting \in Seq(Request)
  BY AwaitingType DEF PairTyped
<1>6. CASE link = "closed" /\ writeOps[i].st = "ok" /\ Transmit(dataQueued, RemoveAt(writeOps, i))
  <2>1. dataQueued' = <<>> /\ Left' = <<>>
    BY <1>3, <1>6, TransmitNone
  <2> QED BY <1>1, <1>6, <2>1, MovedNone
<1>7. CASE link # "closed" /\ writeOps[i].st = "ok" /\ Transmit(dataQueued, RemoveAt(writeOps, i))
  <2>1. dataQueued' = <<>> /\ Left' = dataQueued
    BY <1>3, <1>5, <1>7, TransmitAll
  <2>2. Left' \o dataQueued' = Left \o dataQueued
    BY <1>4, <1>5, <2>1, ConcatEmptySeq
  <2> QED BY <1>1, <1>5, <2>2, SameItself DEF Moved, Sent
<1>8. CASE writeOps[i].st = "error" /\ writeOps' = RemoveAt(writeOps, i) /\ UNCHANGED dataQueued
  <2>1. Left' = <<>>
    BY <1>3, <1>8 DEF Left
  <2> QED BY <1>1, <1>4, <1>5, <1>8, <2>1, SameItself DEF Moved, Sent
<1> QED BY <1>2, <1>6, <1>7, <1>8

\* A message is posted behind the requests.
LEMMA PostMessageMoves ==
    ASSUME TypeOK, TypeOK', NEW v \in Reply, PostMessage(v), UNCHANGED <<toServer, writeOps, dataQueued, subs>>
    PROVE  Moved
<1> DEFINE heard == [run |-> "msgHandler", to |-> Regular(v.chan), msg |-> v.id]
           jobs  == IF Regular(v.chan) = {} THEN <<>> ELSE <<MsgJob(Regular(v.chan), v.id)>>
<1>1. Regular(v.chan) \in SUBSET Handle /\ singleShotMsgHandlers \in SUBSET Handle /\ strand \in Seq(Job) /\ v.id \in Nat
  BY DEF TypeOK, Regular, Reply
<1>2. \A to \in SUBSET Handle : MsgJob(to, v.id) \in Job /\ RequestOf(MsgJob(to, v.id)) = NoRequest
  <2>1. \A to : ~IsRequest(MsgJob(to, v.id))
    BY DEF MsgJob, IsRequest
  <2> QED BY <1>1, <2>1, JobTypes DEF RequestOf
<1>3. \A q \in Seq(Job), to \in SUBSET Handle :
         /\ q \o <<MsgJob(to, v.id)>> \in Seq(Job)
         /\ TellsTheSame(RequestsOf(q), RequestsOf(q \o <<MsgJob(to, v.id)>>))
  <2> SUFFICES ASSUME NEW q \in Seq(Job), NEW to \in SUBSET Handle
               PROVE  /\ q \o <<MsgJob(to, v.id)>> \in Seq(Job)
                      /\ TellsTheSame(RequestsOf(q), RequestsOf(q \o <<MsgJob(to, v.id)>>))
    OBVIOUS
  <2> DEFINE job == MsgJob(to, v.id)
  <2>1. job \in Job /\ RequestOf(job) = NoRequest
    BY <1>2
  <2> HIDE DEF job
  <2>2. q \o <<job>> = Append(q, job) /\ Append(q, job) \in Seq(Job)
    BY <2>1, AppendIsConcat, AppendProperties
  <2>3. RequestsOf(Append(q, job)) = Append(RequestsOf(q), NoRequest) /\ RequestsOf(q) \in Seq(Request)
    BY <2>1, RequestsAppend, RequestsType
  <2> QED BY <2>2, <2>3, SameAppend DEF job
<1>4. \A q \in Seq(Job) : TellsTheSame(RequestsOf(q), RequestsOf(q \o jobs)) /\ q \o jobs \in Seq(Job)
  <2> SUFFICES ASSUME NEW q \in Seq(Job)
               PROVE  TellsTheSame(RequestsOf(q), RequestsOf(q \o jobs)) /\ q \o jobs \in Seq(Job)
    OBVIOUS
  <2>1. CASE Regular(v.chan) = {}
    <3>1. q \o jobs = q
      BY <2>1, ConcatEmptySeq
    <3>2. RequestsOf(q) \in Seq(Request)
      BY RequestsType
    <3> QED BY <3>1, <3>2, SameItself
  <2>2. CASE Regular(v.chan) # {}
    BY <1>1, <1>3, <2>2
  <2> QED BY <2>1, <2>2
<1>5. \/ strand' = strand \o jobs
      \/ \E it \in singleShotMsgHandlers : strand' = strand \o <<MsgJob({it}, v.id)>> \o jobs
  BY DEF PostMessage
<1> HIDE DEF jobs
<1>6. TellsTheSame(Awaiting, Awaiting')
  <2>1. CASE strand' = strand \o jobs
    BY <1>1, <1>4, <2>1 DEF Awaiting
  <2>2. CASE \E it \in singleShotMsgHandlers : strand' = strand \o <<MsgJob({it}, v.id)>> \o jobs
    <3>1. PICK it \in singleShotMsgHandlers : strand' = (strand \o <<MsgJob({it}, v.id)>>) \o jobs
      BY <2>2
    <3>2. {it} \in SUBSET Handle
      BY <1>1
    <3> DEFINE more == strand \o <<MsgJob({it}, v.id)>>
    <3>3. more \in Seq(Job) /\ TellsTheSame(RequestsOf(strand), RequestsOf(more))
      BY <1>1, <1>3, <3>2
    <3> HIDE DEF more
    <3>4. TellsTheSame(RequestsOf(more), RequestsOf(more \o jobs)) /\ strand' = more \o jobs
      BY <1>4, <3>1, <3>3 DEF more
    <3> QED BY <3>3, <3>4, SameTwice DEF Awaiting
  <2> QED BY <1>5, <2>1, <2>2
<1>7. Left' = Left
  BY DEF Left
<1> QED BY <1>6, <1>7 DEF Moved, Sent

LEMMA ParseChunkMoves ==
    ASSUME TypeOK, TypeOK', ParseChunk
    PROVE  Moved
<1>1. UNCHANGED <<toServer, writeOps, dataQueued, subs>> /\ rest # <<>>
  BY DEF ParseChunk, envVars, linkVars, opVars
<1>2. Head(rest) \in Unit
  BY <1>1, HeadTailProperties DEF TypeOK
<1>3. PICK out \in Parse(Head(rest)) :
         CASE out.result = "Completed" -> rest' = Remains(out.left) /\ DoProcessMessage(out.value)
           [] out.result = "Incompleted" ->
                /\ rest' = Tail(rest)
                /\ UNCHANGED <<frame, strand, singleShotMsgHandlers, delivered, reported>>
           [] out.result = "Error" ->
                /\ rest' = <<>> /\ frame' = "none" /\ Report1("parser")
                /\ UNCHANGED <<strand, singleShotMsgHandlers, delivered>>
  BY DEF ParseChunk
<1>4. out.result \in {"Completed", "Incompleted", "Error"} /\ out.value \in Reply
  BY <1>2, ParseType DEF TypeOK
<1>5. CASE out.result = "Completed" /\ PostMessage(out.value)
  BY <1>1, <1>4, <1>5, PostMessageMoves
<1>6. CASE ~(out.result = "Completed" /\ PostMessage(out.value))
  <2>1. UNCHANGED strand
    BY <1>3, <1>4, <1>6 DEF DoProcessMessage, CallFront, Refuse
  <2> QED BY <1>1, <2>1, MovedNot
<1> QED BY <1>5, <1>6

\* A handler of the client leaves the subscriptions and the link alone.
LEMMA HandlerMoves ==
    ASSUME TypeOK, TypeOK', PairTyped, PairTyped', SingleWriter, WrittenOut, Handler
    PROVE  Moved /\ UNCHANGED <<msgHandlers, held, link>>
<1>1. UNCHANGED <<msgHandlers, held, link>>
  BY DEF Handler, DoAsyncCommand, CallMessageHandler, AsyncWrite, HandleAsyncConnect, ConnectHandlerReturns,
      AsyncRead, ReadLoop, ReadAgain, ParseChunk, HandlerReturns, ErrorHandlerReturns, pubsubVars, envVars, linkVars
<1>2. CASE DoAsyncCommand
  BY <1>1, <1>2, DoAsyncCommandMoves
<1>3. CASE CallMessageHandler
  BY <1>1, <1>3, CallMessageHandlerMoves
<1>4. CASE AsyncWrite
  BY <1>1, <1>4, AsyncWriteMoves
<1>5. CASE ParseChunk
  BY <1>1, <1>5, ParseChunkMoves
<1>6. CASE \/ HandleAsyncConnect \/ ConnectHandlerReturns \/ AsyncRead
           \/ ReadAgain \/ HandlerReturns \/ ErrorHandlerReturns
  <2>1. UNCHANGED <<toServer, writeOps, dataQueued, strand, subs>>
    BY <1>6 DEF HandleAsyncConnect, ConnectHandlerReturns, AsyncRead, ReadAgain, HandlerReturns,
        ErrorHandlerReturns, queueVars, envVars, linkVars, opVars
  <2> QED BY <1>1, <2>1, MovedNot
<1> QED BY <1>1, <1>2, <1>3, <1>4, <1>5, <1>6 DEF Handler, ReadLoop

\* What the kernel has taken goes to the server; on a link that is not up it is lost.
LEMMA WriteSomeSends ==
    ASSUME TypeOK, PairTyped, SingleWriter, WriteSome, UNCHANGED clientVars
    PROVE  /\ UNCHANGED <<link, toClient, subs, readOps>> /\ UNCHANGED dataQueued /\ writeOps # <<>>
           /\ IF link = "up" THEN Sent' = Sent ELSE toServer' = toServer
           /\ Range(Left') \subseteq Range(Left)
           /\ \A j \in 1 .. Len(writeOps') : /\ writeOps'[j].st = "ok" => writeOps'[j].left = <<>>
                                            /\ writeOps'[j].st = "error" => link # "up"
<1> DEFINE taken(i, n) == SubSeq(writeOps[i].left, 1, n)
           kept(i, n)  == SubSeq(writeOps[i].left, n + 1, Len(writeOps[i].left))
           op(i, n)    == [st |-> IF kept(i, n) = <<>> THEN "ok" ELSE "pending", left |-> kept(i, n)]
           Taken(i, n) == /\ toServer' = IF link = "up" THEN toServer \o taken(i, n) ELSE toServer
                          /\ writeOps' = [writeOps EXCEPT ![i] = op(i, n)]
<1>1. UNCHANGED <<link, toClient, subs, readOps>> /\ UNCHANGED dataQueued
  BY EnvironmentKeeps DEF WriteSome
<1>2. PICK i \in DOMAIN writeOps : \E n \in 1 .. Len(writeOps[i].left) : Taken(i, n)
  BY Zenon DEF WriteSome
<1>3. PICK n \in 1 .. Len(writeOps[i].left) : Taken(i, n)
  BY <1>2
<1>4. writeOps \in Seq(WriteOp) /\ DOMAIN writeOps = 1 .. Len(writeOps) /\ writeOps[i] \in WriteOp
  BY ElementOfSeq, LenProperties DEF TypeOK, EnvTypeOK
<1>5. Len(writeOps) = 1
  BY <1>4 DEF SingleWriter
<1>6. i = 1 /\ writeOps # <<>>
  <2>1. i \in 1 .. 1
    BY <1>4, <1>5
  <2> QED BY <1>5, <2>1, EmptySeq
<1>7. Left = writeOps[i].left /\ Left \in Seq(Request)
  BY <1>6 DEF Left, PairTyped
<1>8. /\ taken(i, n) \in Seq(Request) /\ kept(i, n) \in Seq(Request)
      /\ taken(i, n) \o kept(i, n) = Left
  <2>1. n \in 0 .. Len(Left)
    BY <1>7, LenProperties
  <2> QED BY <1>7, <2>1, Cut
<1>9. op(i, n).left = kept(i, n) /\ op(i, n).st # "error" /\ (op(i, n).st = "ok" => kept(i, n) = <<>>)
  OBVIOUS
<1>10. Len(writeOps') = 1 /\ writeOps'[1] = op(i, n) /\ writeOps' # <<>>
  <2>1. op(i, n) \in WriteOp
    BY <1>8, OpTypes
  <2> HIDE DEF op
  <2>2. Len(writeOps') = 1 /\ writeOps'[1] = op(i, n)
    BY <1>3, <1>4, <1>5, <1>6, <2>1, ReplaceType
  <2>3. Len(<<>>) # 1
    BY EmptySeq
  <2> QED BY <2>2, <2>3, Zenon
<1>11. Left' = kept(i, n)
  <2> HIDE DEF op, kept
  <2> QED BY <1>9, <1>10 DEF Left
<1>12. toServer' = IF link = "up" THEN toServer \o taken(i, n) ELSE toServer
  BY <1>3
<1> HIDE DEF op, taken, kept
<1>13. ASSUME link = "up" PROVE Sent' = Sent
  <2>0. \A s, t, v \in Seq(Request) : (s \o t) \o v = s \o (t \o v)
    BY ConcatRegroup
  <2>1. toServer \in Seq(Request) /\ dataQueued \in Seq(Request) /\ kept(i, n) \o dataQueued \in Seq(Request)
    BY <1>8, ConcatProperties DEF PairTyped
  <2>2. Sent' = (toServer \o taken(i, n)) \o (kept(i, n) \o dataQueued)
    BY <1>1, <1>11, <1>12, <1>13 DEF Sent
  <2>3. @ = toServer \o (taken(i, n) \o (kept(i, n) \o dataQueued))
    BY <1>8, <2>0, <2>1
  <2>4. taken(i, n) \o (kept(i, n) \o dataQueued) = Left \o dataQueued
    <3>1. (taken(i, n) \o kept(i, n)) \o dataQueued = taken(i, n) \o (kept(i, n) \o dataQueued)
      BY <1>8, <2>0, <2>1
    <3> QED BY <1>8, <3>1
  <2> QED BY <2>2, <2>3, <2>4 DEF Sent
<1>14. \A j \in 1 .. Len(writeOps') : /\ writeOps'[j].st = "ok" => writeOps'[j].left = <<>>
                                      /\ writeOps'[j].st = "error" => link # "up"
  BY <1>9, <1>10
<1>15. Range(kept(i, n)) \subseteq Range(Left)
  <2>0. n + 1 \in 1 .. Len(Left) + 1
    BY <1>7, LenProperties
  <2>1. /\ Len(kept(i, n)) = Len(Left) - (n + 1) + 1
        /\ \A j \in 1 .. Len(Left) - (n + 1) + 1 : kept(i, n)[j] = Left[n + 1 + j - 1]
    BY <1>7, <2>0, SuffixProperties DEF kept
  <2>2. DOMAIN kept(i, n) = 1 .. Len(kept(i, n)) /\ DOMAIN Left = 1 .. Len(Left) /\ Len(Left) \in Nat
    BY <1>7, <1>8, LenProperties
  <2>3. \A j \in 1 .. Len(Left) - (n + 1) + 1 : n + 1 + j - 1 \in 1 .. Len(Left)
    BY <2>0, <2>2
  <2>4. \A j \in DOMAIN kept(i, n) : kept(i, n)[j] \in Range(Left)
    BY <2>1, <2>2, <2>3 DEF Range
  <2> QED BY <2>4 DEF Range
<1> QED BY <1>1, <1>6, <1>11, <1>12, <1>13, <1>14, <1>15

\* Requests are lost, on a link that is not up.
LEMMA MovedLost ==
    ASSUME TypeOK, PairTyped, PairTyped', link' # "up", UNCHANGED <<dataQueued, strand>>, subs' \subseteq subs,
           Range(toServer') \subseteq Range(toServer), Range(Left') \subseteq Range(Left)
    PROVE  Moved
<1>1. Range(Sent') = Range(toServer') \cup (Range(Left') \cup Range(dataQueued'))
  BY SentRangeNext
<1>2. Range(Sent) = Range(toServer) \cup (Range(Left) \cup Range(dataQueued))
  BY SentRange
<1>3. Range(Sent') \subseteq Range(Sent)
  BY <1>1, <1>2
<1>4. Awaiting' = Awaiting
  BY DEF Awaiting
<1> QED BY <1>3, <1>4 DEF Moved, Underway

LEMMA WriteSomeMoves ==
    ASSUME TypeOK, PairTyped, PairTyped', SingleWriter, WriteSome, UNCHANGED clientVars
    PROVE  Moved
<1>1. /\ UNCHANGED <<link, toClient, subs, readOps>> /\ UNCHANGED dataQueued
      /\ IF link = "up" THEN Sent' = Sent ELSE toServer' = toServer
      /\ Range(Left') \subseteq Range(Left)
  BY WriteSomeSends
<1>2. strand' = strand /\ Awaiting' = Awaiting
  BY EnvironmentKeeps DEF Awaiting
<1>3. CASE link = "up"
  BY <1>1, <1>2, <1>3, AwaitingType, SameItself DEF Moved
<1>4. CASE link # "up"
  BY <1>1, <1>2, <1>4, MovedLost
<1> QED BY <1>3, <1>4

LEMMA WriteFailsMoves ==
    ASSUME TypeOK, PairTyped, PairTyped', SingleWriter, WriteFails, UNCHANGED clientVars
    PROVE  Moved
<1>1. UNCHANGED <<link, toServer, subs>> /\ link # "up" /\ UNCHANGED <<dataQueued, strand>>
  BY EnvironmentKeeps DEF WriteFails, Unconnectable, linkVars
<1>2. PICK i \in DOMAIN writeOps : writeOps' = [writeOps EXCEPT ![i] = [st |-> "error", left |-> <<>>]]
  BY DEF WriteFails
<1> DEFINE failed == [st |-> "error", left |-> <<>>]
<1>3. writeOps \in Seq(WriteOp) /\ DOMAIN writeOps = 1 .. Len(writeOps) /\ failed \in WriteOp
  BY LenProperties, OpTypes, EmptySeq DEF TypeOK, EnvTypeOK
<1>4. failed.left = <<>>
  OBVIOUS
<1> HIDE DEF failed
<1>5. Len(writeOps) = 1
  BY <1>3 DEF SingleWriter
<1>6. i = 1
  <2>1. i \in 1 .. 1
    BY <1>3, <1>5
  <2> QED BY <2>1
<1>7. Len(writeOps') = 1 /\ writeOps'[1] = failed /\ writeOps' # <<>>
  <2>1. Len(writeOps') = 1 /\ writeOps'[1] = failed
    BY <1>2, <1>3, <1>5, <1>6, ReplaceType DEF failed
  <2> QED BY <2>1, EmptySeq
<1>8. Left' = <<>>
  BY <1>4, <1>7 DEF Left
<1> QED BY <1>1, <1>8, NoRange, MovedLost

LEMMA ServerReplyMoves ==
    ASSUME TypeOK, PairTyped, ServerReply, UNCHANGED clientVars
    PROVE  Moved
<1> DEFINE r == Head(toServer)
<1>1. /\ UNCHANGED <<dataQueued, strand, writeOps>>
      /\ toServer # <<>> /\ toServer' = Tail(toServer)
  BY EnvironmentKeeps DEF ServerReply, opVars
<1>2. toServer \in Seq(Request) /\ Left \o dataQueued \in Seq(Request)
  BY ConcatProperties DEF PairTyped
<1>3. Sent # <<>> /\ Head(Sent) = r /\ Tail(Sent) = Tail(toServer) \o (Left \o dataQueued)
  BY <1>1, <1>2, ConcatTail DEF Sent
<1>4. subs' = ToldOf(subs, r)
  BY DEF ServerReply, ToldOf
<1>5. Sent' = Tail(Sent)
  BY <1>1, <1>3 DEF Sent, Left
<1>6. Awaiting' = Awaiting
  BY <1>1 DEF Awaiting
<1> QED BY <1>3, <1>4, <1>5, <1>6 DEF Moved

LEMMA LinkDropsMoves ==
    ASSUME TypeOK, PairTyped, PairTyped', LinkDrops, UNCHANGED clientVars
    PROVE  Moved
<1>1. /\ UNCHANGED <<dataQueued, strand, writeOps>>
      /\ link' = "dropped" /\ toServer' = <<>> /\ subs' = {}
  BY EnvironmentKeeps DEF LinkDrops, opVars
<1>2. Left' = Left
  BY <1>1 DEF Left
<1>3. Range(toServer') \subseteq Range(toServer)
  BY <1>1, NoRange
<1> QED BY <1>1, <1>2, <1>3, MovedLost

LEMMA EnvironmentMoves ==
    ASSUME TypeOK, PairTyped, PairTyped', SingleWriter, Environment
    PROVE  Moved /\ UNCHANGED <<msgHandlers, held, state>>
<1>1. UNCHANGED clientVars /\ UNCHANGED <<msgHandlers, held, state>>
  BY DEF Environment, clientVars, pubsubVars
<1>2. CASE WriteSome
  BY <1>1, <1>2, WriteSomeMoves
<1>3. CASE WriteFails
  BY <1>1, <1>3, WriteFailsMoves
<1>4. CASE ServerReply
  BY <1>1, <1>4, ServerReplyMoves
<1>5. CASE LinkDrops
  BY <1>1, <1>5, LinkDropsMoves
<1>6. CASE ConnectDone \/ ReadSome \/ ReadFails \/ \E ch \in Channels : ServerPublish(ch, Audience(ch))
  <2>1. UNCHANGED <<toServer, writeOps, subs>>
    BY <1>6 DEF ConnectDone, ReadSome, ReadFails, ServerPublish, linkVars, opVars
  <2> QED BY <1>1, <2>1, EnvironmentKeeps, MovedNot
<1> QED BY <1>1, <1>2, <1>3, <1>4, <1>5, <1>6 DEF Environment

\* The server is subscribed to ch, or will be.
WillServe(ch) == ch \in subs \/ \E r \in Underway : r.kind = "subscribe" /\ r.chan = ch

\* The requests under way lead from what the server is subscribed to, to the channels L.
LeadTo(L) == \E M : Leads(Sent, subs, M) /\ Leads(Awaiting, M, L)

LEMMA SameRange ==
    ASSUME NEW q, NEW p, TellsTheSame(q, p)
    PROVE  Range(p) \subseteq Range(q) \cup {NoRequest} /\ Range(q) \subseteq Range(p) \cup {NoRequest}
BY DEF TellsTheSame

\* One request goes from the head of a queue to the end of another.
LEMMA PassedOn ==
    ASSUME NEW q \in Seq(Request), NEW s \in Seq(Request), q # <<>>
    PROVE  /\ Head(q) \in Request
           /\ Range(Append(s, Head(q))) \cup Range(Tail(q)) = Range(s) \cup Range(q)
<1>1. Range(q) = {Head(q)} \cup Range(Tail(q)) /\ Head(q) \in Request
  BY HeadTailProperties, RangeTail
<1>2. Range(Append(s, Head(q))) = Range(s) \cup {Head(q)}
  BY <1>1, RangeAppend
<1> QED BY <1>1, <1>2

\* Nothing is under way that was not, and the server is subscribed to nothing else than it was
\* told of.
LEMMA MovedSets ==
    ASSUME TypeOK, PairTyped, Moved
    PROVE  /\ Underway' \subseteq Underway \cup {NoRequest}
           /\ \A ch \in subs' : WillServe(ch)
<1>0. Sent \in Seq(Request) /\ Awaiting \in Seq(Request)
  BY AwaitingType DEF PairTyped
<1>1. CASE UNCHANGED subs /\ Sent' = Sent /\ TellsTheSame(Awaiting, Awaiting')
  <2>1. Range(Awaiting') \subseteq Range(Awaiting) \cup {NoRequest}
    BY <1>1, SameRange
  <2> QED BY <1>1, <2>1 DEF Underway, WillServe
<1>2. CASE /\ UNCHANGED subs /\ Awaiting # <<>>
           /\ Sent' = Append(Sent, Head(Awaiting)) /\ Awaiting' = Tail(Awaiting)
  <2>1. Range(Sent') \cup Range(Awaiting') = Range(Sent) \cup Range(Awaiting)
    BY <1>0, <1>2, PassedOn
  <2> QED BY <1>2, <2>1 DEF Underway, WillServe
<1>3. CASE /\ Sent # <<>> /\ Sent' = Tail(Sent) /\ Awaiting' = Awaiting
           /\ subs' = ToldOf(subs, Head(Sent))
  <2>1. Range(Sent) = {Head(Sent)} \cup Range(Tail(Sent))
    BY <1>0, <1>3, RangeTail
  <2>2. Head(Sent) \in Underway /\ Underway' \subseteq Underway
    BY <1>3, <2>1 DEF Underway
  <2> QED BY <1>3, <2>2 DEF WillServe, ToldOf
<1>4. CASE link' # "up" /\ subs' \subseteq subs /\ Underway' \subseteq Underway
  BY <1>4 DEF WillServe
<1> QED BY <1>1, <1>2, <1>3, <1>4 DEF Moved

\* As long as the link is up the server does what it was asked.
LEMMA MovedServes ==
    ASSUME TypeOK, PairTyped, Moved, link' = "up", \A r \in Underway : r.kind # "unsubscribe",
           NEW ch, WillServe(ch)
    PROVE  WillServe(ch)'
<1>0. Sent \in Seq(Request) /\ Awaiting \in Seq(Request)
  BY AwaitingType DEF PairTyped
<1>1. CASE UNCHANGED subs /\ Sent' = Sent /\ TellsTheSame(Awaiting, Awaiting')
  <2>1. Range(Awaiting) \subseteq Range(Awaiting') \cup {NoRequest} /\ NoRequest.kind = "command"
    BY <1>1, SameRange, NothingAsked
  <2> QED BY <1>1, <2>1 DEF Underway, WillServe
<1>2. CASE /\ UNCHANGED subs /\ Awaiting # <<>>
           /\ Sent' = Append(Sent, Head(Awaiting)) /\ Awaiting' = Tail(Awaiting)
  <2>1. Range(Sent') \cup Range(Awaiting') = Range(Sent) \cup Range(Awaiting)
    BY <1>0, <1>2, PassedOn
  <2> QED BY <1>2, <2>1 DEF Underway, WillServe
<1>3. CASE /\ Sent # <<>> /\ Sent' = Tail(Sent) /\ Awaiting' = Awaiting
           /\ subs' = ToldOf(subs, Head(Sent))
  <2>1. Range(Sent) = {Head(Sent)} \cup Range(Tail(Sent))
    BY <1>0, <1>3, RangeTail
  <2>2. Head(Sent) \in Underway /\ Underway = {Head(Sent)} \cup Underway'
    BY <1>3, <2>1 DEF Underway
  <2>3. Head(Sent).kind # "unsubscribe"
    BY <2>2
  <2>4. CASE ch \in subs
    BY <1>3, <2>3, <2>4 DEF WillServe, ToldOf
  <2>5. CASE \E r \in Underway : r.kind = "subscribe" /\ r.chan = ch
    <3>1. PICK r \in Underway : r.kind = "subscribe" /\ r.chan = ch
      BY <2>5
    <3> QED BY <1>3, <2>2, <3>1 DEF WillServe, ToldOf
  <2> QED BY <2>4, <2>5 DEF WillServe
<1> QED BY <1>1, <1>2, <1>3 DEF Moved

LEMMA MovedLeads ==
    ASSUME TypeOK, PairTyped, Moved, link' = "up", NEW L, LeadTo(L)
    PROVE  LeadTo(L)'
<1>0. Sent \in Seq(Request) /\ Awaiting \in Seq(Request)
  BY AwaitingType DEF PairTyped
<1>5. PICK M : Leads(Sent, subs, M) /\ Leads(Awaiting, M, L)
  BY DEF LeadTo
<1>1. CASE UNCHANGED subs /\ Sent' = Sent /\ TellsTheSame(Awaiting, Awaiting')
  <2>1. Leads(Sent', subs', M) /\ Leads(Awaiting', M, L)
    BY <1>1, <1>5 DEF TellsTheSame
  <2> QED BY <2>1 DEF LeadTo
<1>2. CASE /\ UNCHANGED subs /\ Awaiting # <<>>
           /\ Sent' = Append(Sent, Head(Awaiting)) /\ Awaiting' = Tail(Awaiting)
  <2>1. Head(Awaiting) \in Request
    BY <1>0, <1>2, PassedOn
  <2>2. Leads(Sent', subs', ToldOf(M, Head(Awaiting)))
    BY <1>0, <1>2, <1>5, <2>1, LeadsAppend
  <2>3. Leads(Awaiting', ToldOf(M, Head(Awaiting)), L)
    BY <1>0, <1>2, <1>5, LeadsTail
  <2> QED BY <2>2, <2>3 DEF LeadTo
<1>3. CASE /\ Sent # <<>> /\ Sent' = Tail(Sent) /\ Awaiting' = Awaiting
           /\ subs' = ToldOf(subs, Head(Sent))
  <2>1. Leads(Sent', subs', M)
    BY <1>0, <1>3, <1>5, LeadsTail
  <2> QED BY <1>3, <1>5, <2>1 DEF LeadTo
<1> QED BY <1>1, <1>2, <1>3 DEF Moved

\* What the application's calls do to the requests under way: one of them asks for one more.
Asks(r) ==
    /\ r \in Request
    /\ UNCHANGED <<link, subs>> /\ Sent' = Sent /\ Awaiting' = Append(Awaiting, r)

LEMMA PostAsks ==
    ASSUME TypeOK, NEW kind, NEW chan, Post(kind, chan), UNCHANGED <<envVars, dataQueued>>,
           \/ kind = "command" /\ chan = NoChannel
           \/ kind \in {"subscribe", "unsubscribe"} /\ chan \in Channels
    PROVE  \E r : r.kind = kind /\ r.chan = chan /\ Asks(r)
<1> DEFINE req == [kind |-> kind, id |-> issued', chan |-> chan]
           job == [run |-> "doAsyncCommand", req |-> req]
<1>1. strand \in Seq(Job) /\ issued \in Nat
  BY DEF TypeOK
<1>2. issued' \in Nat
  BY <1>1, PostType
<1>3. req \in Request /\ req.kind = kind /\ req.chan = chan
  BY <1>2 DEF Request
<1>4. strand' = Append(strand, job)
  BY DEF Post
<1> HIDE DEF req
<1>5. job \in Job /\ RequestOf(job) = req
  BY <1>3, JobTypes DEF RequestOf, IsRequest
<1> HIDE DEF job
<1>6. Awaiting' = Append(Awaiting, req)
  BY <1>1, <1>4, <1>5, RequestsAppend DEF Awaiting
<1>7. UNCHANGED <<link, subs>> /\ Sent' = Sent
  <2>1. UNCHANGED <<link, subs, toServer, writeOps, dataQueued>>
    BY DEF envVars, linkVars, opVars
  <2> QED BY <2>1 DEF Sent, Left
<1> QED BY <1>3, <1>6, <1>7 DEF Asks

LEMMA AsksSets ==
    ASSUME TypeOK, NEW r, Asks(r)
    PROVE  Underway' = Underway \cup {r}
<1>1. Awaiting \in Seq(Request)
  BY AwaitingType
<1>2. Range(Awaiting') = Range(Awaiting) \cup {r}
  BY <1>1, RangeAppend DEF Asks
<1> QED BY <1>2 DEF Asks, Underway

LEMMA AsksServes ==
    ASSUME TypeOK, NEW r, Asks(r), NEW ch, WillServe(ch) \/ (r.kind = "subscribe" /\ r.chan = ch)
    PROVE  WillServe(ch)'
<1>1. Underway' = Underway \cup {r} /\ subs' = subs
  BY AsksSets DEF Asks
<1> QED BY <1>1 DEF WillServe

LEMMA AsksLeads ==
    ASSUME TypeOK, NEW r, Asks(r), NEW L, LeadTo(L)
    PROVE  LeadTo(ToldOf(L, r))'
<1>1. Awaiting \in Seq(Request)
  BY AwaitingType
<1>2. PICK M : Leads(Sent, subs, M) /\ Leads(Awaiting, M, L)
  BY DEF LeadTo
<1>3. Leads(Awaiting', M, ToldOf(L, r))
  BY <1>1, <1>2, LeadsAppend DEF Asks
<1> QED BY <1>2, <1>3 DEF LeadTo, Asks

LEMMA CommandAsks ==
    ASSUME TypeOK, Command \/ Publish
    PROVE  /\ UNCHANGED <<link, state, msgHandlers, held, connectOps>>
           /\ Moved \/ \E r : r.kind = "command" /\ Asks(r)
<1>1. PICK call : Request1(call)
  BY DEF Command, Publish
<1>2. UNCHANGED <<link, state, msgHandlers, held, connectOps>> /\ UNCHANGED <<envVars, dataQueued>>
  BY <1>1 DEF Request1, envVars, linkVars, opVars, pubsubVars
<1>3. CASE Post("command", NoChannel)
  BY <1>2, <1>3, PostAsks
<1>4. CASE UNCHANGED strand
  <2>1. UNCHANGED <<toServer, writeOps, dataQueued, strand, subs>>
    BY <1>2, <1>4 DEF envVars, linkVars, opVars
  <2> QED BY <1>2, <2>1, MovedNot
<1> QED BY <1>1, <1>2, <1>3, <1>4 DEF Request1

LEMMA SubscribeAsks ==
    ASSUME TypeOK, NEW ch \in Channels, Subscribe(ch)
    PROVE  /\ UNCHANGED <<link, connectOps>>
           /\ \/ /\ Subscribable /\ Subscribable'
                 /\ \E h \in Handle : /\ h.chan = ch /\ msgHandlers' = msgHandlers \cup {h}
                                      /\ held' = held \cup {h}
                 /\ \E r : r.kind = "subscribe" /\ r.chan = ch /\ Asks(r)
              \/ /\ ~Subscribable /\ Moved
                 /\ UNCHANGED <<state, msgHandlers, strand, dataQueued, writeOps, toServer, subs>>
                 /\ \E h \in Handle : h.chan = ch /\ held' = held \cup {h}
<1>1. UNCHANGED <<envVars, dataQueued>> /\ UNCHANGED <<link, connectOps, toServer, writeOps, subs>>
  BY DEF Subscribe, envVars, linkVars, opVars
<1>2. CASE Subscribable
  <2>1. Post("subscribe", ch) /\ state' = "Subscribed"
    BY <1>2 DEF Subscribe
  <2>2. \E r : r.kind = "subscribe" /\ r.chan = ch /\ Asks(r)
    BY <1>1, <2>1, PostAsks
  <2> DEFINE h == [id |-> subscribeSeq, chan |-> ch, shot |-> FALSE]
  <2>3. h \in Handle /\ h.chan = ch
    BY DEF TypeOK, Handle
  <2>4. msgHandlers' = msgHandlers \cup {h} /\ held' = held \cup {h}
    BY <1>2 DEF Subscribe
  <2> HIDE DEF h
  <2>5. Subscribable'
    BY <2>1 DEF Subscribable
  <2> QED BY <1>1, <1>2, <2>2, <2>3, <2>4, <2>5
<1>3. CASE ~Subscribable
  <2>1. UNCHANGED <<state, msgHandlers, strand>>
    BY <1>3 DEF Subscribe
  <2>2. UNCHANGED <<state, msgHandlers, strand, dataQueued, writeOps, toServer, subs>>
    BY <1>1, <2>1
  <2> DEFINE h == [id |-> RefusedId, chan |-> ch, shot |-> FALSE]
  <2>3. h \in Handle /\ h.chan = ch
    BY DEF Handle, RefusedId
  <2>4. held' = held \cup {h}
    BY <1>3 DEF Subscribe
  <2> HIDE DEF h
  <2> QED BY <1>1, <1>3, <2>2, <2>3, <2>4, MovedNot
<1> QED BY <1>2, <1>3

LEMMA UnsubscribeAsks ==
    ASSUME TypeOK, NEW h \in held, Unsubscribe(h)
    PROVE  /\ UNCHANGED <<link, connectOps, state>> /\ held' = held \ {h}
           /\ \/ /\ Subscribable /\ msgHandlers' = Remaining(h)
                 /\ \E r : r.kind = "unsubscribe" /\ r.chan = h.chan /\ Asks(r)
              \/ /\ ~Subscribable
                 /\ UNCHANGED <<msgHandlers, strand, dataQueued, writeOps, toServer, subs>>
<1>0. h.chan \in Channels
  BY DEF TypeOK, Handle
<1>1. /\ UNCHANGED <<envVars, dataQueued>> /\ UNCHANGED <<link, connectOps, state, toServer, writeOps, subs>>
      /\ held' = held \ {h}
  BY DEF Unsubscribe, envVars, linkVars, opVars
<1>2. CASE Subscribable
  <2>1. Post("unsubscribe", h.chan) /\ msgHandlers' = Remaining(h)
    BY <1>2 DEF Unsubscribe
  <2>2. \E r : r.kind = "unsubscribe" /\ r.chan = h.chan /\ Asks(r)
    BY <1>0, <1>1, <2>1, PostAsks
  <2> QED BY <1>1, <1>2, <2>1, <2>2
<1>3. CASE ~Subscribable
  BY <1>1, <1>3 DEF Unsubscribe
<1> QED BY <1>2, <1>3

LEMMA ConnectMoves ==
    ASSUME TypeOK, Connect
    PROVE  /\ Moved /\ UNCHANGED <<msgHandlers, held>>
           /\ UNCHANGED <<strand, dataQueued, writeOps, toServer, subs>>
<1>1. /\ UNCHANGED <<msgHandlers, held>>
      /\ UNCHANGED <<strand, dataQueued, writeOps, toServer, subs>>
  BY DEF Connect, StartConnect, linkVars, opVars, queueVars, pubsubVars
<1> QED BY <1>1, MovedNot

LEMMA DisconnectMoves ==
    ASSUME TypeOK, PairTyped, PairTyped', SingleWriter, Disconnect
    PROVE  Moved /\ msgHandlers' = {} /\ ~Subscribable' /\ link' = "closed"
<1>1. /\ UNCHANGED <<strand, dataQueued>> /\ CloseSocket /\ msgHandlers' = {} /\ state' = "Closed"
  BY DEF Disconnect, Close
<1>2. /\ link' = "closed" /\ toServer' = <<>> /\ subs' = {}
      /\ writeOps' = [i \in DOMAIN writeOps |->
                       IF writeOps[i].st = "pending" THEN [st |-> "error", left |-> <<>>] ELSE writeOps[i]]
  BY <1>1 DEF CloseSocket
<1>3. Left' \in {Left, <<>>}
  <2>1. writeOps \in Seq(WriteOp) /\ DOMAIN writeOps = 1 .. Len(writeOps) /\ Len(writeOps) \in Nat
    BY LenProperties DEF TypeOK, EnvTypeOK
  <2>2. CASE writeOps = <<>>
    <3>1. writeOps' = <<>>
      BY <1>2, <2>2
    <3> QED BY <3>1 DEF Left
  <2>3. CASE writeOps # <<>>
    <3>1. 1 \in DOMAIN writeOps
      BY <2>1, <2>3, EmptySeq
    <3>2. /\ writeOps'[1] = IF writeOps[1].st = "pending" THEN [st |-> "error", left |-> <<>>] ELSE writeOps[1]
          /\ DOMAIN writeOps' = DOMAIN writeOps
      BY <1>2, <3>1
    <3>3. writeOps' # <<>>
      BY <3>1, <3>2
    <3>4. writeOps'[1].left \in {writeOps[1].left, <<>>}
      BY <3>2
    <3> QED BY <2>3, <3>3, <3>4 DEF Left
  <2> QED BY <2>2, <2>3
<1>4. Range(toServer') \subseteq Range(toServer) /\ Range(Left') \subseteq Range(Left)
  BY <1>2, <1>3, NoRange
<1>5. Moved
  BY <1>1, <1>2, <1>4, MovedLost
<1> QED BY <1>1, <1>2, <1>5 DEF Subscribable

\* The channels whose messages the program is told of, and those it ever asks for.
Listened == {h.chan : h \in msgHandlers}
Wanted   == IF program = "subscriber" THEN {Topic, Pattern} ELSE {}

\* No program asks for anything else, nor gives a subscription up.
OnlyWanted ==
    /\ \A r \in Underway : r.kind = "command" \/ (r.kind = "subscribe" /\ r.chan \in Wanted)
    /\ subs \subseteq Wanted /\ Listened \subseteq Wanted

\* Only the subscriber subscribes (async_pubsub.cpp:112).
LEMMA OnlySubscriberSubscribes ==
    ASSUME NEW p \in Programs, NEW s \in Vocabulary(p), s.call = "subscribe"
    PROVE  p = "subscriber" /\ s.arg \in {Topic, Pattern}
<1>1. CASE p = "subscriber"
  BY <1>1, SubscriberCalls DEF CallIs
<1>2. CASE p \in {"async_timeout", "publisher"}
  BY <1>2, LastingCalls DEF Lasting
<1>3. CASE p \in ConnectsOnce
  <2>1. PICK f \in DOMAIN Program[p] : \E body \in Program[p][f] : s \in Range(body)
    BY DEF Vocabulary
  <2>2. PICK body \in Program[p][f] : s \in Range(body)
    BY <2>1
  <2>3. CASE f = "main"
    <3>1. body = <<Do("connect", None)>>
      BY <1>3, <2>3, CallsOnce
    <3>2. Range(body) = {Do("connect", None)}
      BY <3>1, BodyOfOne
    <3> QED BY <2>2, <3>2 DEF Do, If
  <2>4. CASE f # "main"
    BY <1>3, <2>2, <2>4, CallsOnce
  <2> QED BY <2>3, <2>4
<1>4. CASE p = "listener"
  <2>1. PICK f \in DOMAIN [main |-> {<<>>}] : \E body \in [main |-> {<<>>}][f] : s \in Range(body)
    BY <1>4, Tables DEF Vocabulary
  <2> QED BY <2>1, ListenerTable, NoRange
<1> QED BY <1>1, <1>2, <1>3, <1>4, KnownPrograms, Tables DEF ConnectsOnce

LEMMA ListenerIsIdle == \A s : s \notin Vocabulary("listener")
<1> SUFFICES ASSUME NEW s \in Vocabulary("listener") PROVE FALSE
  OBVIOUS
<1>1. PICK f \in DOMAIN [main |-> {<<>>}] : \E body \in [main |-> {<<>>}][f] : s \in Range(body)
  BY Tables DEF Vocabulary
<1> QED BY <1>1, ListenerTable, NoRange

LEMMA SubscribeStatement ==
    ASSUME Statement, Head(script).call = "subscribe"
    PROVE  \/ state \notin Head(script).in /\ PassOver(Tail(script))
           \/ \E ch \in Channels : Head(script).arg = ch /\ CallRequest(Subscribe(ch), Subscribable, None, Tail(script))
BY DEF Statement

\* Every step of a program is one of its client's.
LEMMA ProgramSteps ==
    ASSUME TypeOK, ProgTypeOK, ScriptOfProgram, [ProgNext]_progVars
    PROVE  /\ program' = program
           /\ \/ UNCHANGED vars \/ Handler \/ Environment \/ FreeCall
              \/ Statement /\ \/ Connect \/ Command \/ Publish
                              \/ Disconnect /\ Head(script).call = "disconnect" /\ state \in Head(script).in
                              \/ \E ch \in Channels : Subscribe(ch) /\ ch \in Wanted
<1>1. program' = program
  BY ScriptSteps
<1>2. CASE Statement
  <2> DEFINE s == Head(script)
  <2>1. s \in Vocabulary(program) /\ program \in Programs
    BY <1>2, StatementCases DEF ScriptOfProgram, ProgTypeOK
  <2>2. CASE s.call = "subscribe"
    <3>1. s.arg \in Wanted
      BY <2>1, <2>2, OnlySubscriberSubscribes DEF Wanted
    <3> QED BY <1>1, <1>2, <2>2, <3>1, SubscribeStatement DEF PassOver, CallRequest
  <2>3. CASE s.call # "subscribe"
    BY <1>1, <1>2, <2>3, StatementCases DEF PassOver, CallConnect, CallDisconnect, CallRequest, WaitOrCancel, End
  <2> QED BY <2>2, <2>3
<1>3. CASE HandlerRuns
  BY <1>1, <1>3, HandlerRunsIsHandler
<1>4. CASE (\E t \in Timers : Expire(t) \/ OnTimer(t)) \/ UNCHANGED progVars
  BY <1>1, <1>4 DEF Expire, OnTimer, progVars
<1> QED BY <1>1, <1>2, <1>3, <1>4 DEF ProgNext

LEMMA OnlyWantedMoves ==
    ASSUME TypeOK, PairTyped, OnlyWanted, program' = program, Moved, msgHandlers' \subseteq msgHandlers
    PROVE  OnlyWanted'
<1>1. Underway' \subseteq Underway \cup {NoRequest} /\ \A ch \in subs' : WillServe(ch)
  BY MovedSets
<1>2. subs' \subseteq Wanted
  BY <1>1 DEF OnlyWanted, WillServe
<1>3. Wanted' = Wanted /\ Listened' \subseteq Listened
  BY DEF Wanted, Listened
<1> QED BY <1>1, <1>2, <1>3, NothingAsked DEF OnlyWanted

LEMMA OnlyWantedAsks ==
    ASSUME TypeOK, OnlyWanted, program' = program, NEW r, Asks(r),
           r.kind = "command" \/ (r.kind = "subscribe" /\ r.chan \in Wanted), Listened' \subseteq Wanted
    PROVE  OnlyWanted'
<1>1. Underway' = Underway \cup {r} /\ subs' = subs
  BY AsksSets DEF Asks
<1>2. Wanted' = Wanted
  BY DEF Wanted
<1> QED BY <1>1, <1>2 DEF OnlyWanted

LEMMA OnlyWantedKept ==
    ASSUME TypesOfAll, WrittenOut, ScriptOfProgram, program # "listener", OnlyWanted, [ProgNext]_progVars
    PROVE  OnlyWanted'
<1>0. TypeOK /\ TypeOK' /\ PairTyped /\ PairTyped' /\ SingleWriter /\ ProgTypeOK
  BY DEF TypesOfAll
<1>1. program' = program
  BY <1>0, ProgramSteps
<1>2. CASE UNCHANGED vars
  <2>1. UNCHANGED <<toServer, writeOps, dataQueued, strand, subs, msgHandlers>>
    BY <1>2 DEF vars, clientVars, queueVars, pubsubVars, envVars, linkVars, opVars
  <2> QED BY <1>0, <1>1, <2>1, MovedNot, OnlyWantedMoves
<1>3. CASE Handler
  BY <1>0, <1>1, <1>3, HandlerMoves, OnlyWantedMoves
<1>4. CASE Environment
  BY <1>0, <1>1, <1>4, EnvironmentMoves, OnlyWantedMoves
<1>5. CASE Connect
  BY <1>0, <1>1, <1>5, ConnectMoves, OnlyWantedMoves
<1>6. CASE Disconnect
  BY <1>0, <1>1, <1>6, DisconnectMoves, OnlyWantedMoves
<1>7. CASE Command \/ Publish
  <2>1. UNCHANGED msgHandlers /\ (Moved \/ \E r : r.kind = "command" /\ Asks(r))
    BY <1>0, <1>7, CommandAsks
  <2>2. Listened' \subseteq Wanted
    BY <2>1 DEF Listened, OnlyWanted
  <2> QED BY <1>0, <1>1, <2>1, <2>2, OnlyWantedMoves, OnlyWantedAsks
<1>8. CASE \E ch \in Channels : Subscribe(ch) /\ ch \in Wanted
  <2>1. PICK ch \in Channels : Subscribe(ch) /\ ch \in Wanted
    BY <1>8
  <2>2. CASE /\ \E h \in Handle : h.chan = ch /\ msgHandlers' = msgHandlers \cup {h}
             /\ \E r : r.kind = "subscribe" /\ r.chan = ch /\ Asks(r)
    <3>1. Listened' \subseteq Wanted
      BY <2>1, <2>2 DEF Listened, OnlyWanted
    <3> QED BY <1>0, <1>1, <2>1, <2>2, <3>1, OnlyWantedAsks
  <2>3. CASE Moved /\ UNCHANGED msgHandlers
    BY <1>0, <1>1, <2>3, OnlyWantedMoves
  <2> QED BY <1>0, <2>1, <2>2, <2>3, SubscribeAsks
<1>9. ~FreeCall
  BY DEF FreeCall
<1> QED BY <1>0, <1>2, <1>3, <1>4, <1>5, <1>6, <1>7, <1>8, <1>9, ProgramSteps

\* The programs that subscribe.
Listeners == {"subscriber", "listener"}

\* The socket is connected only of a client that knows, or is about to be told.
Reached == link \in {"up", "dropped"} => Subscribable \/ connectOps = <<"ok">>

LEMMA ListenersSteps ==
    ASSUME TypeOK, ProgTypeOK, ScriptOfProgram, program \in Listeners, [ProgNext]_progVars
    PROVE  /\ program' = program
           /\ \/ UNCHANGED vars \/ Handler \/ Environment
              \/ Connect
              \/ program = "subscriber" /\ Statement
                   /\ (Command \/ Publish \/ (Disconnect /\ Subscribable))
              \/ \E ch \in Channels : Subscribe(ch)
                   /\ IF program = "subscriber" THEN Statement ELSE \A h \in held : h.chan # ch
              \/ program = "listener" /\ \E h \in held : Unsubscribe(h)
<1>1. program' = program
  BY ScriptSteps
<1>2. CASE UNCHANGED vars \/ Handler \/ Environment
  BY <1>1, <1>2
<1>3. CASE FreeCall
  <2>1. program = "listener"
    BY <1>3 DEF FreeCall
  <2>2. CASE turns = 0 /\ Connect
    BY <1>1, <2>2
  <2>3. CASE \E ch \in Channels : (\A h \in held : h.chan # ch) /\ Subscribe(ch)
    BY <1>1, <2>1, <2>3
  <2>4. CASE \E h \in held : Unsubscribe(h)
    BY <1>1, <2>1, <2>4
  <2> QED BY <1>3, <2>2, <2>3, <2>4 DEF FreeCall
<1>4. CASE Statement
  <2> DEFINE s == Head(script)
  <2>1. s \in Vocabulary(program)
    BY <1>4, StatementCases DEF ScriptOfProgram
  <2>2. program = "subscriber"
    BY <2>1, ListenerIsIdle DEF Listeners
  <2>3. s.call = "disconnect" => s.in = {"Connected", "Subscribed"}
    BY <2>1, <2>2, LastingCalls DEF Lasting
  <2> HIDE DEF s
  <2>4. \/ UNCHANGED vars \/ Handler \/ Environment \/ FreeCall
        \/ Connect \/ Command \/ Publish
        \/ Disconnect /\ s.call = "disconnect" /\ state \in s.in
        \/ \E ch \in Channels : Subscribe(ch)
    BY ProgramSteps DEF s
  <2>5. s.call = "disconnect" /\ state \in s.in => Subscribable
    BY <2>3 DEF Subscribable
  <2>6. ~FreeCall
    BY <2>2 DEF FreeCall
  <2> QED BY <1>1, <1>4, <2>2, <2>4, <2>5, <2>6
<1> QED BY <1>2, <1>3, <1>4, ProgramSteps

LEMMA ReachedSame ==
    ASSUME Reached, UNCHANGED connectOps, Subscribable => Subscribable',
           link' \in {"up", "dropped"} => link \in {"up", "dropped"}
    PROVE  Reached'
BY DEF Reached

LEMMA ReachedCall ==
    ASSUME TypeOK, OneAttempt, Reached,
           \/ Connect \/ Disconnect \/ Command \/ Publish
           \/ (\E ch \in Channels : Subscribe(ch)) \/ \E h \in held : Unsubscribe(h)
    PROVE  Reached'
<1>1. CASE Connect
  <2>1. CASE state \in {"Unconnected", "Closed"}
    <3>1. connectOps = <<>> /\ ~Subscribable /\ link' = IF link = "closed" THEN "open" ELSE link
      BY <1>1, <2>1 DEF Connect, OneAttempt, StartConnect, Subscribable
    <3>2. link \notin {"up", "dropped"}
      BY <3>1 DEF Reached
    <3>3. link' \notin {"up", "dropped"}
      BY <3>1, <3>2
    <3> QED BY <3>3 DEF Reached
  <2>2. CASE state \notin {"Unconnected", "Closed"}
    <3>1. UNCHANGED <<state, link, connectOps>>
      BY <1>1, <2>2 DEF Connect, linkVars
    <3> QED BY <3>1, ReachedSame DEF Subscribable
  <2> QED BY <2>1, <2>2
<1>2. CASE Disconnect
  <2>1. link' = "closed"
    BY <1>2 DEF Disconnect, Close, CloseSocket
  <2> QED BY <2>1 DEF Reached
<1>3. CASE Command \/ Publish
  <2>1. UNCHANGED <<state, link, connectOps>>
    BY <1>3, CommandAsks
  <2> QED BY <2>1, ReachedSame DEF Subscribable
<1>4. CASE \E ch \in Channels : Subscribe(ch)
  <2>1. PICK ch \in Channels : Subscribe(ch)
    BY <1>4
  <2>2. UNCHANGED <<link, connectOps>> /\ (Subscribable => Subscribable')
    BY <2>1, SubscribeAsks
  <2> QED BY <2>2, ReachedSame
<1>5. CASE \E h \in held : Unsubscribe(h)
  <2>1. UNCHANGED <<state, link, connectOps>>
    BY <1>5, UnsubscribeAsks
  <2> QED BY <2>1, ReachedSame DEF Subscribable
<1> QED BY <1>1, <1>2, <1>3, <1>4, <1>5

LEMMA OneElement ==
    ASSUME connectOps \in Seq({"pending", "ok", "error", "aborted"}), Len(connectOps) <= 1,
           NEW i \in DOMAIN connectOps
    PROVE  i = 1 /\ Len(connectOps) = 1 /\ connectOps = <<connectOps[1]>> /\ connectOps # <<>>
<1>1. DOMAIN connectOps = 1 .. Len(connectOps) /\ Len(connectOps) \in Nat
  BY LenProperties
<1>2. i \in 1 .. Len(connectOps) /\ Len(connectOps) <= 1
  BY <1>1
<1>3. i = 1 /\ Len(connectOps) = 1
  BY <1>1, <1>2
<1>4. connectOps # <<>>
  BY <1>3, EmptySeq
<1>5. connectOps = <<connectOps[1]>>
  BY <1>1, <1>3
<1> QED BY <1>3, <1>4, <1>5

LEMMA ReachedHandler ==
    ASSUME TypeOK, OneAttempt, Reached, Handler
    PROVE  Reached'
<1>1. UNCHANGED link
  BY DEF Handler, DoAsyncCommand, CallMessageHandler, AsyncWrite, HandleAsyncConnect, ConnectHandlerReturns,
      AsyncRead, ReadLoop, ReadAgain, ParseChunk, HandlerReturns, ErrorHandlerReturns, envVars, linkVars
<1>2. CASE HandleAsyncConnect
  <2>0. connectOps \in Seq({"pending", "ok", "error", "aborted"})
    BY DEF TypeOK, EnvTypeOK
  <2>1. PICK i \in DOMAIN connectOps : IF connectOps[i] = "ok" THEN state' = "Connected" ELSE TRUE
    BY <1>2 DEF HandleAsyncConnect
  <2>2. i = 1 /\ connectOps = <<connectOps[1]>> /\ connectOps # <<>>
    <3>1. Len(connectOps) <= 1
      BY DEF OneAttempt
    <3> QED BY <2>0, <3>1, OneElement
  <2>3. ~Subscribable
    BY <2>2 DEF OneAttempt, Subscribable
  <2>4. link \in {"up", "dropped"} => connectOps[1] = "ok"
    <3>1. \A x : connectOps = <<x>> => connectOps[1] = x
      OBVIOUS
    <3> QED BY <2>3, <3>1 DEF Reached
  <2> QED BY <1>1, <2>1, <2>2, <2>4 DEF Reached, Subscribable
<1>3. CASE \/ DoAsyncCommand \/ CallMessageHandler \/ AsyncWrite \/ ConnectHandlerReturns
           \/ AsyncRead \/ ReadLoop
  <2>1. UNCHANGED <<state, connectOps>>
    BY <1>3 DEF DoAsyncCommand, CallMessageHandler, AsyncWrite, ConnectHandlerReturns, AsyncRead,
        ReadLoop, ReadAgain, ParseChunk, HandlerReturns, ErrorHandlerReturns, envVars, linkVars, opVars
  <2> QED BY <1>1, <2>1, ReachedSame DEF Subscribable
<1> QED BY <1>2, <1>3 DEF Handler

LEMMA ReachedEnvironment ==
    ASSUME TypeOK, OneAttempt, Reached, Environment
    PROVE  Reached'
<1>1. UNCHANGED state
  BY DEF Environment, clientVars
<1>2. CASE ConnectDone
  <2>0. connectOps \in Seq({"pending", "ok", "error", "aborted"})
    BY DEF TypeOK, EnvTypeOK
  <2>1. PICK i \in DOMAIN connectOps :
             /\ connectOps[i] = "pending"
             /\ \/ link' = "up" /\ connectOps' = [connectOps EXCEPT ![i] = "ok"]
                \/ link' = link /\ connectOps' = [connectOps EXCEPT ![i] = "error"]
    BY <1>2 DEF ConnectDone
  <2>2. i = 1 /\ connectOps = <<connectOps[1]>> /\ connectOps # <<>>
    <3>1. Len(connectOps) <= 1
      BY DEF OneAttempt
    <3> QED BY <2>0, <3>1, OneElement
  <2>3. link \notin {"up", "dropped"}
    <3>1. ~Subscribable
      BY <2>2 DEF OneAttempt, Subscribable
    <3>2. connectOps # <<"ok">>
      BY <2>1, <2>2
    <3> QED BY <3>1, <3>2 DEF Reached
  <2>4. connectOps' = [connectOps EXCEPT ![i] = "ok"] => connectOps' = <<"ok">>
    BY <2>2
  <2> QED BY <2>1, <2>3, <2>4 DEF Reached
<1>3. CASE LinkDrops
  <2>1. UNCHANGED connectOps /\ link = "up"
    BY <1>3 DEF LinkDrops, opVars
  <2> QED BY <1>1, <2>1, ReachedSame DEF Subscribable
<1>4. CASE \/ WriteSome \/ WriteFails \/ ReadSome \/ ReadFails \/ ServerReply
           \/ \E ch \in Channels : ServerPublish(ch, Audience(ch))
  <2>1. UNCHANGED <<link, connectOps>>
    BY <1>4 DEF WriteSome, WriteFails, ReadSome, ReadFails, ServerReply, ServerPublish, linkVars, opVars
  <2> QED BY <1>1, <2>1, ReachedSame DEF Subscribable
<1> QED BY <1>2, <1>3, <1>4 DEF Environment

\* How the programs that subscribe connect.
SteadyInv == program \in Listeners => OneAttempt /\ Reached

LEMMA SteadyKept ==
    ASSUME TypeOK, ProgTypeOK, ScriptOfProgram, SteadyInv, [ProgNext]_progVars
    PROVE  SteadyInv'
<1>1. program' = program
  BY ScriptSteps
<1> SUFFICES ASSUME program \in Listeners, OneAttempt, Reached PROVE OneAttempt' /\ Reached'
  BY <1>1 DEF SteadyInv
<1>2. CASE UNCHANGED vars
  <2>1. UNCHANGED <<state, link, connectOps>>
    BY <1>2 DEF vars, clientVars, envVars, linkVars, opVars
  <2> QED BY <2>1, OneAttemptSame, ReachedSame DEF Subscribable
<1>3. CASE Handler
  BY <1>3, OneAttemptHandler, ReachedHandler
<1>4. CASE Environment
  BY <1>4, OneAttemptEnvironment, ReachedEnvironment
<1>5. CASE \/ Connect \/ Command \/ Publish \/ (Disconnect /\ Subscribable)
           \/ \E ch \in Channels : Subscribe(ch)
  BY <1>5, OneAttemptCall, ReachedCall
<1>6. CASE \E h \in held : Unsubscribe(h)
  <2>1. UNCHANGED <<state, link, connectOps>>
    BY <1>6, UnsubscribeAsks
  <2> QED BY <2>1, OneAttemptSame, ReachedSame DEF Subscribable
<1> QED BY <1>2, <1>3, <1>4, <1>5, <1>6, ListenersSteps

LEMMA SteadyInit ==
    ASSUME ProgInit PROVE SteadyInv
<1>1. state = "Unconnected" /\ connectOps = <<>> /\ link = "closed"
  BY DEF ProgInit, Init, EnvInit
<1> QED BY <1>1 DEF SteadyInv, OneAttempt, ConnectedImpliesOpen, Reached

\* A handler takes no client out of the states in which it may subscribe.
LEMMA HandlerStays ==
    ASSUME OneAttempt, Handler, Subscribable
    PROVE  Subscribable' /\ ~HandleAsyncConnect
<1>1. ~HandleAsyncConnect
  <2>1. connectOps = <<>>
    BY DEF OneAttempt, Subscribable
  <2> QED BY <2>1 DEF HandleAsyncConnect
<1>2. UNCHANGED state
  BY <1>1 DEF Handler, DoAsyncCommand, CallMessageHandler, AsyncWrite, ConnectHandlerReturns, AsyncRead,
        ReadLoop, ReadAgain, ParseChunk, HandlerReturns, ErrorHandlerReturns
<1> QED BY <1>1, <1>2 DEF Subscribable

\* No link comes up but that of an attempt to connect.
LEMMA LinkComesUp ==
    ASSUME OneAttempt, Environment, Subscribable
    PROVE  Subscribable' /\ ~ConnectDone /\ (link' = "up" => link = "up")
<1>1. UNCHANGED state
  BY DEF Environment, clientVars
<1>2. ~ConnectDone
  <2>1. connectOps = <<>>
    BY DEF OneAttempt, Subscribable
  <2> QED BY <2>1 DEF ConnectDone
<1>3. link' \in {link, "dropped"}
  BY <1>2 DEF Environment, WriteSome, WriteFails, ReadSome, ReadFails, ServerReply, LinkDrops, ServerPublish, linkVars
<1> QED BY <1>1, <1>2, <1>3 DEF Subscribable

\* The subscriber: what it listens to it has asked for, on the link that is up.
AskedFor ==
    /\ ~Subscribable => msgHandlers = {}
    /\ link = "up" => \A ch \in Listened : WillServe(ch)

LEMMA AskedForMoves ==
    ASSUME TypeOK, PairTyped, OnlyWanted, AskedFor, Moved, msgHandlers' = msgHandlers,
           link' = "up" => link = "up" \/ ~Subscribable, Subscribable => Subscribable'
    PROVE  AskedFor'
<1>1. Listened' = Listened
  BY DEF Listened
<1>2. \A r \in Underway : r.kind # "unsubscribe"
  BY DEF OnlyWanted
<1>3. ASSUME link' = "up", NEW ch \in Listened PROVE WillServe(ch)'
  <2>1. Subscribable
    BY DEF AskedFor, Listened
  <2>2. WillServe(ch)
    BY <1>3, <2>1 DEF AskedFor
  <2> QED BY <1>2, <1>3, <2>2, MovedServes
<1> QED BY <1>1, <1>3 DEF AskedFor

LEMMA AskedForAsks ==
    ASSUME TypeOK, AskedFor, NEW r, Asks(r), Subscribable => Subscribable',
           msgHandlers' # msgHandlers => Subscribable',
           \A ch \in Listened' : ch \in Listened \/ (r.kind = "subscribe" /\ r.chan = ch)
    PROVE  AskedFor'
<1>1. link' = link
  BY DEF Asks
<1>2. ASSUME link' = "up", NEW ch \in Listened' PROVE WillServe(ch)'
  BY <1>1, <1>2, AsksServes DEF AskedFor
<1> QED BY <1>2 DEF AskedFor

LEMMA AskedForKept ==
    ASSUME TypesOfAll, WrittenOut, ScriptOfProgram, program = "subscriber", OneAttempt, OnlyWanted, AskedFor,
           [ProgNext]_progVars
    PROVE  AskedFor'
<1>0. TypeOK /\ TypeOK' /\ PairTyped /\ PairTyped' /\ SingleWriter /\ ProgTypeOK
  BY DEF TypesOfAll
<1>2. CASE UNCHANGED vars
  <2>1. UNCHANGED <<toServer, writeOps, dataQueued, strand, subs>> /\ UNCHANGED <<msgHandlers, link, state>>
    BY <1>2 DEF vars, clientVars, queueVars, pubsubVars, envVars, linkVars, opVars
  <2> QED BY <1>0, <2>1, MovedNot, AskedForMoves DEF Subscribable
<1>3. CASE Handler
  <2>1. Moved /\ UNCHANGED <<msgHandlers, held, link>>
    BY <1>0, <1>3, HandlerMoves
  <2> QED BY <1>0, <1>3, <2>1, HandlerStays, AskedForMoves
<1>4. CASE Environment
  <2>1. Moved /\ UNCHANGED <<msgHandlers, held, state>>
    BY <1>0, <1>4, EnvironmentMoves
  <2> QED BY <1>0, <1>4, <2>1, LinkComesUp, AskedForMoves
<1>5. CASE Connect
  <2>1. Moved /\ UNCHANGED msgHandlers
    BY <1>0, <1>5, ConnectMoves
  <2>2. (link' = "up" => link = "up") /\ (Subscribable => Subscribable')
    BY <1>5 DEF Connect, StartConnect, linkVars, Subscribable
  <2> QED BY <1>0, <2>1, <2>2, AskedForMoves
<1>6. CASE Disconnect
  <2>1. msgHandlers' = {} /\ link' = "closed"
    BY <1>0, <1>6, DisconnectMoves
  <2> QED BY <2>1 DEF AskedFor
<1>7. CASE Command \/ Publish
  <2>1. UNCHANGED <<link, state, msgHandlers>> /\ (Moved \/ \E r : r.kind = "command" /\ Asks(r))
    BY <1>0, <1>7, CommandAsks
  <2>2. Listened' = Listened /\ (Subscribable => Subscribable')
    BY <2>1 DEF Listened, Subscribable
  <2> QED BY <1>0, <2>1, <2>2, AskedForMoves, AskedForAsks
<1>8. CASE \E ch \in Channels : Subscribe(ch)
  <2>1. PICK ch \in Channels : Subscribe(ch)
    BY <1>8
  <2>2. CASE /\ Subscribable /\ Subscribable'
             /\ \E h \in Handle : h.chan = ch /\ msgHandlers' = msgHandlers \cup {h}
             /\ \E r : r.kind = "subscribe" /\ r.chan = ch /\ Asks(r)
    <3>1. Listened' \subseteq Listened \cup {ch}
      BY <2>2 DEF Listened
    <3> QED BY <1>0, <2>2, <3>1, AskedForAsks
  <2>3. CASE ~Subscribable /\ Moved /\ UNCHANGED <<state, msgHandlers>>
    BY <1>0, <2>3, AskedForMoves
  <2> QED BY <1>0, <2>1, <2>2, <2>3, SubscribeAsks
<1>9. program \in Listeners
  BY DEF Listeners
<1> QED BY <1>0, <1>2, <1>3, <1>4, <1>5, <1>6, <1>7, <1>8, <1>9, ListenersSteps

\* The subscriber listens to both of its channels, or is on the way to do so.
Subscribes(s, ch) == \E x \in Range(s) : x.call = "subscribe" /\ x.arg = ch
WillListen == Subscribable => \A ch \in {Topic, Pattern} : ch \in Listened \/ Subscribes(script, ch)

LEMMA CallsStay ==
    ASSUME AppCall, Subscribable'
    PROVE  Subscribable
<1>1. state' = state \/ state' \in {"Connecting", "Closed"} \/ Subscribable
  BY DEF AppCall, Connect, Disconnect, Close, Command, Publish, Request1, Subscribe, SingleShotSubscribe, Unsubscribe
<1> QED BY <1>1 DEF Subscribable

\* Nothing it listens to is forgotten but with the connection.
LEMMA ListenedKept ==
    ASSUME TypesOfAll, WrittenOut, ScriptOfProgram, program = "subscriber", [ProgNext]_progVars, Subscribable'
    PROVE  Listened \subseteq Listened'
<1>0. TypeOK /\ TypeOK' /\ PairTyped /\ PairTyped' /\ SingleWriter /\ ProgTypeOK /\ program \in Listeners
  BY DEF TypesOfAll, Listeners
<1>1. CASE UNCHANGED msgHandlers
  BY <1>1 DEF Listened
<1>2. UNCHANGED vars \/ Handler \/ Environment \/ Connect \/ Command \/ Publish => UNCHANGED msgHandlers
  <2>1. UNCHANGED vars => UNCHANGED msgHandlers
    BY DEF vars, clientVars, pubsubVars
  <2> QED BY <1>0, <2>1, HandlerMoves, EnvironmentMoves, ConnectMoves, CommandAsks
<1>3. ~Disconnect
  BY <1>0, DisconnectMoves
<1>4. CASE \E ch \in Channels : Subscribe(ch)
  <2>1. PICK ch \in Channels : Subscribe(ch)
    BY <1>4
  <2>2. msgHandlers \subseteq msgHandlers'
    BY <1>0, <2>1, SubscribeAsks
  <2> QED BY <2>2 DEF Listened
<1> QED BY <1>0, <1>1, <1>2, <1>3, <1>4, ListenersSteps

\* The calls of a function called back are put before those there were.
LEMMA AfterKeeps ==
    ASSUME NEW p \in Programs, NEW f, NEW left \in Seq(Instruction), NEW s \in After(p, f, left)
    PROVE  Range(left) \subseteq Range(s)
BY RangeAfter

LEMMA AfterConnected ==
    ASSUME NEW p \in Programs, p = "subscriber", NEW s \in After(p, "connected", <<>>)
    PROVE  Subscribes(s, Topic) /\ Subscribes(s, Pattern)
<1>0. <<>> \in Seq(Instruction) /\ "connected" \in DOMAIN Subscriber
  BY EmptySeq DEF Subscriber
<1>1. Program[p] = Subscriber
  BY Tables
<1>2. PICK body \in Program[p]["connected"] : s = body
  <2>1. PICK body \in Program[p]["connected"] : s = body \o <<>>
    BY <1>0, <1>1 DEF After
  <2>2. body \in Seq(Instruction)
    BY <1>0, <1>1, BodiesTyped
  <2> QED BY <2>1, <2>2, ConcatEmptySeq
<1>3. body = <<Do("subscribe", Topic), Do("subscribe", Pattern)>>
  BY <1>0, <1>1, SubscriberTable
<1>4. Do("subscribe", Topic) \in Range(s) /\ Do("subscribe", Pattern) \in Range(s)
  BY <1>2, <1>3, BodyOfOne
<1>5. \A ch : Do("subscribe", ch).call = "subscribe" /\ Do("subscribe", ch).arg = ch
  BY DEF Do, If
<1> QED BY <1>4, <1>5 DEF Subscribes

LEMMA WillListenStatement ==
    ASSUME TypesOfAll, WrittenOut, ScriptOfProgram, program = "subscriber", [ProgNext]_progVars,
           WillListen, Statement
    PROVE  WillListen'
<1>0. TypeOK /\ TypeOK' /\ PairTyped /\ PairTyped' /\ SingleWriter /\ ProgTypeOK
  BY DEF TypesOfAll
<1> SUFFICES ASSUME Subscribable', NEW ch \in {Topic, Pattern} PROVE ch \in Listened' \/ Subscribes(script', ch)
  BY DEF WillListen
<1> DEFINE s == Head(script)
           left == Tail(script)
<1>1. /\ script # <<>> /\ left \in Seq(Instruction) /\ program \in Programs
      /\ s \in Vocabulary("subscriber") /\ Range(script) = {s} \cup Range(left)
  <2>1. script # <<>> /\ script \in Seq(Instruction) /\ left \in Seq(Instruction) /\ s \in Range(script)
    BY <1>0, StatementCases DEF ProgTypeOK
  <2> QED BY <1>0, <2>1, RangeTail DEF ScriptOfProgram, ProgTypeOK
<1>2. \/ CallIs(s, "disconnect", None, {"Connected", "Subscribed"}) \/ CallIs(s, "connect", None, State)
      \/ CallIs(s, "subscribe", Topic, State) \/ CallIs(s, "subscribe", Pattern, State)
      \/ CallIs(s, "wait", "connectTimer", State)
  BY <1>1, SubscriberCalls
<1>3. s.call # "exit" /\ (s.call = "subscribe" => s.in = State)
  BY <1>2 DEF CallIs
<1>4. Subscribable
  <2>1. UNCHANGED vars => UNCHANGED state
    BY DEF vars, clientVars
  <2> QED BY <2>1, StatementIsCall, CallsStay DEF Subscribable
<1>5. Range(left) \subseteq Range(script')
  <2>1. script' = left \/ \E f : script' \in After(program, f, left)
    <3> HIDE DEF s, left
    <3>1. \/ PassOver(left) \/ CallConnect(left) \/ CallDisconnect(s.arg, left)
          \/ CallRequest(Command, state = "Connected", s.arg, left)
          \/ CallRequest(Publish, state = "Connected", None, left)
          \/ \E c \in Channels : CallRequest(Subscribe(c), Subscribable, None, left)
          \/ WaitOrCancel(s.arg, TRUE, left) \/ WaitOrCancel(s.arg, FALSE, left)
      BY <1>0, <1>3, StatementCases DEF s, left
    <3> QED BY <3>1, CallBackIs DEF PassOver, CallConnect, CallDisconnect, CallRequest, WaitOrCancel
  <2> HIDE DEF left
  <2> QED BY <1>1, <2>1, AfterKeeps
<1>6. s.call = "subscribe" => s.arg \in Listened'
  <2> SUFFICES ASSUME s.call = "subscribe" PROVE s.arg \in Listened'
    OBVIOUS
  <2>1. state \in s.in
    BY <1>0, <1>3 DEF TypeOK
  <2>2. PICK c \in Channels : s.arg = c /\ CallRequest(Subscribe(c), Subscribable, None, left)
    BY <2>1, SubscribeStatement
  <2>3. Subscribe(c)
    BY <2>2 DEF CallRequest
  <2>4. \E h \in Handle : h.chan = c /\ msgHandlers' = msgHandlers \cup {h}
    BY <1>0, <1>4, <2>3, SubscribeAsks
  <2> QED BY <2>2, <2>4 DEF Listened
<1> HIDE DEF s, left
<1>7. CASE ch \in Listened
  BY <1>0, <1>7, ListenedKept
<1>8. CASE Subscribes(script, ch)
  BY <1>1, <1>5, <1>6, <1>8 DEF Subscribes
<1> QED BY <1>4, <1>7, <1>8 DEF WillListen

LEMMA WillListenKept ==
    ASSUME TypesOfAll, OrderInv, WrittenOut, ScriptOfProgram, program = "subscriber", [ProgNext]_progVars, WillListen
    PROVE  WillListen'
<1>0. TypeOK /\ ProgTypeOK /\ program \in Programs
  BY DEF TypesOfAll, ProgTypeOK
<1>1. CASE Statement
  BY <1>1, WillListenStatement
<1>2. CASE UNCHANGED <<state, script>>
  <2>1. Subscribable' => Listened \subseteq Listened'
    BY ListenedKept
  <2> QED BY <1>2, <2>1 DEF WillListen, Subscribable
<1>3. CASE UNCHANGED state /\ script = <<>>
  <2>1. Subscribable' => Listened \subseteq Listened'
    BY ListenedKept
  <2>2. \A ch : ~Subscribes(script, ch)
    BY <1>3, NoRange DEF Subscribes
  <2> QED BY <1>3, <2>1, <2>2 DEF WillListen, Subscribable
<1>4. CASE HandlerRuns
  <2>1. script = <<>>
    BY <1>4, HandlerCalls
  <2>2. \/ UNCHANGED state
        \/ \E o \in {"ok", "error", "aborted"} :
              /\ state' = IF o = "ok" THEN "Connected" ELSE "Unconnected"
              /\ script' \in After(program, Outcome[o], <<>>)
    BY <1>0, <1>4, HandlerSummary
  <2>3. ASSUME NEW o \in {"ok", "error", "aborted"},
               state' = IF o = "ok" THEN "Connected" ELSE "Unconnected",
               script' \in After(program, Outcome[o], <<>>)
        PROVE  WillListen'
    <3>1. CASE o = "ok"
      <4>1. script' \in After(program, "connected", <<>>)
        BY <2>3, <3>1 DEF Outcome
      <4>2. Subscribes(script', Topic) /\ Subscribes(script', Pattern)
        BY <1>0, <4>1, AfterConnected
      <4> QED BY <4>2 DEF WillListen
    <3>2. CASE o # "ok"
      BY <2>3, <3>2 DEF WillListen, Subscribable
    <3> QED BY <3>1, <3>2
  <2> QED BY <1>3, <2>1, <2>2, <2>3
<1>5. CASE FreeCall
  BY <1>5 DEF FreeCall
<1>6. CASE \E t \in Timers : Expire(t) \/ OnTimer(t)
  <2>1. UNCHANGED state /\ (script' = script \/ script = <<>>)
    BY <1>6 DEF Expire, OnTimer, AtRest, vars, clientVars
  <2> QED BY <1>2, <1>3, <2>1
<1>7. CASE (Environment /\ UNCHANGED programVars) \/ UNCHANGED progVars
  <2>1. UNCHANGED <<state, script>>
    BY <1>7 DEF Environment, progVars, programVars, vars, clientVars
  <2> QED BY <1>2, <2>1
<1> QED BY <1>1, <1>4, <1>5, <1>6, <1>7 DEF ProgNext

\* The listener, which subscribes and unsubscribes as it likes.  Before it is connected nothing is
\* under way; it holds one handle on a channel; and as long as the link is up the requests under way
\* lead from what the server is subscribed to, to what the program listens to.
Fresh == /\ strand = <<>> /\ dataQueued = <<>> /\ writeOps = <<>> /\ toServer = <<>>
         /\ subs = {} /\ msgHandlers = {}
OneHandle == msgHandlers \subseteq held /\ \A g, h \in held : g.chan = h.chan => g = h

ComesAndGoes ==
    /\ ~Subscribable => Fresh
    /\ OneHandle
    /\ Subscribable /\ link = "up" => LeadTo(Listened)

LEMMA NothingAwaited == strand = <<>> => Awaiting = <<>>
<1> SUFFICES ASSUME strand = <<>> PROVE Awaiting = <<>>
  OBVIOUS
<1>1. Len(RequestsOf(<<>>)) = 0 /\ RequestsOf(<<>>) \in Seq(Request)
  <2>1. <<>> \in Seq(Job) /\ Len(<<>>) = 0
    BY EmptySeq
  <2> QED BY <2>1, RequestsType
<1> QED BY <1>1, EmptySeq DEF Awaiting

LEMMA NothingSent == toServer = <<>> /\ Left = <<>> /\ dataQueued = <<>> => Sent = <<>>
<1>1. <<>> \in Seq(Request)
  BY EmptySeq
<1>2. <<>> \o <<>> = <<>>
  BY <1>1, ConcatEmptySeq
<1> QED BY <1>2 DEF Sent

LEMMA FreshLeads ==
    ASSUME Fresh
    PROVE  Listened = {} /\ LeadTo({})
<1>1. Sent = <<>> /\ Awaiting = <<>> /\ subs = {}
  BY NothingAwaited, NothingSent DEF Fresh, Left
<1>2. Leads(<<>>, {}, {})
  BY LeadsNowhere
<1>3. Listened = {}
  BY DEF Fresh, Listened
<1> QED BY <1>1, <1>2, <1>3 DEF LeadTo

LEMMA FreshHandler ==
    ASSUME TypeOK, Fresh, ~Subscribable, Handler
    PROVE  Fresh'
<1>0. strand = <<>> /\ writeOps = <<>> /\ state # "Subscribed" /\ UNCHANGED msgHandlers
  BY DEF Fresh, Subscribable, Handler, DoAsyncCommand, CallMessageHandler, AsyncWrite, HandleAsyncConnect,
         ConnectHandlerReturns, AsyncRead, ReadLoop, ReadAgain, ParseChunk, HandlerReturns, ErrorHandlerReturns, pubsubVars
<1>1. ~DoAsyncCommand /\ ~CallMessageHandler /\ ~AsyncWrite
  BY <1>0 DEF DoAsyncCommand, CallMessageHandler, AsyncWrite
<1>2. CASE ParseChunk
  <2>1. UNCHANGED <<dataQueued, writeOps, toServer, subs>>
    BY <1>2 DEF ParseChunk, envVars, linkVars, opVars
  <2>2. UNCHANGED strand
    <3>1. PICK out \in Parse(Head(rest)) :
          /\ redisParser' = out.parser
          /\ CASE out.result = "Completed" ->
                    rest' = Remains(out.left) /\ DoProcessMessage(out.value)
               [] out.result = "Incompleted" ->
                    /\ rest' = Tail(rest)
                    /\ UNCHANGED <<frame, strand, singleShotMsgHandlers, delivered, reported>>
               [] out.result = "Error" ->
                    /\ rest' = <<>> /\ frame' = "none" /\ Report1("parser")
                    /\ UNCHANGED <<strand, singleShotMsgHandlers, delivered>>
      BY <1>2 DEF ParseChunk
    <3>2. out.result \in {"Completed", "Incompleted", "Error"}
      BY DEF Parse, OutOfStep
    <3>3. DoProcessMessage(out.value) => UNCHANGED strand
      BY <1>0 DEF DoProcessMessage, CallFront, Refuse
    <3> QED BY <3>1, <3>2, <3>3
  <2> QED BY <1>0, <2>1, <2>2 DEF Fresh
<1>3. CASE \/ HandleAsyncConnect \/ ConnectHandlerReturns \/ AsyncRead
           \/ ReadAgain \/ HandlerReturns \/ ErrorHandlerReturns
  <2>1. UNCHANGED <<toServer, writeOps, dataQueued, strand, subs>>
    BY <1>3 DEF HandleAsyncConnect, ConnectHandlerReturns, AsyncRead, ReadAgain, HandlerReturns,
        ErrorHandlerReturns, queueVars, envVars, linkVars, opVars
  <2> QED BY <1>0, <2>1 DEF Fresh
<1> QED BY <1>1, <1>2, <1>3 DEF Handler, ReadLoop

LEMMA FreshEnvironment ==
    ASSUME Fresh, Environment
    PROVE  Fresh'
<1>1. UNCHANGED <<strand, dataQueued, msgHandlers>>
  BY DEF Environment, clientVars, queueVars, pubsubVars
<1>2. ~WriteSome /\ ~WriteFails /\ ~ServerReply /\ ~(\E ch \in Channels : ServerPublish(ch, Audience(ch)))
  BY DEF Fresh, WriteSome, WriteFails, ServerReply, ServerPublish
<1>3. ConnectDone \/ ReadSome \/ ReadFails \/ LinkDrops
  BY <1>2 DEF Environment
<1>4. writeOps' = <<>> /\ toServer' = <<>> /\ subs' = {}
  BY <1>3 DEF Fresh, ConnectDone, ReadSome, ReadFails, LinkDrops, linkVars, opVars
<1> QED BY <1>1, <1>4 DEF Fresh

LEMMA LeadsOn ==
    ASSUME TypeOK, PairTyped, ComesAndGoes, Subscribable, Moved, UNCHANGED <<msgHandlers, held>>,
           Subscribable', link' = "up" => link = "up"
    PROVE  ComesAndGoes'
<1>1. Listened' = Listened /\ OneHandle'
  BY DEF Listened, ComesAndGoes, OneHandle
<1>2. ASSUME link' = "up" PROVE LeadTo(Listened)'
  <2>1. LeadTo(Listened)
    BY <1>2 DEF ComesAndGoes
  <2>2. PICK K : K = Listened
    OBVIOUS
  <2>3. LeadTo(K)
    BY <2>1, <2>2
  <2>4. LeadTo(K)'
    BY <1>2, <2>3, MovedLeads
  <2>5. LeadTo(K)' => LeadTo(Listened)'
    BY <1>1, <2>2 DEF LeadTo
  <2> QED BY <2>4, <2>5
<1> QED BY <1>1, <1>2 DEF ComesAndGoes

LEMMA LeadsFurther ==
    ASSUME TypeOK, ComesAndGoes, Subscribable, NEW r, Asks(r), Subscribable', OneHandle',
           Listened' = ToldOf(Listened, r)
    PROVE  ComesAndGoes'
<1>1. ASSUME link' = "up" PROVE LeadTo(Listened)'
  <2>1. LeadTo(Listened)
    BY <1>1 DEF ComesAndGoes, Asks
  <2>2. PICK K : K = Listened
    OBVIOUS
  <2>3. LeadTo(K)
    BY <2>1, <2>2
  <2>4. LeadTo(ToldOf(K, r))'
    BY <2>3, AsksLeads
  <2>5. Listened' = ToldOf(K, r)
    BY <2>2
  <2> QED BY <2>4, <2>5 DEF LeadTo
<1> QED BY <1>1 DEF ComesAndGoes

LEMMA FreshLeadsNext == Fresh' => (Listened = {} /\ LeadTo({}))'
BY FreshLeads, PTL

LEMMA StaysFresh ==
    ASSUME Fresh', OneHandle'
    PROVE  ComesAndGoes'
<1>1. (Listened = {} /\ LeadTo({}))'
  BY FreshLeadsNext
<1>2. LeadTo(Listened)'
  BY <1>1 DEF LeadTo
<1> QED BY <1>2 DEF ComesAndGoes

LEMMA SubscribeLeads ==
    ASSUME TypeOK, ComesAndGoes, NEW ch \in Channels, Subscribe(ch), \A h \in held : h.chan # ch
    PROVE  ComesAndGoes'
<1>1. CASE ~Subscribable
  <2>1. /\ UNCHANGED <<state, msgHandlers, strand, dataQueued, writeOps, toServer, subs>>
        /\ \E h \in Handle : h.chan = ch /\ held' = held \cup {h}
    BY <1>1, SubscribeAsks
  <2>2. OneHandle'
    BY <2>1 DEF ComesAndGoes, OneHandle
  <2>3. Fresh'
    BY <1>1, <2>1 DEF ComesAndGoes, Fresh
  <2> QED BY <2>2, <2>3, StaysFresh
<1>2. CASE Subscribable
  <2>1. /\ Subscribable'
        /\ \E h \in Handle : h.chan = ch /\ msgHandlers' = msgHandlers \cup {h} /\ held' = held \cup {h}
        /\ \E r : r.kind = "subscribe" /\ r.chan = ch /\ Asks(r)
    BY <1>2, SubscribeAsks
  <2>2. PICK h \in Handle : h.chan = ch /\ msgHandlers' = msgHandlers \cup {h} /\ held' = held \cup {h}
    BY <2>1
  <2>3. PICK r : r.kind = "subscribe" /\ r.chan = ch /\ Asks(r)
    BY <2>1
  <2>4. OneHandle'
    BY <2>2 DEF ComesAndGoes, OneHandle
  <2>5. Listened' = ToldOf(Listened, r)
    <3>1. Listened' = Listened \cup {ch}
      BY <2>2 DEF Listened
    <3> QED BY <2>3, <3>1 DEF ToldOf
  <2> QED BY <1>2, <2>1, <2>3, <2>4, <2>5, LeadsFurther
<1> QED BY <1>1, <1>2

LEMMA UnsubscribeLeads ==
    ASSUME TypeOK, ComesAndGoes, NEW h \in held, Unsubscribe(h)
    PROVE  ComesAndGoes'
<1>0. held' = held \ {h} /\ UNCHANGED state
  BY UnsubscribeAsks
<1>1. CASE ~Subscribable
  <2>1. UNCHANGED <<msgHandlers, strand, dataQueued, writeOps, toServer, subs>>
    BY <1>1, UnsubscribeAsks
  <2>2. msgHandlers = {} /\ Fresh
    BY <1>1 DEF ComesAndGoes, Fresh
  <2>3. OneHandle'
    BY <1>0, <2>1, <2>2 DEF ComesAndGoes, OneHandle
  <2>4. Fresh'
    BY <2>1, <2>2 DEF Fresh
  <2> QED BY <2>3, <2>4, StaysFresh
<1>2. CASE Subscribable
  <2>1. msgHandlers' = Remaining(h) /\ \E r : r.kind = "unsubscribe" /\ r.chan = h.chan /\ Asks(r)
    BY <1>2, UnsubscribeAsks
  <2>2. PICK r : r.kind = "unsubscribe" /\ r.chan = h.chan /\ Asks(r)
    BY <2>1
  <2>3. msgHandlers' = {m \in msgHandlers : m.chan # h.chan}
    <3>1. \A m \in msgHandlers : m.chan = h.chan => m = h
      BY DEF ComesAndGoes, OneHandle
    <3> QED BY <2>1, <3>1 DEF Remaining
  <2>4. OneHandle'
    BY <1>0, <2>3 DEF ComesAndGoes, OneHandle
  <2>5. Listened' = ToldOf(Listened, r)
    <3>1. Listened' = Listened \ {h.chan}
      BY <2>3 DEF Listened
    <3> QED BY <2>2, <3>1 DEF ToldOf
  <2>6. Subscribable'
    BY <1>0, <1>2 DEF Subscribable
  <2> QED BY <1>2, <2>2, <2>4, <2>5, <2>6, LeadsFurther
<1> QED BY <1>1, <1>2

LEMMA ComesAndGoesKept ==
    ASSUME TypesOfAll, WrittenOut, ScriptOfProgram, program = "listener", OneAttempt, ComesAndGoes,
           [ProgNext]_progVars
    PROVE  ComesAndGoes'
<1>0. TypeOK /\ TypeOK' /\ PairTyped /\ PairTyped' /\ SingleWriter /\ ProgTypeOK
  BY DEF TypesOfAll
<1>1. UNCHANGED <<msgHandlers, held>> => OneHandle'
  BY DEF ComesAndGoes, OneHandle
<1>2. ~Subscribable => Fresh
  BY DEF ComesAndGoes
<1>3. CASE UNCHANGED vars
  <2>1. /\ UNCHANGED <<toServer, writeOps, dataQueued, strand, subs>> /\ UNCHANGED <<msgHandlers, held>>
        /\ UNCHANGED <<link, state>>
    BY <1>3 DEF vars, clientVars, queueVars, pubsubVars, envVars, linkVars, opVars
  <2>2. CASE Subscribable
    BY <1>0, <2>1, <2>2, MovedNot, LeadsOn DEF Subscribable
  <2>3. CASE ~Subscribable
    <3>1. Fresh'
      BY <1>2, <2>1, <2>3 DEF Fresh
    <3> QED BY <1>1, <2>1, <3>1, StaysFresh
  <2> QED BY <2>2, <2>3
<1>4. CASE Handler
  <2>1. Moved /\ UNCHANGED <<msgHandlers, held, link>>
    BY <1>0, <1>4, HandlerMoves
  <2>2. CASE Subscribable
    BY <1>0, <1>4, <2>1, <2>2, HandlerStays, LeadsOn
  <2>3. CASE ~Subscribable
    BY <1>0, <1>1, <1>2, <1>4, <2>1, <2>3, FreshHandler, StaysFresh
  <2> QED BY <2>2, <2>3
<1>5. CASE Environment
  <2>1. Moved /\ UNCHANGED <<msgHandlers, held, state>>
    BY <1>0, <1>5, EnvironmentMoves
  <2>2. CASE Subscribable
    BY <1>0, <1>5, <2>1, <2>2, LinkComesUp, LeadsOn
  <2>3. CASE ~Subscribable
    BY <1>1, <1>2, <1>5, <2>1, <2>3, FreshEnvironment, StaysFresh
  <2> QED BY <2>2, <2>3
<1>6. CASE Connect
  <2>1. /\ Moved /\ UNCHANGED <<msgHandlers, held>>
        /\ UNCHANGED <<strand, dataQueued, writeOps, toServer, subs>>
    BY <1>0, <1>6, ConnectMoves
  <2>2. CASE Subscribable
    <3>1. (link' = "up" => link = "up") /\ Subscribable'
      BY <1>6, <2>2 DEF Connect, linkVars, Subscribable
    <3> QED BY <1>0, <2>1, <2>2, <3>1, LeadsOn
  <2>3. CASE ~Subscribable
    <3>1. Fresh'
      BY <1>2, <2>1, <2>3 DEF Fresh
    <3> QED BY <1>1, <2>1, <3>1, StaysFresh
  <2> QED BY <2>2, <2>3
<1>7. CASE \E ch \in Channels : Subscribe(ch) /\ \A h \in held : h.chan # ch
  BY <1>0, <1>7, SubscribeLeads
<1>8. CASE \E h \in held : Unsubscribe(h)
  BY <1>0, <1>8, UnsubscribeLeads
<1>9. program \in Listeners /\ program # "subscriber"
  BY DEF Listeners
<1> QED BY <1>0, <1>3, <1>4, <1>5, <1>6, <1>7, <1>8, <1>9, ListenersSteps

\* What each program and the requests under way have to do with what the server serves.
FedInv ==
    /\ SteadyInv
    /\ program # "listener" => OnlyWanted
    /\ program = "subscriber" => AskedFor /\ WillListen
    /\ program = "listener" => ComesAndGoes

LEMMA FedInit ==
    ASSUME ProgInit PROVE FedInv
<1>1. /\ state = "Unconnected" /\ msgHandlers = {} /\ held = {} /\ subs = {}
      /\ strand = <<>> /\ dataQueued = <<>> /\ writeOps = <<>> /\ toServer = <<>>
  BY DEF ProgInit, Init, EnvInit
<1>2. ~Subscribable /\ Listened = {} /\ Fresh
  BY <1>1 DEF Subscribable, Listened, Fresh
<1>3. Underway = {}
  <2>1. Sent = <<>> /\ Awaiting = <<>>
    BY <1>1, NothingSent, NothingAwaited DEF Left
  <2> QED BY <2>1, NoRange DEF Underway
<1>4. OnlyWanted
  BY <1>1, <1>2, <1>3 DEF OnlyWanted
<1>5. AskedFor /\ WillListen
  BY <1>1, <1>2 DEF AskedFor, WillListen
<1>6. ComesAndGoes
  BY <1>1, <1>2 DEF ComesAndGoes, OneHandle
<1> QED BY <1>4, <1>5, <1>6, SteadyInit DEF FedInv

LEMMA FedKept ==
    ASSUME TypesOfAll, OrderInv, ScriptOfProgram, FedInv, [ProgNext]_progVars
    PROVE  FedInv'
<1>1. WrittenOut /\ TypeOK /\ ProgTypeOK
  BY DEF OrderInv, TypesOfAll
<1>2. program' = program
  BY <1>1, ScriptSteps
<1>3. SteadyInv /\ (program \in {"subscriber", "listener"} => OneAttempt)
  BY DEF FedInv, SteadyInv, Listeners
<1>4. SteadyInv'
  BY <1>1, <1>3, SteadyKept
<1>5. program # "listener" => OnlyWanted'
  BY <1>1, OnlyWantedKept DEF FedInv
<1>6. program = "subscriber" => AskedFor'
  BY <1>1, <1>3, AskedForKept DEF FedInv
<1>7. program = "subscriber" => WillListen'
  BY <1>1, WillListenKept DEF FedInv
<1>8. program = "listener" => ComesAndGoes'
  BY <1>1, <1>3, ComesAndGoesKept DEF FedInv
<1> QED BY <1>2, <1>4, <1>5, <1>6, <1>7, <1>8 DEF FedInv

\* Between its functions, and with nothing under way, nothing is left to tell the server.
LEMMA AllToldOf ==
    ASSUME TypeOK, SingleWriter, Quiet
    PROVE  Sent = <<>> /\ Awaiting = <<>> /\ Underway = {}
<1>1. writeOps = <<>>
  <2>1. writeOps \in Seq(WriteOp) /\ Len(writeOps) = 0
    BY DEF TypeOK, EnvTypeOK, SingleWriter, Quiet
  <2> QED BY <2>1, NoneOf
<1>2. Sent = <<>> /\ Awaiting = <<>>
  BY <1>1, NothingSent, NothingAwaited DEF Left, Quiet
<1> QED BY <1>2, NoRange DEF Underway

LEMMA FedServes ==
    ASSUME TypeOK, SingleWriter, FedInv
    PROVE  SubscribersServed
<1> SUFFICES ASSUME AtRest, connectOps = <<>>, Quiet
             PROVE  /\ \A h \in msgHandlers : h.chan \in subs
                    /\ \A ch \in subs : \E h \in msgHandlers : h.chan = ch
  BY DEF SubscribersServed, SubscriptionsFed, NoOrphanSubscription
<1>1. Sent = <<>> /\ Awaiting = <<>> /\ Underway = {} /\ script = <<>> /\ link = "up"
  BY AllToldOf DEF AtRest, Quiet
<1>2. subs \in SUBSET Channels
  BY DEF TypeOK, EnvTypeOK
<1>3. program \in {"subscriber", "listener"} => Subscribable
  <2>1. connectOps # <<"ok">>
    BY EmptySeq
  <2> QED BY <1>1, <2>1 DEF FedInv, SteadyInv, Listeners, Reached
<1>4. subs = Listened
  <2>1. CASE program = "listener"
    <3>1. LeadTo(Listened)
      BY <1>1, <1>3, <2>1 DEF FedInv, ComesAndGoes
    <3>2. PICK M : Leads(Sent, subs, M) /\ Leads(Awaiting, M, Listened)
      BY <3>1 DEF LeadTo
    <3>3. M = subs
      BY <1>1, <1>2, <3>2, LeadsNowhere
    <3>4. Leads(<<>>, subs, Listened)
      BY <1>1, <3>2, <3>3
    <3> QED BY <1>2, <3>4, LeadsNowhere
  <2>2. CASE program = "subscriber"
    <3>1. AskedFor /\ WillListen /\ OnlyWanted /\ Subscribable
      BY <1>3, <2>2 DEF FedInv
    <3>2. \A ch \in Listened : ch \in subs
      BY <1>1, <3>1 DEF AskedFor, WillServe
    <3>3. subs \subseteq {Topic, Pattern}
      BY <2>2, <3>1 DEF OnlyWanted, Wanted
    <3>4. \A ch \in {Topic, Pattern} : ch \in Listened
      BY <1>1, <3>1, NoRange DEF WillListen, Subscribes
    <3> QED BY <3>2, <3>3, <3>4
  <2>3. CASE program \notin {"listener", "subscriber"}
    <3>1. OnlyWanted /\ Wanted = {}
      BY <2>3 DEF FedInv, Wanted
    <3> QED BY <3>1 DEF OnlyWanted
  <2> QED BY <2>1, <2>2, <2>3
<1> QED BY <1>4 DEF Listened

\* A program that subscribes is served: the subscriber of async_pubsub.cpp, which subscribes anew
\* whenever it has connected (async_pubsub.cpp:104-120), and one that listens to channels and gives
\* them up again as it likes. Once everything they asked of the server is dealt with, it has them
\* subscribed to what they have handlers for and nothing else: "Handler msgHandler will be called
\* when someone publish message on channel", "Call unsubscribe to stop the subscription"
\* (redisasyncclient.h:68-69).
THEOREM SubscriptionsServed == ProgSpec => []SubscribersServed
<1> DEFINE T == TypeOK /\ PairTyped /\ SingleWriter /\ ProgTypeOK
<1>1. ProgInit => FedInv
  BY FedInit
<1>2. T /\ T' /\ OrderInv /\ ScriptOfProgram /\ FedInv /\ [ProgNext]_progVars => FedInv'
  BY FedKept DEF TypesOfAll
<1>3. ProgSpec => []T
  <2>1. TypeOK => PairTyped
    BY PairTypes
  <2> QED BY <2>1, ProgramsAreApplications, TypeCorrect, OneWriter, ProgramsTyped, PTL
<1>4. T /\ FedInv => SubscribersServed
  BY FedServes
<1> QED BY <1>1, <1>2, <1>3, <1>4, ScriptsKept, ProgramsAreApplications, OrderKept, PTL DEF ProgSpec
=============================================================================
