----------------------------- MODULE SyncClient -----------------------------
(***************************************************************************)
(* RedisSyncClient and Pipeline: connect, disconnect, command and finish,  *)
(* with the loops of doSyncCommand and syncReadResponse underneath, the    *)
(* plain socket calls they make and the server at the other end.           *)
(*                                                                         *)
(* A call blocks: one step is one turn of one of its loops, and between    *)
(* the turns only the network moves.  A request is known by its number;    *)
(* a reply by the number of its request, and it arrives whole or in two    *)
(* pieces.                                                                 *)
(***************************************************************************)
EXTENDS Integers, SequencesExt

CONSTANTS
    Discipline,   \* what the application does after a failure: "discard" the client,
                  \* "reconnect" it, or "any"
    Transport,    \* "tcp" or "local": which overload of connect it calls
    Throws,       \* does the installed errorHandler throw (the default one does)?
    MaxCalls,     \* bound: requests made in a behaviour
    MaxTurns,     \* bound: calls of connect and disconnect, and clients discarded
    MaxPipeline,  \* bound: requests in a pipeline
    MaxExtra      \* bound: values that a piece read out of step is good for besides one

ASSUME SyncAssumption ==
    /\ Discipline \in {"discard", "reconnect", "any"} /\ Transport \in {"tcp", "local"}
    /\ Throws \in BOOLEAN /\ MaxCalls \in Nat /\ MaxTurns \in Nat /\ MaxPipeline \in Nat
    /\ MaxExtra \in Nat

VARIABLES
    state,        \* RedisClientImpl::state
    redisParser,  \* Nil between replies; else the reply it is inside of
    buf,          \* what was read and not parsed (buf and bufSize)
    link,         \* the socket: closed, open (not connected), up, dropped by the peer
    toServer,     \* requests sent and not answered
    toClient,     \* pieces of replies on their way
    loop,         \* the loop that the call in progress is in, or "none"
    toWrite,      \* requests that the call has still to send
    toRead,       \* requests whose replies it has still to read
    responses,    \* the replies it has read
    ec,           \* the application's error_code: is it set?
    failed,       \* has a call failed since the client was last set up?
    issued, turns,  \* history: requests made; turns taken
    answers,      \* history: each request with the reply read for it
    returned      \* history: what calls returned, with the requests they were for

linkVars    == <<link, toServer, toClient>>
callVars    == <<loop, toWrite, toRead, responses>>
historyVars == <<issued, turns, answers, returned>>
vars == <<state, redisParser, buf, linkVars, callVars, ec, failed, historyVars>>

Nil     == 0
Garbage == -1   \* a value or the inside of a value that no request asked for
Reply   == Nat \cup {Garbage}
Unit    == [reply : Reply, part : {"whole", "first", "second", "rest"}]
Sent    == [id : Nat, cut : BOOLEAN]   \* cut: only the beginning of the request was sent

\* Every variable keeps its type, and a call that is over has nothing left to read.
TypeOK ==
    /\ state \in {"Unconnected", "Connected", "Closed"}
    /\ redisParser \in Reply /\ buf \in Seq(Unit)
    /\ link \in {"closed", "open", "up", "dropped"}
    /\ toServer \in Seq(Sent) /\ toClient \in Seq(Unit)
    /\ loop \in {"none", "write", "read"}
    /\ toWrite \in Seq(Nat) /\ toRead \in Seq(Nat) /\ responses \in Seq(Reply)
    /\ loop = "none" <=> toRead = <<>>
    /\ ec \in BOOLEAN /\ failed \in BOOLEAN /\ issued \in Nat /\ turns \in Nat
    /\ answers \in Seq([request : Nat, reply : Reply])
    /\ returned \in Seq([requests : Seq(Nat), replies : Seq(Reply)])

Init ==
    /\ state = "Unconnected" /\ redisParser = Nil /\ buf = <<>>
    /\ link = "closed" /\ toServer = <<>> /\ toClient = <<>>
    /\ loop = "none" /\ toWrite = <<>> /\ toRead = <<>> /\ responses = <<>>
    /\ ec = FALSE /\ failed = FALSE /\ issued = 0 /\ turns = 0
    /\ answers = <<>> /\ returned = <<>>

-----------------------------------------------------------------------------
(* connect and disconnect.                                                 *)

Turn == loop = "none" /\ turns < MaxTurns /\ turns' = turns + 1

\* After a failure the application discards the client, or disconnects it, or does
\* as it likes; otherwise it connects a client that has no socket.
MayGoOn      == Discipline = "any" \/ ~failed
MayConnect   == Discipline = "any" \/ (~failed /\ link = "closed")
MayDisconnect == Discipline \in {"any", "reconnect"}

CloseKeepsState ==
    /\ link' = "closed" /\ toServer' = <<>> /\ toClient' = <<>> /\ UNCHANGED state

\* The socket is closed; buf, bufSize and the parser keep what they have.
Close ==
    /\ link' = "closed" /\ toServer' = <<>> /\ toClient' = <<>> /\ state' = "Closed"

Disconnect ==
    /\ Turn /\ MayDisconnect /\ Close /\ failed' = FALSE
    /\ UNCHANGED <<redisParser, buf, callVars, ec, issued, answers, returned>>

\* The client is destroyed and another one made.
Discard ==
    /\ Turn /\ (link # "closed" \/ failed)
    /\ link' = "closed" /\ toServer' = <<>> /\ toClient' = <<>>
    /\ state' = "Unconnected" /\ redisParser' = Nil /\ buf' = <<>> /\ failed' = FALSE
    /\ UNCHANGED <<callVars, ec, issued, answers, returned>>

\* socket.open refuses a socket that is open already.  Over TCP the code goes on to
\* ::connect, with ec set; it may succeed then, but connect reports the error and
\* state stays as it was.
Refused == link # "closed"

ConnectSucceeds ==
    /\ link = "closed" \/ (Transport = "tcp" /\ link \in {"open", "dropped"})
    /\ link' = "up" /\ toServer' = <<>> /\ toClient' = <<>>
    /\ ec' = Refused /\ failed' = (failed \/ Refused)
    /\ state' = IF Refused THEN state ELSE "Connected"

ConnectFails ==
    /\ link' = IF link = "closed" THEN "open" ELSE link
    /\ ec' = TRUE /\ failed' = TRUE
    /\ UNCHANGED <<state, toServer, toClient>>

Connect ==
    /\ Turn /\ MayConnect
    /\ ConnectSucceeds \/ ConnectFails
    /\ UNCHANGED <<redisParser, buf, callVars, issued, answers, returned>>

-----------------------------------------------------------------------------
(* command and Pipeline::finish.                                           *)

CallReturns(replies) ==
    returned' = Append(returned, [requests |-> [i \in DOMAIN replies |-> issued - Len(replies) + i],
                                  replies  |-> replies])

\* The call ends without a value: by an error_code, or by an exception.
CallFails(error) ==
    /\ loop' = "none" /\ toWrite' = <<>> /\ toRead' = <<>> /\ responses' = <<>>
    /\ ec' = error /\ failed' = TRUE
    /\ UNCHANGED <<returned>>

\* The requests of a command (one) or of a pipeline.  The error_code is the
\* application's and is not cleared: an old error may still be in it.
Call(n) ==
    LET requests == [i \in 1 .. n |-> issued + i]
    IN  /\ loop = "none" /\ MayGoOn /\ state = "Connected" /\ issued + n <= MaxCalls
        /\ loop' = "write" /\ toWrite' = requests /\ toRead' = requests /\ responses' = <<>>
        /\ issued' = issued + n
        /\ ec' \in {FALSE} \cup (IF Discipline = "any" THEN {ec} ELSE {})
        /\ UNCHANGED <<state, redisParser, buf, linkVars, failed, turns, answers, returned>>

\* stateValid: an exception, or a Nil that no error_code tells from an answer.
CallRefused ==
    /\ loop = "none" /\ MayGoOn /\ state # "Connected" /\ issued < MaxCalls
    /\ Discipline = "any" /\ ~Throws
    /\ issued' = issued + 1
    /\ returned' = Append(returned, [requests |-> <<issued'>>, replies |-> <<Nil>>])
    /\ UNCHANGED <<state, redisParser, buf, linkVars, callVars, ec, failed, turns, answers>>

\* socketWrite, one buffer for each request.  A peer that is gone takes the bytes once
\* more before it refuses them.
WriteRequest ==
    /\ loop = "write" /\ toWrite # <<>>
    /\ toServer' = IF link = "up" THEN Append(toServer, [id |-> Head(toWrite), cut |-> FALSE])
                                  ELSE toServer
    /\ IF ec THEN CallFails(TRUE)
             ELSE /\ toWrite' = Tail(toWrite)
                  /\ loop' = IF Tail(toWrite) = <<>> THEN "read" ELSE "write"
                  /\ UNCHANGED <<toRead, responses, ec, failed, returned>>
    /\ UNCHANGED <<state, redisParser, buf, link, toClient, issued, turns, answers>>

\* A timeout, or an error of the socket, perhaps in the middle of a request.
WriteFails ==
    /\ loop = "write" /\ toWrite # <<>>
    /\ toServer' = toServer \/ (link = "up"
                                /\ toServer' = Append(toServer, [id |-> Head(toWrite), cut |-> TRUE]))
    /\ CallFails(TRUE)
    /\ UNCHANGED <<state, redisParser, buf, link, toClient, issued, turns, answers>>

\* syncReadResponse reads only when everything read before has been parsed.
ReadSome ==
    /\ loop = "read" /\ buf = <<>>
    /\ \E n \in 1 .. Len(toClient) :
          buf' = SubSeq(toClient, 1, n) /\ toClient' = SubSeq(toClient, n + 1, Len(toClient))
    /\ UNCHANGED <<state, redisParser, link, toServer, callVars, ec, failed, historyVars>>

ReadWaits == FALSE /\ UNCHANGED vars
ReadFailsSilently ==
    /\ loop = "read" /\ buf = <<>>
    /\ loop' = "none" /\ toWrite' = <<>> /\ toRead' = <<>> /\ responses' = <<>>
    /\ UNCHANGED <<state, redisParser, buf, linkVars, ec, failed, historyVars>>

\* The timeout (the answer may be on its way), or the end of the connection: both are eof.
ReadFails ==
    /\ loop = "read" /\ buf = <<>>
    /\ CallFails(TRUE)
    /\ UNCHANGED <<state, redisParser, buf, linkVars, issued, turns, answers>>

\* What is left of a piece that was read out of step, good for n values at most.
Leftover(n) == [reply |-> n, part |-> "rest"]
Spare(unit) == IF unit.part = "rest" THEN unit.reply - 1 ELSE MaxExtra
MayLeave(unit) == {0} \cup (IF Spare(unit) > 0 THEN {Spare(unit)} ELSE {})

\* The parser, as AsyncClient has it: what does not continue the reply it is inside of
\* may be taken for anything, and may not be used up by that.
Outcomes(unit) ==
    IF redisParser = Nil /\ unit.part = "first"
    THEN {[result |-> "Incompleted", value |-> Nil, parser |-> unit.reply, left |-> 0]}
    ELSE IF \/ redisParser = Nil /\ unit.part = "whole"
            \/ redisParser = unit.reply /\ unit.part = "second"
    THEN {[result |-> "Completed", value |-> unit.reply, parser |-> Nil, left |-> 0]}
    ELSE    {[result |-> "Incompleted", value |-> Nil, parser |-> Garbage, left |-> 0]}
       \cup [result : {"Completed"}, value : {Garbage}, parser : {Nil}, left : MayLeave(unit)]
       \cup [result : {"Error"}, value : {Nil}, parser : {Nil, Garbage}, left : MayLeave(unit)]

\* What is in buf after parse: memmove moves what it has not read to the front.
NotMoved(left) == buf
Unparsed(left) == IF left = 0 THEN Tail(buf) ELSE <<Leftover(left)>> \o Tail(buf)

\* A response has been read: the call returns with its last one.
LastButOne(requests)  == Len(requests) <= 2
PastTheLast(requests) == Len(requests) = 0
LastOne(requests)     == Len(requests) = 1

Response(value) ==
    /\ answers' = Append(answers, [request |-> Head(toRead), reply |-> value])
    /\ IF LastOne(toRead)
       THEN /\ loop' = "none" /\ toRead' = <<>> /\ responses' = <<>>
            /\ CallReturns(Append(responses, value))
       ELSE /\ toRead' = Tail(toRead) /\ responses' = Append(responses, value)
            /\ UNCHANGED <<loop, returned>>
    /\ UNCHANGED <<toWrite, ec, failed>>

\* A parser error goes to the error handler.  When that returns, the response is Nil and
\* ec stays clear.
Parse ==
    /\ loop = "read" /\ buf # <<>>
    /\ \E out \in Outcomes(Head(buf)) :
          /\ redisParser' = out.parser /\ buf' = Unparsed(out.left)
          /\ \/ out.result = "Completed" /\ Response(out.value)
             \/ out.result = "Incompleted" /\ UNCHANGED <<callVars, ec, failed, answers, returned>>
             \/ out.result = "Error" /\ Throws /\ CallFails(ec) /\ UNCHANGED answers
             \/ out.result = "Error" /\ ~Throws /\ Response(Nil)
    /\ UNCHANGED <<state, linkVars, issued, turns>>

-----------------------------------------------------------------------------
(* The server and the network.                                             *)

Pieces(id) == {<<[reply |-> id, part |-> "whole"]>>,
               <<[reply |-> id, part |-> "first"], [reply |-> id, part |-> "second"]>>}

\* A request whose end is missing swallows what follows it, one request or more: the
\* server answers them all by one reply, an error perhaps, and may close the connection.
ServerReply ==
    /\ link = "up" /\ toServer # <<>>
    /\ IF Head(toServer).cut
       THEN /\ \E n \in 2 .. Len(toServer) : toServer' = SubSeq(toServer, n + 1, Len(toServer))
            /\ \E p \in Pieces(Garbage) : toClient' = toClient \o p
            /\ link' \in {"up", "dropped"}
       ELSE /\ toServer' = Tail(toServer)
            /\ \E p \in Pieces(Head(toServer).id) : toClient' = toClient \o p
            /\ UNCHANGED link
    /\ UNCHANGED <<state, redisParser, buf, callVars, ec, failed, historyVars>>

LinkDrops ==
    /\ link = "up" /\ link' = "dropped" /\ toServer' = <<>>
    /\ \E n \in 0 .. Len(toClient) : toClient' = SubSeq(toClient, 1, n)
    /\ UNCHANGED <<state, redisParser, buf, callVars, ec, failed, historyVars>>

-----------------------------------------------------------------------------
App     == Connect \/ Disconnect \/ Discard \/ CallRefused \/ \E n \in 1 .. MaxPipeline : Call(n)
Write   == WriteRequest \/ WriteFails
Read    == ReadSome \/ ReadFails
Network == ServerReply \/ LinkDrops

Next == App \/ Write \/ Read \/ Parse \/ Network

Spec == Init /\ [][Next]_vars

\* The calling thread runs, and poll returns when its timeout ends at the latest.
FairSpec == Spec /\ WF_vars(Write) /\ WF_vars(Read) /\ WF_vars(Parse)

-----------------------------------------------------------------------------
(* Properties.                                                             *)

\* A call that returns a value returns to each of its requests the reply to that request,
\* and to all of them (pipeline.h:30: "For every request command will get response value").
RepliesMatch == \A i \in DOMAIN returned : returned[i].replies = returned[i].requests

\* Between the calls of a client that has not failed nothing is under way: what the next
\* call reads can only be the reply to its own request.
QuietBetweenCalls ==
    loop = "none" /\ ~failed =>
       toServer = <<>> /\ toClient = <<>> /\ buf = <<>> /\ redisParser = Nil

\* Whatever the application does after failures: no reply is read twice, and replies are
\* read in the order of their requests.  (That is all: a reply may be taken for the answer to
\* an older request of the same client, and within a pipeline even to one made later than it.)
AnswersInOrder ==
    \A i, j \in DOMAIN answers :
        i < j /\ answers[i].reply > Nil /\ answers[j].reply > Nil
           => answers[i].reply < answers[j].reply

\* The client says Connected only of a socket that was connected since it was last closed.
ConnectedImpliesSocket == state = "Connected" => link \in {"up", "dropped"}

\* Every call comes back, with a value, an error or an exception.
EveryCallReturns == loop # "none" ~> loop = "none"

Abstract == INSTANCE RequestReply WITH
    outstanding <- toRead,
    answered    <- [i \in DOMAIN answers |-> <<answers[i].request, answers[i].reply>>]

\* The client is a request/reply channel: requests are answered in order, each by its own
\* reply, and given up only all at once.
ImplementsRequestReply == Abstract!Spec
=============================================================================
