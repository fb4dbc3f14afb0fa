------------------------------ MODULE AsioEnv ------------------------------
(***************************************************************************)
(* What the asynchronous client stands on: the boost::asio stream socket,  *)
(* the operations outstanding on it, the connection and the Redis server   *)
(* at its other end.  None of it is code of the repository; it is modelled *)
(* from how redisclientimpl.cpp and redisasyncclient.cpp use it.           *)
(*                                                                         *)
(* An asynchronous operation is started by the client, completed by the    *)
(* environment, and its completion waits here until the client's handler   *)
(* runs.  Completions of different operations may be run in any order,     *)
(* which is all that asio promises of handlers outside a strand.           *)
(***************************************************************************)
EXTENDS Naturals, Sequences, SequencesExt

CONSTANTS
    Channels,      \* pub/sub channels (or patterns)
    NoChannel,     \* the channel of a request or reply that has none
    MaxPublished   \* bound: messages published in a behaviour

ASSUME EnvAssumption == NoChannel \notin Channels /\ MaxPublished \in Nat

VARIABLES
    link,         \* the socket: closed, open (not connected), up, dropped by the peer
    connectOps,   \* async_connect operations: pending, or completed and not yet handled
    readOps,      \* async_read_some operations, oldest first
    writeOps,     \* async_write operations, with what each has left to send
    toServer,     \* requests received by the server and not yet answered
    toClient,     \* bytes on their way to the client, as units of replies
    subs,         \* channels the server has this connection subscribed to
    published,    \* history: the messages published, with who was to receive them
    wireLog       \* history: ids of the requests the socket has accepted

linkVars == <<link, toServer, toClient, subs>>
opVars   == <<connectOps, readOps, writeOps>>
logVars  == <<published, wireLog>>
envVars  == <<linkVars, opVars, logVars>>

-----------------------------------------------------------------------------
(* Data.  A request is known by the order in which it was made.  A reply   *)
(* carries the id of its request; a published message carries its index.   *)
(* Bytes are counted in replies: a reply arrives whole or in two pieces.   *)

Chan    == Channels \cup {NoChannel}
Request == [kind : {"command"}, id : Nat, chan : {NoChannel}]
             \cup [kind : {"subscribe", "unsubscribe"}, id : Nat, chan : Channels]
Reply   == [kind : {"none", "garbage", "reply", "subscribe", "unsubscribe", "message"},
            id : Nat, chan : Chan]
Unit    == [reply : Reply, part : {"whole", "first", "second"}]

NoReply == [kind |-> "none", id |-> 0, chan |-> NoChannel]
Garbage == [kind |-> "garbage", id |-> 0, chan |-> NoChannel]

Handle      == [id : Nat, chan : Channels, shot : BOOLEAN]
Publication == [chan : Channels, audience : SUBSET Handle]
ReadOp      == [st : {"pending", "ok", "error", "aborted"}, data : Seq(Unit)]
WriteOp     == [st : {"pending", "ok", "error"}, left : Seq(Request)]

\* The types of the environment's variables.
EnvTypeOK ==
    /\ link \in {"closed", "open", "up", "dropped"}
    /\ connectOps \in Seq({"pending", "ok", "error", "aborted"})
    /\ readOps \in Seq(ReadOp)
    /\ writeOps \in Seq(WriteOp)
    /\ toServer \in Seq(Request)
    /\ toClient \in Seq(Unit)
    /\ subs \in SUBSET Channels
    /\ published \in Seq(Publication)
    /\ wireLog \in Seq(Nat)

EnvInit ==
    /\ link = "closed"
    /\ connectOps = <<>> /\ readOps = <<>> /\ writeOps = <<>>
    /\ toServer = <<>> /\ toClient = <<>> /\ subs = {}
    /\ published = <<>> /\ wireLog = <<>>

-----------------------------------------------------------------------------
(* What the client's calls on the socket do.                               *)

Ids(requests) == [i \in DOMAIN requests |-> requests[i].id]

Connecting == \E i \in DOMAIN connectOps : connectOps[i] = "pending"

\* socket.async_connect: opens a closed socket; a socket that is connected or
\* is being connected refuses at once.
StartConnect ==
    /\ link' = IF link = "closed" THEN "open" ELSE link
    /\ connectOps' = Append(connectOps, IF link \in {"up", "dropped"} \/ Connecting
                                        THEN "error" ELSE "pending")
    /\ UNCHANGED <<toServer, toClient, subs>>

\* socket.async_read_some and async_write: on a closed socket they fail, with
\* the error delivered later like any completion.
StartedRead == [st |-> IF link = "closed" THEN "error" ELSE "pending", data |-> <<>>]

StartedWrite(requests) ==
    IF link = "closed" THEN [st |-> "error", left |-> <<>>]
                       ELSE [st |-> "pending", left |-> requests]

\* socket.cancel, shutdown, close: what is pending completes with
\* operation_aborted, what had completed keeps its result.
CloseSocket ==
    /\ link' = "closed"
    /\ toServer' = <<>> /\ toClient' = <<>> /\ subs' = {}
    /\ connectOps' = [i \in DOMAIN connectOps |->
                        IF connectOps[i] = "pending" THEN "aborted" ELSE connectOps[i]]
    /\ readOps' = [i \in DOMAIN readOps |->
                     IF readOps[i].st = "pending" THEN [readOps[i] EXCEPT !.st = "aborted"]
                                                  ELSE readOps[i]]
    /\ writeOps' = [i \in DOMAIN writeOps |->
                      IF writeOps[i].st = "pending" THEN [st |-> "error", left |-> <<>>]
                                                    ELSE writeOps[i]]

-----------------------------------------------------------------------------
(* Steps of the environment.                                               *)

ConnectDone ==
    \E i \in DOMAIN connectOps :
        /\ connectOps[i] = "pending"
        /\ \/ link' = "up" /\ connectOps' = [connectOps EXCEPT ![i] = "ok"]
           \/ link' = link /\ connectOps' = [connectOps EXCEPT ![i] = "error"]
        /\ UNCHANGED <<toServer, toClient, subs, readOps, writeOps, logVars>>

\* The kernel takes some of what async_write has left.  A dropped connection
\* accepts bytes for a while, and they are lost.
WriteSome ==
    /\ link \in {"up", "dropped"}
    /\ \E i \in DOMAIN writeOps :
          /\ writeOps[i].st = "pending"
          /\ \E n \in 1 .. Len(writeOps[i].left) :
                LET taken == SubSeq(writeOps[i].left, 1, n)
                    kept  == SubSeq(writeOps[i].left, n + 1, Len(writeOps[i].left))
                IN  /\ wireLog' = wireLog \o Ids(taken)
                    /\ toServer' = IF link = "up" THEN toServer \o taken ELSE toServer
                    /\ writeOps' = [writeOps EXCEPT ![i] =
                                      [st |-> IF kept = <<>> THEN "ok" ELSE "pending",
                                       left |-> kept]]
    /\ UNCHANGED <<link, toClient, subs, connectOps, readOps, published>>

Unconnectable == link = "dropped" \/ (link = "open" /\ ~Connecting)

WriteFails ==
    /\ Unconnectable
    /\ \E i \in DOMAIN writeOps :
          /\ writeOps[i].st = "pending"
          /\ writeOps' = [writeOps EXCEPT ![i] = [st |-> "error", left |-> <<>>]]
    /\ UNCHANGED <<linkVars, connectOps, readOps, logVars>>

\* Every read fills the client's one array buf, from its start: a completion
\* that comes while an earlier one still waits for its handler overwrites it.
Overwrite(op, data) ==
    IF op.st # "ok" THEN op
    ELSE [op EXCEPT !.data = [j \in DOMAIN op.data |->
                                IF j \in DOMAIN data THEN data[j] ELSE op.data[j]]]

FirstPendingRead(i) ==
    /\ readOps[i].st = "pending"
    /\ \A j \in 1 .. i - 1 : readOps[j].st # "pending"

\* What a read can return: the first n units, and perhaps a piece of the next.
ReadSome ==
    /\ link \in {"up", "dropped"}
    /\ \E i \in DOMAIN readOps, n \in 0 .. Len(toClient), cut \in BOOLEAN :
          LET whole == SubSeq(toClient, 1, n)
              later == SubSeq(toClient, n + 1, Len(toClient))
              data  == IF cut THEN Append(whole, [later[1] EXCEPT !.part = "first"]) ELSE whole
          IN  /\ FirstPendingRead(i)
              /\ n > 0 \/ cut
              /\ cut => later # <<>> /\ later[1].part = "whole"
              /\ toClient' = IF cut THEN [later EXCEPT ![1].part = "second"] ELSE later
              /\ readOps' = [j \in DOMAIN readOps |->
                               IF j = i THEN [st |-> "ok", data |-> data]
                                        ELSE Overwrite(readOps[j], data)]
    /\ UNCHANGED <<link, toServer, subs, connectOps, writeOps, logVars>>

ReadFails ==
    /\ Unconnectable
    /\ \E i \in DOMAIN readOps :
          /\ FirstPendingRead(i)
          /\ readOps' = [readOps EXCEPT ![i].st = "error"]
    /\ UNCHANGED <<linkVars, connectOps, writeOps, logVars>>

\* The server answers requests in the order it received them.
ServerReply ==
    /\ link = "up" /\ toServer # <<>>
    /\ LET r == Head(toServer)
           kind == IF r.kind = "command" THEN "reply" ELSE r.kind
       IN  /\ toClient' = Append(toClient,
                 [reply |-> [kind |-> kind, id |-> r.id, chan |-> r.chan], part |-> "whole"])
           /\ subs' = CASE r.kind = "subscribe"   -> subs \cup {r.chan}
                        [] r.kind = "unsubscribe" -> subs \ {r.chan}
                        [] OTHER                  -> subs
    /\ toServer' = Tail(toServer)
    /\ UNCHANGED <<link, opVars, logVars>>

\* Somebody publishes on ch; `audience` is who would expect to be called.
ServerPublish(ch, audience) ==
    /\ link = "up" /\ ch \in subs /\ Len(published) < MaxPublished
    /\ published' = Append(published, [chan |-> ch, audience |-> audience])
    /\ toClient' = Append(toClient,
          [reply |-> [kind |-> "message", id |-> Len(published'), chan |-> ch], part |-> "whole"])
    /\ UNCHANGED <<link, toServer, subs, opVars, wireLog>>

LinkDrops ==
    /\ link = "up"
    /\ link' = "dropped" /\ toServer' = <<>> /\ subs' = {}
    /\ UNCHANGED <<toClient, opVars, logVars>>
=============================================================================
