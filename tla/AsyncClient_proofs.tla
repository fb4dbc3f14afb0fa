------------------------- MODULE AsyncClient_proofs -------------------------
(***************************************************************************)
(* Theorems about AsyncClient, for every value of its constants.           *)
(***************************************************************************)
EXTENDS AsyncClient, SeqLemmas

(* Elements of the data types, so that the proofs below need not expand    *)
(* the record sets.                                                        *)

LEMMA ReplyTypes ==
    /\ NoReply \in Reply /\ Garbage \in Reply
    /\ \A r \in Request : r.id \in Nat /\ (r.kind # "command" => r.chan \in Channels)
    /\ \A r \in Request, k \in {"reply", "subscribe", "unsubscribe"} :
          [kind |-> k, id |-> r.id, chan |-> r.chan] \in Reply
    /\ \A ch \in Channels, n \in Nat : [kind |-> "message", id |-> n, chan |-> ch] \in Reply
    /\ \A u \in Unit, p \in {"whole", "first", "second"} :
          u.reply \in Reply /\ [u EXCEPT !.part = p] \in Unit
BY DEF NoReply, Garbage, Reply, Request, Unit, Chan

LEMMA OpTypes ==
    /\ StartedRead \in ReadOp
    /\ \A q \in Seq(Request) : StartedWrite(q) \in WriteOp
    /\ \A st \in {"pending", "ok", "error"}, q \in Seq(Request) :
          [st |-> st, left |-> q] \in WriteOp
    /\ \A st \in {"pending", "ok", "error", "aborted"}, d \in Seq(Unit), op \in ReadOp :
          /\ [st |-> st, data |-> d] \in ReadOp
          /\ [op EXCEPT !.st = st] \in ReadOp
          /\ [op EXCEPT !.data = d] \in ReadOp
BY DEF StartedRead, StartedWrite, ReadOp, WriteOp

LEMMA CutType ==
    ASSUME NEW S, NEW s \in Seq(S), NEW n \in 0 .. Len(s)
    PROVE  SubSeq(s, 1, n) \in Seq(S) /\ SubSeq(s, n + 1, Len(s)) \in Seq(S)
<1>1. Len(s) \in Nat /\ \A i \in 1 .. Len(s) : s[i] \in S
  BY LenProperties, ElementOfSeq
<1> QED BY <1>1, SubSeqProperties

LEMMA OverwriteType ==
    ASSUME NEW op \in ReadOp, NEW data \in Seq(Unit)
    PROVE  Overwrite(op, data) \in ReadOp
<1> DEFINE d == [j \in DOMAIN op.data |-> IF j \in DOMAIN data THEN data[j] ELSE op.data[j]]
<1>1. op.data \in Seq(Unit)
  BY DEF ReadOp
<1>2. d \in [DOMAIN op.data -> Unit]
  BY <1>1, ElementOfSeq, LenProperties
<1>3. d \in Seq(Unit)
  BY <1>1, <1>2, MappedSeq
<1> QED BY <1>3, OpTypes DEF Overwrite

LEMMA IdsType ==
    ASSUME NEW q \in Seq(Request)
    PROVE  Ids(q) \in Seq(Nat) /\ Len(Ids(q)) = Len(q)
<1>1. Ids(q) \in [DOMAIN q -> Nat]
  BY ReplyTypes, ElementOfSeq, LenProperties DEF Ids
<1> QED BY <1>1, MappedSeq

-----------------------------------------------------------------------------
(* Type correctness of the environment.                                    *)

LEMMA CloseSocketType ==
    ASSUME EnvTypeOK, CloseSocket
    PROVE  /\ link' \in {"closed", "open", "up", "dropped"}
           /\ connectOps' \in Seq({"pending", "ok", "error", "aborted"})
           /\ readOps' \in Seq(ReadOp) /\ writeOps' \in Seq(WriteOp)
           /\ toServer' \in Seq(Request) /\ toClient' \in Seq(Unit)
           /\ subs' \in SUBSET Channels
<1> USE DEF EnvTypeOK, CloseSocket
<1>1. connectOps' \in [DOMAIN connectOps -> {"pending", "ok", "error", "aborted"}]
  BY ElementOfSeq, LenProperties
<1>2. readOps' \in [DOMAIN readOps -> ReadOp]
  BY ElementOfSeq, LenProperties, OpTypes
<1>3. writeOps' \in [DOMAIN writeOps -> WriteOp]
  BY ElementOfSeq, LenProperties, OpTypes, EmptySeq
<1>4. connectOps' \in Seq({"pending", "ok", "error", "aborted"})
  BY <1>1, MappedSeq
<1>5. readOps' \in Seq(ReadOp)
  BY <1>2, MappedSeq
<1>6. writeOps' \in Seq(WriteOp)
  BY <1>3, MappedSeq
<1> QED BY <1>4, <1>5, <1>6, EmptySeq

LEMMA EnvironmentType ==
    ASSUME TypeOK, Environment
    PROVE  EnvTypeOK'
<1> USE DEF TypeOK, EnvTypeOK
<1>0. /\ DOMAIN connectOps = 1 .. Len(connectOps)
      /\ DOMAIN readOps = 1 .. Len(readOps)
      /\ DOMAIN writeOps = 1 .. Len(writeOps)
      /\ \A i \in DOMAIN readOps : readOps[i] \in ReadOp
      /\ \A i \in DOMAIN writeOps : writeOps[i] \in WriteOp
  BY LenProperties, ElementOfSeq
<1>1. CASE ConnectDone
  <2>1. PICK i \in DOMAIN connectOps :
           \/ link' = "up" /\ connectOps' = [connectOps EXCEPT ![i] = "ok"]
           \/ link' = link /\ connectOps' = [connectOps EXCEPT ![i] = "error"]
    BY <1>1 DEF ConnectDone
  <2>2. connectOps' \in Seq({"pending", "ok", "error", "aborted"})
    <3>1. /\ [connectOps EXCEPT ![i] = "ok"] \in Seq({"pending", "ok", "error", "aborted"})
          /\ [connectOps EXCEPT ![i] = "error"] \in Seq({"pending", "ok", "error", "aborted"})
      BY ReplaceType
    <3> QED BY <2>1, <3>1
  <2> QED BY <1>1, <2>1, <2>2 DEF ConnectDone, logVars
<1>2. CASE WriteSome
  <2> DEFINE taken(i, n) == SubSeq(writeOps[i].left, 1, n)
             kept(i, n)  == SubSeq(writeOps[i].left, n + 1, Len(writeOps[i].left))
             op(i, n)    == [st |-> IF kept(i, n) = <<>> THEN "ok" ELSE "pending",
                             left |-> kept(i, n)]
             Sent(i, n)  == /\ wireLog' = wireLog \o Ids(taken(i, n))
                            /\ toServer' = IF link = "up" THEN toServer \o taken(i, n)
                                                          ELSE toServer
                            /\ writeOps' = [writeOps EXCEPT ![i] = op(i, n)]
  <2>1. PICK i \in DOMAIN writeOps : \E n \in 1 .. Len(writeOps[i].left) : Sent(i, n)
    BY <1>2, Zenon DEF WriteSome
  <2>2. PICK n \in 1 .. Len(writeOps[i].left) : Sent(i, n)
    <3> HIDE DEF Sent
    <3> QED BY <2>1
  <2>3. writeOps[i].left \in Seq(Request) /\ Len(writeOps[i].left) \in Nat
    BY <1>0, LenProperties DEF WriteOp
  <2>4. taken(i, n) \in Seq(Request) /\ kept(i, n) \in Seq(Request)
    <3>1. n \in 0 .. Len(writeOps[i].left)
      BY <2>3
    <3> QED BY <2>3, <3>1, CutType
  <2>5. wireLog' \in Seq(Nat) /\ toServer' \in Seq(Request)
    <3> HIDE DEF taken
    <3>1. Ids(taken(i, n)) \in Seq(Nat)
      BY <2>4, IdsType
    <3>2. wireLog \o Ids(taken(i, n)) \in Seq(Nat)
      BY <3>1, ConcatProperties
    <3>3. toServer \o taken(i, n) \in Seq(Request)
      BY <2>4, ConcatProperties
    <3> QED BY <2>2, <3>2, <3>3
  <2>6. writeOps' \in Seq(WriteOp)
    <3>1. op(i, n) \in WriteOp
      BY <2>4, OpTypes
    <3> HIDE DEF op
    <3> QED BY <2>2, <3>1, ReplaceType
  <2> QED BY <1>2, <2>5, <2>6 DEF WriteSome
<1>3. CASE WriteFails
  <2>1. PICK i \in DOMAIN writeOps :
           writeOps' = [writeOps EXCEPT ![i] = [st |-> "error", left |-> <<>>]]
    BY <1>3 DEF WriteFails
  <2>2. [st |-> "error", left |-> <<>>] \in WriteOp
    BY OpTypes, EmptySeq
  <2>3. writeOps' \in Seq(WriteOp)
    BY <2>1, <2>2, ReplaceType
  <2> QED BY <1>3, <2>3 DEF WriteFails, linkVars, logVars
<1>4. CASE ReadSome
  <2> DEFINE whole(n) == SubSeq(toClient, 1, n)
             later(n) == SubSeq(toClient, n + 1, Len(toClient))
             data(n, cut) == IF cut THEN Append(whole(n), [later(n)[1] EXCEPT !.part = "first"])
                                    ELSE whole(n)
  <2>1. PICK i \in DOMAIN readOps, n \in 0 .. Len(toClient), cut \in BOOLEAN :
           /\ cut => later(n) # <<>>
           /\ toClient' = IF cut THEN [later(n) EXCEPT ![1].part = "second"] ELSE later(n)
           /\ readOps' = [j \in DOMAIN readOps |->
                            IF j = i THEN [st |-> "ok", data |-> data(n, cut)]
                                     ELSE Overwrite(readOps[j], data(n, cut))]
    BY <1>4 DEF ReadSome
  <2>2. whole(n) \in Seq(Unit) /\ later(n) \in Seq(Unit)
    BY CutType
  <2>3. ASSUME cut
        PROVE  /\ 1 \in 1 .. Len(later(n)) /\ later(n)[1] \in Unit
               /\ [later(n)[1] EXCEPT !.part = "first"] \in Unit
               /\ [later(n)[1] EXCEPT !.part = "second"] \in Unit
    <3> HIDE DEF later
    <3>1. Len(later(n)) \in Nat \ {0}
      BY <2>1, <2>2, <2>3, EmptySeq
    <3>2. 1 \in 1 .. Len(later(n))
      BY <3>1
    <3>3. later(n)[1] \in Unit
      BY <3>2, <2>2, ElementOfSeq
    <3> QED BY <3>2, <3>3, ReplyTypes
  <2>4. data(n, cut) \in Seq(Unit)
    <3> HIDE DEF later, whole
    <3> QED BY <2>2, <2>3, AppendProperties
  <2>5. toClient' \in Seq(Unit)
    <3> HIDE DEF later
    <3> QED BY <2>1, <2>2, <2>3, ExceptSeq
  <2>6. readOps' \in [DOMAIN readOps -> ReadOp]
    <3> HIDE DEF data
    <3>1. [st |-> "ok", data |-> data(n, cut)] \in ReadOp
      BY <2>4, OpTypes
    <3>2. \A j \in DOMAIN readOps : Overwrite(readOps[j], data(n, cut)) \in ReadOp
      BY <1>0, <2>4, OverwriteType
    <3> QED BY <2>1, <3>1, <3>2
  <2>7. readOps' \in Seq(ReadOp)
    BY <2>6, MappedSeq
  <2> QED BY <1>4, <2>5, <2>7 DEF ReadSome, logVars
<1>5. CASE ReadFails
  <2>1. PICK i \in DOMAIN readOps : readOps' = [readOps EXCEPT ![i].st = "error"]
    BY <1>5 DEF ReadFails
  <2>2. [readOps[i] EXCEPT !.st = "error"] \in ReadOp
    BY <1>0, OpTypes
  <2>3. readOps' \in Seq(ReadOp)
    BY <2>1, <2>2, ReplaceType
  <2> QED BY <1>5, <2>3 DEF ReadFails, linkVars, logVars
<1>6. CASE ServerReply
  <2>1. Head(toServer) \in Request /\ Tail(toServer) \in Seq(Request)
    BY <1>6, HeadTailProperties DEF ServerReply
  <2> DEFINE r == Head(toServer)
             kind == IF r.kind = "command" THEN "reply" ELSE r.kind
             u == [reply |-> [kind |-> kind, id |-> r.id, chan |-> r.chan], part |-> "whole"]
  <2>2. kind \in {"reply", "subscribe", "unsubscribe"}
    BY <2>1 DEF Request
  <2>3. u \in Unit
    BY <2>1, <2>2, ReplyTypes DEF Unit
  <2>4. toClient' \in Seq(Unit)
    <3>1. toClient' = Append(toClient, u)
      BY <1>6 DEF ServerReply
    <3> HIDE DEF u
    <3> QED BY <2>3, <3>1, AppendProperties
  <2>5. subs' \in SUBSET Channels
    <3>1. \/ r.kind = "subscribe" /\ r.chan \in Channels /\ subs' = subs \cup {r.chan}
          \/ subs' = subs \ {r.chan}
          \/ subs' = subs
      BY <1>6, <2>1 DEF ServerReply, Request
    <3> QED BY <3>1
  <2> QED BY <1>6, <2>1, <2>4, <2>5 DEF ServerReply, opVars, logVars
<1>7. ASSUME NEW ch \in Channels, ServerPublish(ch, Audience(ch)) PROVE EnvTypeOK'
  <2>1. [chan |-> ch, audience |-> Audience(ch)] \in Publication
    BY DEF Publication, Audience
  <2>2. published' \in Seq(Publication) /\ Len(published') \in Nat
    BY <1>7, <2>1, AppendProperties DEF ServerPublish
  <2>3. [reply |-> [kind |-> "message", id |-> Len(published'), chan |-> ch],
         part |-> "whole"] \in Unit
    BY <2>2, ReplyTypes DEF Unit
  <2>4. toClient' \in Seq(Unit)
    BY <1>7, <2>3, AppendProperties DEF ServerPublish
  <2> QED BY <1>7, <2>2, <2>4 DEF ServerPublish, opVars
<1>8. CASE LinkDrops
  BY <1>8, EmptySeq DEF LinkDrops, opVars, logVars
<1> QED BY <1>1, <1>2, <1>3, <1>4, <1>5, <1>6, <1>7, <1>8 DEF Environment

-----------------------------------------------------------------------------
(* Type correctness of the client.                                         *)

LEMMA JobTypes ==
    /\ \A r \in Request : [run |-> "doAsyncCommand", req |-> r] \in Job
    /\ \A to \in SUBSET Handle, m \in Nat : MsgJob(to, m) \in Job
    /\ \A j \in Job : /\ j.run = "doAsyncCommand" => j.req \in Request
                      /\ j.run = "msgHandler" => j.to \in SUBSET Handle /\ j.msg \in Nat
BY DEF Job, MsgJob

LEMMA PostType ==
    ASSUME issued \in Nat, strand \in Seq(Job), NEW kind, NEW chan, Post(kind, chan),
           \/ kind = "command" /\ chan = NoChannel
           \/ kind \in {"subscribe", "unsubscribe"} /\ chan \in Channels
    PROVE  issued' \in Nat /\ strand' \in Seq(Job)
<1> DEFINE req == [kind |-> kind, id |-> issued', chan |-> chan]
<1>1. issued' \in Nat
  BY DEF Post
<1>2. req \in Request
  BY <1>1 DEF Request
<1>3. strand' = Append(strand, [run |-> "doAsyncCommand", req |-> req])
  BY DEF Post
<1>4. [run |-> "doAsyncCommand", req |-> req] \in Job
  BY <1>2, JobTypes
<1> HIDE DEF req
<1> QED BY <1>1, <1>3, <1>4, AppendProperties

LEMMA AppCallType ==
    ASSUME TypeOK, AppCall
    PROVE  TypeOK'
<1> USE DEF TypeOK
<1>1. CASE Connect
  <2>1. /\ link' \in {"closed", "open", "up", "dropped"}
        /\ connectOps' \in Seq({"pending", "ok", "error", "aborted"})
        /\ UNCHANGED <<toServer, toClient, subs>>
    <3>1. CASE StartConnect
      BY <3>1, AppendProperties DEF StartConnect, EnvTypeOK
    <3>2. CASE UNCHANGED <<linkVars, connectOps>>
      BY <3>2 DEF EnvTypeOK, linkVars
    <3> QED BY <1>1, <3>1, <3>2 DEF Connect, linkVars
  <2>2. EnvTypeOK'
    BY <1>1, <2>1 DEF Connect, EnvTypeOK, logVars
  <2>3. /\ state' \in State /\ redisParser' \in Reply /\ turns' \in Nat
        /\ told' \in State \cup {"none"}
    BY <1>1, ReplyTypes DEF Connect, State
  <2> QED BY <1>1, <2>2, <2>3 DEF Connect, queueVars, pubsubVars
<1>2. CASE Disconnect
  <2>1. CloseSocket /\ msgHandlers' = {} /\ handlers' = <<>> /\ state' = "Closed"
    BY <1>2 DEF Disconnect, Close
  <2>2. EnvTypeOK'
    BY <1>2, <2>1, CloseSocketType DEF EnvTypeOK, Disconnect, logVars
  <2>3. handlers' \in Seq(Nat) /\ turns' \in Nat /\ state' \in State
    BY <1>2, <2>1, EmptySeq DEF Disconnect, State
  <2> QED BY <1>2, <2>1, <2>2, <2>3 DEF Disconnect, loopVars
<1>3. ASSUME NEW call, Request1(call) PROVE TypeOK'
  <2>1. EnvTypeOK'
    BY <1>3 DEF Request1, envVars, linkVars, opVars, logVars, EnvTypeOK
  <2>2. issued' \in Nat /\ strand' \in Seq(Job) /\ reported' \in SUBSET Report
    <3>1. CASE Post("command", NoChannel) /\ UNCHANGED reported
      <4>1. issued' \in Nat /\ strand' \in Seq(Job)
        BY <3>1, PostType
      <4> QED BY <3>1, <4>1
    <3>2. CASE Report1("state") /\ UNCHANGED <<issued, strand>>
      BY <3>2 DEF Report1, Report
    <3> QED BY <1>3, <3>1, <3>2 DEF Request1
  <2> QED BY <1>3, <2>1, <2>2 DEF Request1, pubsubVars, loopVars
<1>4. ASSUME NEW ch \in Channels, Subscribe(ch) PROVE TypeOK'
  <2>1. EnvTypeOK'
    BY <1>4 DEF Subscribe, envVars, linkVars, opVars, logVars, EnvTypeOK
  <2>2. /\ [id |-> subscribeSeq, chan |-> ch, shot |-> FALSE] \in Handle
        /\ [id |-> RefusedId, chan |-> ch, shot |-> FALSE] \in Handle
    BY DEF Handle, RefusedId
  <2>3. issued' \in Nat /\ strand' \in Seq(Job)
    BY <1>4, PostType DEF Subscribe
  <2>4. /\ reported' \in SUBSET Report /\ state' \in State /\ subscribeSeq' \in Nat
        /\ msgHandlers' \in SUBSET Handle /\ held' \in SUBSET Handle
    <3> DEFINE h == [id |-> subscribeSeq, chan |-> ch, shot |-> FALSE]
    <3>1. CASE /\ msgHandlers' = msgHandlers \cup {h} /\ held' = held \cup {h}
               /\ subscribeSeq' = subscribeSeq + 1 /\ state' = "Subscribed"
               /\ UNCHANGED reported
      <4>1. h \in Handle
        BY <2>2
      <4> HIDE DEF h
      <4> QED BY <3>1, <4>1 DEF State
    <3>2. CASE /\ Report1("state")
               /\ held' = held \cup {[id |-> RefusedId, chan |-> ch, shot |-> FALSE]}
               /\ UNCHANGED <<state, msgHandlers, subscribeSeq>>
      BY <3>2, <2>2 DEF Report1, Report
    <3> QED BY <1>4, <3>1, <3>2 DEF Subscribe
  <2> QED BY <1>4, <2>1, <2>3, <2>4 DEF Subscribe, loopVars
<1>5. ASSUME NEW ch \in Channels, SingleShotSubscribe(ch) PROVE TypeOK'
  <2>1. EnvTypeOK'
    BY <1>5 DEF SingleShotSubscribe, envVars, linkVars, opVars, logVars, EnvTypeOK
  <2>2. issued' \in Nat /\ strand' \in Seq(Job)
    BY <1>5, PostType DEF SingleShotSubscribe
  <2>3. [id |-> issued', chan |-> ch, shot |-> TRUE] \in Handle
    BY <2>2 DEF Handle
  <2>4. /\ reported' \in SUBSET Report /\ state' \in State
        /\ singleShotMsgHandlers' \in SUBSET Handle
    BY <1>5, <2>3 DEF SingleShotSubscribe, Report1, Report, State
  <2> QED BY <1>5, <2>1, <2>2, <2>4 DEF SingleShotSubscribe, loopVars
<1>6. ASSUME NEW h \in held, Unsubscribe(h) PROVE TypeOK'
  <2>1. EnvTypeOK'
    BY <1>6 DEF Unsubscribe, envVars, linkVars, opVars, logVars, EnvTypeOK
  <2>2. h.chan \in Channels
    BY DEF Handle
  <2>3. issued' \in Nat /\ strand' \in Seq(Job)
    BY <1>6, <2>2, PostType DEF Unsubscribe
  <2>4. /\ reported' \in SUBSET Report
        /\ msgHandlers' \in SUBSET Handle /\ held' \in SUBSET Handle
    BY <1>6 DEF Unsubscribe, Report1, Report, Remaining
  <2> QED BY <1>6, <2>1, <2>3, <2>4 DEF Unsubscribe, loopVars
<1> QED BY <1>1, <1>2, <1>3, <1>4, <1>5, <1>6 DEF AppCall, Command, Publish

LEMMA TransmitType ==
    ASSUME NEW q \in Seq(Request), NEW ops \in Seq(WriteOp), Transmit(q, ops)
    PROVE  /\ dataWrited' \in Seq(Request) /\ dataQueued' \in Seq(Request)
           /\ writeOps' \in Seq(WriteOp)
<1>1. Append(ops, StartedWrite(q)) \in Seq(WriteOp)
  BY OpTypes, AppendProperties
<1> QED BY <1>1, EmptySeq DEF Transmit

LEMMA PostMessageType ==
    ASSUME TypeOK, NEW v \in Reply, PostMessage(v)
    PROVE  strand' \in Seq(Job) /\ singleShotMsgHandlers' \in SUBSET Handle
<1> USE DEF TypeOK
<1> DEFINE jobs == IF Regular(v.chan) = {} THEN <<>> ELSE <<MsgJob(Regular(v.chan), v.id)>>
<1>1. Regular(v.chan) \in SUBSET Handle /\ v.id \in Nat
  BY DEF Regular, Reply
<1>2. jobs \in Seq(Job)
  <2>1. MsgJob(Regular(v.chan), v.id) \in Job
    BY <1>1, JobTypes
  <2> QED BY <2>1
<1>3. CASE strand' = strand \o jobs /\ UNCHANGED singleShotMsgHandlers
  BY <1>2, <1>3, ConcatProperties
<1>4. ASSUME NEW it \in singleShotMsgHandlers,
             strand' = strand \o <<MsgJob({it}, v.id)>> \o jobs,
             singleShotMsgHandlers' = SingleShotsWithout(it)
      PROVE  strand' \in Seq(Job) /\ singleShotMsgHandlers' \in SUBSET Handle
  <2>1. MsgJob({it}, v.id) \in Job
    BY <1>1, JobTypes
  <2>2. <<MsgJob({it}, v.id)>> \in Seq(Job)
    BY <2>1
  <2>3. strand \o <<MsgJob({it}, v.id)>> \in Seq(Job)
    BY <2>2, ConcatProperties
  <2>4. (strand \o <<MsgJob({it}, v.id)>>) \o jobs \in Seq(Job)
    BY <2>3, <1>2, ConcatProperties
  <2> QED BY <1>4, <2>4 DEF SingleShotsWithout
<1> QED BY <1>3, <1>4 DEF PostMessage

LEMMA DoProcessMessageType ==
    ASSUME TypeOK, NEW v \in Reply, frame = "parse", DoProcessMessage(v)
    PROVE  /\ frame' \in Frame /\ strand' \in Seq(Job)
           /\ singleShotMsgHandlers' \in SUBSET Handle
           /\ delivered' \in Seq([handler : Nat, reply : Reply])
           /\ reported' \in SUBSET Report
<1> USE DEF TypeOK
<1>1. CASE PostMessage(v)
  BY <1>1, PostMessageType DEF PostMessage
<1>2. CASE CallFront(v)
  <2>1. Head(handlers) \in Nat
    BY <1>2, HeadTailProperties DEF CallFront
  <2>2. [handler |-> Head(handlers), reply |-> v] \in [handler : Nat, reply : Reply]
    BY <2>1
  <2>3. delivered' \in Seq([handler : Nat, reply : Reply])
    BY <1>2, <2>2, AppendProperties DEF CallFront
  <2> QED BY <1>2, <2>3 DEF CallFront, Frame
<1>3. CASE Refuse
  BY <1>3 DEF Refuse, Report1, Report, Frame
<1> QED BY <1>1, <1>2, <1>3 DEF DoProcessMessage

LEMMA ParseType ==
    ASSUME redisParser \in Reply, NEW u \in Unit, NEW out \in Parse(u)
    PROVE  /\ out.parser \in Reply /\ out.value \in Reply /\ out.left \in Nat
           /\ out.result \in {"Completed", "Incompleted", "Error"}
<1>1. Garbled \subseteq Reply
  BY ReplyTypes DEF Garbled, Reply, Chan
<1>2. u.reply.id \in Nat /\ Spare(u) \in Int
  <2>1. u.reply \in Reply
    BY DEF Unit
  <2>2. u.reply.id \in Nat
    BY <2>1 DEF Reply
  <2>3. u.reply.id - 1 \in Int /\ MaxExtra \in Int
    BY <2>2, ClientAssumption
  <2> QED BY <2>2, <2>3 DEF Spare
<1> QED BY <1>1, <1>2, ReplyTypes DEF Parse, OutOfStep, Unit

\* What is left of the chunk are units again.
LEMMA RemainsType ==
    ASSUME rest \in Seq(Unit), rest # <<>>, NEW left \in Nat
    PROVE  Remains(left) \in Seq(Unit)
<1>1. Tail(rest) \in Seq(Unit)
  BY HeadTailProperties
<1>2. Leftover(left) \in Unit
  BY ReplyTypes DEF Leftover, Unit, Garbage, Reply
<1>3. <<Leftover(left)>> \in Seq(Unit)
  BY <1>2
<1>4. <<Leftover(left)>> \o Tail(rest) \in Seq(Unit)
  BY <1>1, <1>3, ConcatProperties
<1> QED BY <1>1, <1>4 DEF Remains

LEMMA HandlerType ==
    ASSUME TypeOK, Handler
    PROVE  TypeOK'
<1> USE DEF TypeOK
<1>1. CASE DoAsyncCommand
  <2>1. Head(strand) \in Job /\ Tail(strand) \in Seq(Job)
    BY <1>1, HeadTailProperties DEF DoAsyncCommand
  <2>2. Head(strand).req \in Request
    BY <1>1, <2>1, JobTypes DEF DoAsyncCommand
  <2>3. Append(dataQueued, Head(strand).req) \in Seq(Request)
    BY <2>2, AppendProperties
  <2>4. /\ dataQueued' \in Seq(Request) /\ dataWrited' \in Seq(Request)
        /\ writeOps' \in Seq(WriteOp)
    <3>1. CASE Transmit(Append(dataQueued, Head(strand).req), writeOps)
      BY <3>1, <2>3, TransmitType DEF EnvTypeOK
    <3>2. CASE /\ dataQueued' = Append(dataQueued, Head(strand).req)
               /\ UNCHANGED <<dataWrited, writeOps>>
      BY <3>2, <2>3 DEF EnvTypeOK
    <3> QED BY <1>1, <3>1, <3>2 DEF DoAsyncCommand
  <2>5. handlers' \in Seq(Nat)
    BY <1>1, <2>2, ReplyTypes, AppendProperties DEF DoAsyncCommand
  <2>6. EnvTypeOK'
    BY <1>1, <2>4 DEF DoAsyncCommand, EnvTypeOK, linkVars, logVars
  <2>7. strand' \in Seq(Job)
    BY <1>1, <2>1 DEF DoAsyncCommand
  <2> QED BY <1>1, <2>4, <2>5, <2>6, <2>7
          DEF DoAsyncCommand, pubsubVars, loopVars, historyVars
<1>2. CASE CallMessageHandler
  <2> DEFINE job == Head(strand)
  <2>1. job \in Job /\ Tail(strand) \in Seq(Job)
    BY <1>2, HeadTailProperties DEF CallMessageHandler
  <2>2. job.to \in SUBSET Handle /\ job.msg \in Nat /\ job.run = "msgHandler"
    BY <1>2, <2>1, JobTypes DEF CallMessageHandler
  <2>3. PICK h \in job.to :
           /\ called' = Append(called, [to |-> h, msg |-> job.msg])
           /\ strand' = IF job.to = {h} THEN Tail(strand)
                        ELSE [strand EXCEPT ![1] = [job EXCEPT !.to = job.to \ {h}]]
    BY <1>2 DEF CallMessageHandler
  <2>4. called' \in Seq([to : Handle, msg : Nat])
    BY <2>2, <2>3, AppendProperties
  <2>5. [job EXCEPT !.to = job.to \ {h}] \in Job
    BY <2>1, <2>2 DEF Job
  <2>6. 1 \in DOMAIN strand
    BY <1>2, EmptySeq, LenProperties DEF CallMessageHandler
  <2>7. [strand EXCEPT ![1] = [job EXCEPT !.to = job.to \ {h}]] \in Seq(Job)
    BY <2>5, <2>6, ReplaceType
  <2>8. strand' \in Seq(Job)
    BY <2>1, <2>3, <2>7
  <2>9. EnvTypeOK'
    BY <1>2 DEF CallMessageHandler, envVars, linkVars, opVars, logVars, EnvTypeOK
  <2> QED BY <1>2, <2>4, <2>8, <2>9 DEF CallMessageHandler, pubsubVars, loopVars
<1>3. CASE AsyncWrite
  <2>1. PICK i \in DOMAIN writeOps :
           \/ /\ Transmit(dataQueued, RemoveAt(writeOps, i))
              /\ UNCHANGED reported
           \/ /\ dataWrited' = <<>> /\ writeOps' = RemoveAt(writeOps, i)
              /\ Report1("io")
              /\ UNCHANGED dataQueued
    BY <1>3 DEF AsyncWrite
  <2>2. RemoveAt(writeOps, i) \in Seq(WriteOp)
    BY RemoveAtType DEF EnvTypeOK
  <2>3. /\ dataQueued' \in Seq(Request) /\ dataWrited' \in Seq(Request)
        /\ writeOps' \in Seq(WriteOp) /\ reported' \in SUBSET Report
    BY <2>1, <2>2, TransmitType, EmptySeq DEF Report1, Report
  <2>4. EnvTypeOK'
    BY <1>3, <2>3 DEF AsyncWrite, EnvTypeOK, linkVars, logVars
  <2> QED BY <1>3, <2>3, <2>4 DEF AsyncWrite, pubsubVars, loopVars
<1>4. CASE HandleAsyncConnect
  <2>1. connectOps' \in Seq({"pending", "ok", "error", "aborted"})
    BY <1>4, RemoveAtType DEF HandleAsyncConnect, EnvTypeOK
  <2>2. state' \in State /\ told' \in State \cup {"none"} /\ frame' \in Frame
    BY <1>4 DEF HandleAsyncConnect, State, Frame
  <2>3. EnvTypeOK'
    BY <1>4, <2>1 DEF HandleAsyncConnect, EnvTypeOK, linkVars, logVars
  <2> QED BY <1>4, <2>2, <2>3 DEF HandleAsyncConnect, queueVars, pubsubVars
<1>5. ASSUME ProcessMessage, UNCHANGED <<linkVars, connectOps, writeOps, logVars>>
      PROVE  EnvTypeOK' /\ frame' \in Frame
  <2>1. readOps' \in Seq(ReadOp)
    BY <1>5, OpTypes, AppendProperties DEF ProcessMessage, EnvTypeOK
  <2> QED BY <1>5, <2>1 DEF ProcessMessage, EnvTypeOK, linkVars, logVars, Frame
<1>6. CASE ConnectHandlerReturns
  BY <1>5, <1>6 DEF ConnectHandlerReturns, queueVars, pubsubVars, historyVars
<1>7. CASE AsyncRead
  <2>1. PICK i \in DOMAIN readOps :
           /\ readOps' = RemoveAt(readOps, i)
           /\ IF readOps[i].st = "ok" THEN frame' = "parse" /\ rest' = readOps[i].data
                                      ELSE UNCHANGED <<frame, rest>>
           /\ IF ReadFailed(readOps[i].st) THEN Report1("io") ELSE UNCHANGED reported
    BY <1>7 DEF AsyncRead
  <2>2. readOps' \in Seq(ReadOp)
    BY <2>1, RemoveAtType DEF EnvTypeOK
  <2>3. readOps[i].data \in Seq(Unit)
    <3>1. readOps[i] \in ReadOp
      BY ElementOfSeq, LenProperties DEF EnvTypeOK
    <3> QED BY <3>1 DEF ReadOp
  <2>4. frame' \in Frame /\ rest' \in Seq(Unit) /\ reported' \in SUBSET Report
    BY <2>1, <2>3 DEF Frame, Report1, Report
  <2>5. EnvTypeOK'
    BY <1>7, <2>2 DEF AsyncRead, EnvTypeOK, linkVars, logVars
  <2> QED BY <1>7, <2>4, <2>5 DEF AsyncRead, queueVars, pubsubVars
<1>8. CASE ReadAgain
  BY <1>5, <1>8 DEF ReadAgain, queueVars, pubsubVars, historyVars
<1>9. CASE ParseChunk
  <2>1. Head(rest) \in Unit /\ Tail(rest) \in Seq(Unit)
    BY <1>9, HeadTailProperties DEF ParseChunk
  <2>2. PICK out \in Parse(Head(rest)) :
          /\ redisParser' = out.parser
          /\ CASE out.result = "Completed" ->
                    rest' = Remains(out.left) /\ DoProcessMessage(out.value)
               [] out.result = "Incompleted" ->
                    /\ rest' = Tail(rest)
                    /\ UNCHANGED <<frame, strand, singleShotMsgHandlers, delivered, reported>>
               [] out.result = "Error" ->
                    /\ rest' = <<>> /\ frame' = "none" /\ Report1("parser")
                    /\ UNCHANGED <<strand, singleShotMsgHandlers, delivered>>
    BY <1>9 DEF ParseChunk
  <2>3. /\ out.parser \in Reply /\ out.value \in Reply /\ out.left \in Nat
        /\ out.result \in {"Completed", "Incompleted", "Error"}
    BY <2>1, ParseType
  <2>4. EnvTypeOK'
    BY <1>9 DEF ParseChunk, envVars, linkVars, opVars, logVars, EnvTypeOK
  <2>5. CASE out.result = "Completed"
    <3>1. rest' = Remains(out.left) /\ DoProcessMessage(out.value) /\ frame = "parse"
      BY <1>9, <2>2, <2>5 DEF ParseChunk
    <3>2. rest' \in Seq(Unit)
      BY <1>9, <2>3, <3>1, RemainsType DEF ParseChunk
    <3> QED BY <1>9, <2>2, <2>3, <2>4, <3>1, <3>2, DoProcessMessageType DEF ParseChunk
  <2>6. CASE out.result = "Incompleted"
    BY <1>9, <2>1, <2>2, <2>3, <2>4, <2>6 DEF ParseChunk
  <2>7. CASE out.result = "Error"
    BY <1>9, <2>1, <2>2, <2>3, <2>4, <2>7, EmptySeq DEF ParseChunk, Report1, Report, Frame
  <2> QED BY <2>3, <2>5, <2>6, <2>7
<1>10. CASE HandlerReturns
  <2>1. handlers' \in Seq(Nat) /\ frame' \in Frame
    <3>1. CASE handlers # <<>> /\ handlers' = Tail(handlers) /\ frame' = "parse"
      BY <3>1, HeadTailProperties DEF Frame
    <3>2. CASE frame' = "undefined" /\ UNCHANGED handlers
      BY <3>2 DEF Frame
    <3> QED BY <1>10, <3>1, <3>2 DEF HandlerReturns
  <2>2. EnvTypeOK'
    BY <1>10 DEF HandlerReturns, envVars, linkVars, opVars, logVars, EnvTypeOK
  <2> QED BY <1>10, <2>1, <2>2 DEF HandlerReturns, pubsubVars, historyVars
<1>11. CASE ErrorHandlerReturns
  <2>1. frame' \in Frame /\ rest' \in Seq(Unit)
    BY <1>11, EmptySeq DEF ErrorHandlerReturns, Frame
  <2>2. EnvTypeOK'
    BY <1>11 DEF ErrorHandlerReturns, envVars, linkVars, opVars, logVars, EnvTypeOK
  <2> QED BY <1>11, <2>1, <2>2 DEF ErrorHandlerReturns, queueVars, pubsubVars, historyVars
<1> QED BY <1>1, <1>2, <1>3, <1>4, <1>6, <1>7, <1>8, <1>9, <1>10, <1>11
        DEF Handler, ReadLoop

\* Every variable keeps its type: handlers and ids are naturals, the queues hold
\* requests, the strand jobs that DoAsyncCommand and CallMessageHandler can run.
THEOREM TypeCorrect == Spec => []TypeOK
<1>1. Init => TypeOK
  BY ReplyTypes, EmptySeq DEF Init, EnvInit, TypeOK, EnvTypeOK, State, Frame
<1>2. TypeOK /\ [Next]_vars => TypeOK'
  <2> SUFFICES ASSUME TypeOK, [Next]_vars PROVE TypeOK'
    OBVIOUS
  <2>1. CASE AppCall
    BY <2>1, AppCallType
  <2>2. CASE Handler
    BY <2>2, HandlerType
  <2>3. CASE Environment
    BY <2>3, EnvironmentType DEF TypeOK, Environment, clientVars, queueVars, pubsubVars,
       loopVars, historyVars
  <2>4. CASE UNCHANGED vars
    BY <2>4 DEF TypeOK, EnvTypeOK, vars, envVars, linkVars, opVars, logVars, clientVars,
       queueVars, pubsubVars, loopVars, historyVars
  <2> QED BY <2>1, <2>2, <2>3, <2>4 DEF Next
<1> QED BY <1>1, <1>2, PTL DEF Spec
-----------------------------------------------------------------------------
(* The single writer.  SingleWriter is inductive once types are known: the *)
(* length of writeOps follows dataWrited through every start and end of a  *)
(* write, and what a write has left is a suffix of dataWrited.             *)

\* A suffix of a suffix is a suffix.
LEMMA SuffixOfSuffix ==
    ASSUME NEW S, NEW s \in Seq(S), NEW n \in DOMAIN s, NEW m \in Nat,
           SubSeq(SubSeq(s, n, Len(s)), m + 1, Len(SubSeq(s, n, Len(s)))) # <<>>
    PROVE  /\ n + m \in DOMAIN s
           /\ SubSeq(SubSeq(s, n, Len(s)), m + 1, Len(SubSeq(s, n, Len(s))))
                = SubSeq(s, n + m, Len(s))
<1> DEFINE t == SubSeq(s, n, Len(s))
<1>1. DOMAIN s = 1 .. Len(s) /\ Len(s) \in Nat /\ n \in 1 .. Len(s)
  BY LenProperties
<1>2. t \in Seq(S) /\ Len(t) = Len(s) - n + 1
  BY <1>1, SuffixProperties
<1> HIDE DEF t
<1>3. m < Len(t)
  <2>1. SubSeq(t, m + 1, Len(t)) # <<>>
    BY DEF t
  <2> QED BY <1>1, <1>2, <2>1, SubSeqEmpty
<1>4. n + m \in 1 .. Len(s) /\ m + 1 \in 1 .. Len(t) + 1
  BY <1>1, <1>2, <1>3
<1> DEFINE u == SubSeq(t, m + 1, Len(t))
           v == SubSeq(s, n + m, Len(s))
<1>5. /\ u \in Seq(S) /\ Len(u) = Len(t) - (m + 1) + 1
      /\ \A i \in 1 .. Len(t) - (m + 1) + 1 : u[i] = t[m + 1 + i - 1]
  BY <1>2, <1>4, SuffixProperties
<1>6. /\ v \in Seq(S) /\ Len(v) = Len(s) - (n + m) + 1
      /\ \A i \in 1 .. Len(s) - (n + m) + 1 : v[i] = s[n + m + i - 1]
  <2>1. n + m \in 1 .. Len(s) + 1
    BY <1>1, <1>4
  <2> DEFINE k == n + m
  <2> HIDE DEF k
  <2>2. k \in 1 .. Len(s) + 1
    BY <2>1 DEF k
  <2>3. /\ SubSeq(s, k, Len(s)) \in Seq(S) /\ Len(SubSeq(s, k, Len(s))) = Len(s) - k + 1
        /\ \A i \in 1 .. Len(s) - k + 1 : SubSeq(s, k, Len(s))[i] = s[k + i - 1]
    BY <2>2, SuffixProperties
  <2> QED BY <2>3 DEF k, v
<1>7. \A k \in 1 .. Len(s) - n + 1 : t[k] = s[n + k - 1]
  BY <1>1, SuffixProperties DEF t
<1> HIDE DEF u, v
<1>8. Len(u) = Len(v)
  <2>1. \A l, n0, m0 \in Int : (l - n0 + 1) - (m0 + 1) + 1 = l - (n0 + m0) + 1
    OBVIOUS
  <2>2. Len(s) \in Int /\ n \in Int /\ m \in Int
    BY <1>1
  <2>3. (Len(s) - n + 1) - (m + 1) + 1 = Len(s) - (n + m) + 1
    BY ONLY <2>1, <2>2
  <2>4. Len(u) = (Len(s) - n + 1) - (m + 1) + 1
    BY ONLY <1>2, <1>5
  <2> QED BY ONLY <2>3, <2>4, <1>6
<1>9. ASSUME NEW i \in 1 .. Len(u) PROVE u[i] = v[i]
  <2>0. i \in Int /\ m \in Int /\ n \in Int
    BY <1>1, <1>9
  <2>1. m + 1 + i - 1 = m + i /\ n + (m + i) - 1 = n + m + i - 1
    BY ONLY <2>0
  <2>2. m + i \in 1 .. Len(s) - n + 1
    BY <1>1, <1>2, <1>5, <1>9
  <2>3. u[i] = t[m + i] /\ v[i] = s[n + m + i - 1]
    BY <1>5, <1>6, <1>8, <1>9, <2>1
  <2> QED BY <1>7, <2>1, <2>2, <2>3
<1>10. u = v
  BY <1>5, <1>6, <1>8, <1>9, SeqEqual
<1> QED BY <1>1, <1>4, <1>10 DEF t, u, v

\* What a write has left to send is a suffix of dataWrited.
LeftIn(op, data) == op.st = "pending" =>
                       \E n \in DOMAIN data : op.left = SubSeq(data, n, Len(data))

LEMMA WriterInit == Init => SingleWriter
BY EmptySeq DEF Init, EnvInit, SingleWriter

LEMMA WriterStart ==
    ASSUME NEW q \in Seq(Request), NEW ops \in Seq(WriteOp), Len(ops) = 0, Transmit(q, ops)
    PROVE  SingleWriter'
<1>1. CASE q = <<>>
  <2>1. dataWrited' = <<>> /\ Len(writeOps') = 0 /\ DOMAIN writeOps' = {}
    BY <1>1, LenProperties DEF Transmit
  <2> QED BY <2>1 DEF SingleWriter
<1>2. CASE q # <<>>
  <2> DEFINE op == StartedWrite(q)
  <2>1. dataWrited' = q /\ writeOps' = Append(ops, op)
    BY <1>2 DEF Transmit
  <2>2. Len(writeOps') = 1 /\ writeOps'[1] = op /\ DOMAIN writeOps' = {1}
    <3>1. op \in WriteOp
      BY OpTypes
    <3>2. Append(ops, op) \in Seq(WriteOp) /\ Len(Append(ops, op)) = 1
          /\ Append(ops, op)[1] = op
      BY <3>1, AppendProperties
    <3>3. DOMAIN Append(ops, op) = 1 .. 1
      BY <3>2, LenProperties
    <3> QED BY <2>1, <3>2, <3>3
  <2>3. 1 \in DOMAIN q /\ q = SubSeq(q, 1, Len(q))
    BY <1>2, LenProperties, EmptySeq, SubSeqFull
  <2>4. LeftIn(op, q)
    BY <2>3 DEF StartedWrite, LeftIn
  <2> QED BY <1>2, <2>1, <2>2, <2>4 DEF SingleWriter, LeftIn
<1> QED BY <1>1, <1>2
\* A write that has ended leaves no other behind.
LEMMA WriterEnd ==
    ASSUME TypeOK, SingleWriter, NEW i \in DOMAIN writeOps
    PROVE  Len(RemoveAt(writeOps, i)) = 0 /\ RemoveAt(writeOps, i) \in Seq(WriteOp)
<1>0. writeOps \in Seq(WriteOp)
  BY DEF TypeOK, EnvTypeOK
<1>1. Len(writeOps) = 1
  BY <1>0, LenProperties DEF SingleWriter
<1>2. /\ RemoveAt(writeOps, i) \in Seq(WriteOp)
      /\ Len(RemoveAt(writeOps, i)) = Len(writeOps) - 1
  BY <1>0, RemoveAtType
<1> QED BY <1>1, <1>2

\* An operation that completes, or is closed under, leaves the suffix alone.
LEMMA WriterComplete ==
    ASSUME TypeOK, SingleWriter, UNCHANGED dataWrited,
           DOMAIN writeOps' = DOMAIN writeOps, Len(writeOps') = Len(writeOps),
           \A i \in DOMAIN writeOps :
              writeOps'[i].st = "pending" => writeOps'[i] = writeOps[i]
    PROVE  SingleWriter'
BY DEF SingleWriter

LEMMA WriterStep ==
    ASSUME TypeOK, SingleWriter, Next
    PROVE  SingleWriter'
<1>0. /\ writeOps \in Seq(WriteOp) /\ dataWrited \in Seq(Request)
      /\ dataQueued \in Seq(Request)
  BY DEF TypeOK, EnvTypeOK
<1>1. CASE UNCHANGED <<dataWrited, writeOps>>
  BY <1>1 DEF SingleWriter
<1>2. CASE Disconnect
  <2>1. /\ UNCHANGED dataWrited
        /\ writeOps' = [i \in DOMAIN writeOps |->
                          IF writeOps[i].st = "pending" THEN [st |-> "error", left |-> <<>>]
                                                        ELSE writeOps[i]]
    BY <1>2 DEF Disconnect, Close, CloseSocket
  <2>2. writeOps' \in [DOMAIN writeOps -> WriteOp]
    <3>1. \A i \in DOMAIN writeOps : writeOps[i] \in WriteOp
      BY <1>0, ElementOfSeq, LenProperties
    <3> QED BY <2>1, <3>1, OpTypes, EmptySeq
  <2>3. DOMAIN writeOps' = DOMAIN writeOps /\ Len(writeOps') = Len(writeOps)
    BY <1>0, <2>2, MappedSeq
  <2> QED BY <2>1, <2>3, WriterComplete
<1>3. CASE DoAsyncCommand
  <2>1. CASE WriterIdle
    <3>1. Head(strand).req \in Request
      <4>1. Head(strand) \in Job
        BY <1>3, HeadTailProperties DEF DoAsyncCommand, TypeOK
      <4> QED BY <1>3, <4>1, JobTypes DEF DoAsyncCommand
    <3>2. Append(dataQueued, Head(strand).req) \in Seq(Request)
      BY <1>0, <3>1, AppendProperties
    <3>3. Transmit(Append(dataQueued, Head(strand).req), writeOps) /\ Len(writeOps) = 0
      BY <1>3, <2>1 DEF DoAsyncCommand, WriterIdle, SingleWriter
    <3> QED BY <1>0, <3>2, <3>3, WriterStart
  <2>2. CASE ~WriterIdle
    BY <1>1, <1>3, <2>2 DEF DoAsyncCommand
  <2> QED BY <2>1, <2>2
<1>4. CASE AsyncWrite
  <2>1. PICK i \in DOMAIN writeOps :
           \/ Transmit(dataQueued, RemoveAt(writeOps, i))
           \/ dataWrited' = <<>> /\ writeOps' = RemoveAt(writeOps, i)
    BY <1>4 DEF AsyncWrite
  <2>2. CASE Transmit(dataQueued, RemoveAt(writeOps, i))
    BY <1>0, <2>2, WriterEnd, WriterStart
  <2>3. CASE dataWrited' = <<>> /\ writeOps' = RemoveAt(writeOps, i)
    <3>1. Len(writeOps') = 0 /\ DOMAIN writeOps' = {}
      BY <2>3, WriterEnd, LenProperties
    <3> QED BY <2>3, <3>1 DEF SingleWriter
  <2> QED BY <2>1, <2>2, <2>3
<1>5. CASE WriteSome /\ UNCHANGED clientVars
  <2> DEFINE kept(i, n) == SubSeq(writeOps[i].left, n + 1, Len(writeOps[i].left))
             op(i, n)   == [st |-> IF kept(i, n) = <<>> THEN "ok" ELSE "pending",
                            left |-> kept(i, n)]
  <2>1. PICK i \in DOMAIN writeOps :
           /\ writeOps[i].st = "pending"
           /\ \E n \in 1 .. Len(writeOps[i].left) : writeOps' = [writeOps EXCEPT ![i] = op(i, n)]
    BY <1>5, Zenon DEF WriteSome
  <2>2. writeOps[i].left \in Seq(Request) /\ Len(writeOps[i].left) \in Nat
    <3>1. writeOps[i] \in WriteOp
      BY <1>0, ElementOfSeq, LenProperties
    <3> QED BY <3>1, LenProperties DEF WriteOp
  <2>3. PICK n \in 1 .. Len(writeOps[i].left) : writeOps' = [writeOps EXCEPT ![i] = op(i, n)]
    BY <2>1
  <2>4. op(i, n) \in WriteOp
    <3>1. n \in 0 .. Len(writeOps[i].left)
      BY <2>2
    <3>2. kept(i, n) \in Seq(Request)
      BY <2>2, <3>1, CutType
    <3> QED BY <3>2, OpTypes
  <2>5. DOMAIN writeOps' = DOMAIN writeOps /\ Len(writeOps') = Len(writeOps)
    <3> HIDE DEF op
    <3> QED BY <1>0, <2>3, <2>4, ReplaceType
  <2>6. UNCHANGED dataWrited
    BY <1>5 DEF clientVars, queueVars
  <2>7. ASSUME op(i, n).st = "pending"
        PROVE  \E k \in DOMAIN dataWrited : op(i, n).left = SubSeq(dataWrited, k, Len(dataWrited))
    <3>1. PICK k \in DOMAIN dataWrited :
             writeOps[i].left = SubSeq(dataWrited, k, Len(dataWrited))
      BY <2>1 DEF SingleWriter
    <3>2. kept(i, n) # <<>> /\ n \in Nat
      BY <2>2, <2>7
    <3>3. k + n \in DOMAIN dataWrited /\ kept(i, n) = SubSeq(dataWrited, k + n, Len(dataWrited))
      BY <1>0, <3>1, <3>2, SuffixOfSuffix
    <3> QED BY <3>3
  <2>8. \A j \in DOMAIN writeOps : writeOps'[j] = IF j = i THEN op(i, n) ELSE writeOps[j]
    BY <2>3
  <2> HIDE DEF op
  <2> QED BY <2>5, <2>6, <2>7, <2>8 DEF SingleWriter
<1>6. CASE WriteFails /\ UNCHANGED clientVars
  <2>1. PICK i \in DOMAIN writeOps :
           writeOps' = [writeOps EXCEPT ![i] = [st |-> "error", left |-> <<>>]]
    BY <1>6 DEF WriteFails
  <2>2. [st |-> "error", left |-> <<>>] \in WriteOp
    BY OpTypes, EmptySeq
  <2>3. DOMAIN writeOps' = DOMAIN writeOps /\ Len(writeOps') = Len(writeOps)
    BY <1>0, <2>1, <2>2, ReplaceType
  <2>4. UNCHANGED dataWrited
    BY <1>6 DEF clientVars, queueVars
  <2> QED BY <2>1, <2>3, <2>4, WriterComplete
<1>7. CASE AppCall
  <2>1. ASSUME ~Disconnect PROVE UNCHANGED <<dataWrited, writeOps>>
    BY <1>7, <2>1 DEF AppCall, Connect, Command, Publish, Request1, Subscribe,
       SingleShotSubscribe, Unsubscribe, queueVars, envVars, opVars
  <2> QED BY <1>1, <1>2, <2>1
<1>8. CASE Handler
  <2>1. ASSUME ~DoAsyncCommand, ~AsyncWrite PROVE UNCHANGED <<dataWrited, writeOps>>
    BY <1>8, <2>1 DEF Handler, ReadLoop, CallMessageHandler, HandleAsyncConnect,
       ConnectHandlerReturns, AsyncRead, ReadAgain, ParseChunk, HandlerReturns,
       ErrorHandlerReturns, queueVars, envVars, opVars
  <2> QED BY <1>1, <1>3, <1>4, <2>1
<1>9. CASE Environment
  <2>1. ASSUME ~WriteSome, ~WriteFails PROVE UNCHANGED <<dataWrited, writeOps>>
    BY <1>9, <2>1 DEF Environment, ConnectDone, ReadSome, ReadFails, ServerReply, LinkDrops,
       ServerPublish, opVars, clientVars, queueVars
  <2> QED BY <1>1, <1>5, <1>6, <1>9, <2>1 DEF Environment
<1> QED BY <1>7, <1>8, <1>9 DEF Next

\* There is never more than one async_write, and its buffers outlive it: whatever the
\* application does, connections and disconnections included.
THEOREM OneWriter == Spec => []SingleWriter
<1>1. TypeOK /\ SingleWriter /\ [Next]_vars => SingleWriter'
  <2> SUFFICES ASSUME TypeOK, SingleWriter, [Next]_vars PROVE SingleWriter'
    OBVIOUS
  <2>1. CASE Next
    BY <2>1, WriterStep
  <2>2. CASE UNCHANGED vars
    BY <2>2 DEF SingleWriter, vars, envVars, opVars, clientVars, queueVars
  <2> QED BY <2>1, <2>2
<1> QED BY <1>1, WriterInit, TypeCorrect, PTL DEF Spec

-----------------------------------------------------------------------------
(* The order in which AsyncClient sends requests and calls reply handlers. *)
(*                                                                         *)
(* A request travels from the strand to dataQueued, from there into a      *)
(* write and on to the wire; its handler from the strand to `handlers` and *)
(* to the history `delivered`.  Requests are numbered as they are made, so *)
(* that the order is kept if the stages hold disjoint ranges of numbers:   *)
(*                                                                         *)
(*   wireLog <= sent < LeftIds <= written < dataQueued <= queued < strand  *)
(*   delivered <= answered < Uncalled <= queued                            *)
(*                                                                         *)
(* A step moves requests across a mark and the mark with them; closing the *)
(* connection or losing a write only takes requests away.                  *)

\* What the write in progress has left to send.
LeftIds == IF writeOps = <<>> THEN <<>> ELSE Ids(writeOps[1].left)

\* A write that has ended has nothing left to send.
WrittenOut == \A i \in DOMAIN writeOps : writeOps[i].st # "pending" => writeOps[i].left = <<>>

DeliveredTo == [i \in DOMAIN delivered |-> delivered[i].handler]

\* The requests on the strand are in order, above lo and up to hi.
IsRequest(job) == job.run = "doAsyncCommand"
Posted(jobs, lo, hi) ==
    \A i \in DOMAIN jobs : IsRequest(jobs[i]) =>
       /\ lo < jobs[i].req.id /\ jobs[i].req.id <= hi
       /\ \A j \in DOMAIN jobs : i < j /\ IsRequest(jobs[j]) => jobs[i].req.id < jobs[j].req.id

SendLine(sent, written, queued) ==
    /\ Within(wireLog, 0, sent)
    /\ Within(LeftIds, sent, written)
    /\ Within(Ids(dataQueued), written, queued)

AnswerLine(answered, queued) ==
    /\ Within(DeliveredTo, 0, answered)
    /\ Within(Uncalled, answered, queued)

Marks(sent, written, queued, answered) ==
    /\ sent <= written /\ written <= queued /\ queued <= issued /\ answered <= queued
    /\ SendLine(sent, written, queued)
    /\ AnswerLine(answered, queued)
    /\ Posted(strand, queued, issued)

OrderInv ==
    /\ WrittenOut
    /\ \E sent, written, queued, answered \in 0 .. issued :
          Marks(sent, written, queued, answered)

-----------------------------------------------------------------------------
(* Ids.                                                                    *)

LEMMA IdsEmpty == Ids(<<>>) = <<>>
<1>1. DOMAIN <<>> = {} /\ <<>> \in Seq(Nat)
  BY EmptySeq
<1>2. Ids(<<>>) \in Seq(Nat) /\ Len(Ids(<<>>)) = 0
  BY IdsType, EmptySeq
<1> QED BY <1>1, <1>2, EmptySeq

LEMMA IdsAppend ==
    ASSUME NEW q \in Seq(Request), NEW r \in Request
    PROVE  Ids(Append(q, r)) = Append(Ids(q), r.id)
<1>0. r.id \in Nat
  BY ReplyTypes
<1>1. /\ Append(q, r) \in Seq(Request) /\ Len(Append(q, r)) = Len(q) + 1
      /\ \A i \in 1 .. Len(q) : Append(q, r)[i] = q[i]
      /\ Append(q, r)[Len(q) + 1] = r
  BY AppendProperties
<1>2. /\ Ids(q) \in Seq(Nat) /\ Len(Ids(q)) = Len(q)
      /\ Ids(Append(q, r)) \in Seq(Nat) /\ Len(Ids(Append(q, r))) = Len(q) + 1
  BY <1>1, IdsType
<1>3. /\ Append(Ids(q), r.id) \in Seq(Nat) /\ Len(Append(Ids(q), r.id)) = Len(q) + 1
      /\ \A i \in 1 .. Len(q) : Append(Ids(q), r.id)[i] = Ids(q)[i]
      /\ Append(Ids(q), r.id)[Len(q) + 1] = r.id
  BY <1>0, <1>2, AppendProperties
<1>4. /\ DOMAIN q = 1 .. Len(q) /\ Len(q) \in Nat
      /\ DOMAIN Append(q, r) = 1 .. Len(q) + 1
  BY <1>1, LenProperties
<1>5. \A i \in 1 .. Len(q) + 1 : Ids(Append(q, r))[i] = Append(Ids(q), r.id)[i]
  <2> SUFFICES ASSUME NEW i \in 1 .. Len(q) + 1
               PROVE  Ids(Append(q, r))[i] = Append(Ids(q), r.id)[i]
    OBVIOUS
  <2>1. Ids(Append(q, r))[i] = Append(q, r)[i].id
    BY <1>4 DEF Ids
  <2>2. CASE i \in 1 .. Len(q)
    <3>1. Ids(q)[i] = q[i].id
      BY <1>4, <2>2 DEF Ids
    <3>2. Append(q, r)[i] = q[i] /\ Append(Ids(q), r.id)[i] = Ids(q)[i]
      BY <1>1, <1>3, <2>2
    <3> QED BY <2>1, <3>1, <3>2
  <2>3. CASE i = Len(q) + 1
    BY <1>1, <1>3, <2>1, <2>3
  <2>4. i \in 1 .. Len(q) \/ i = Len(q) + 1
    BY <1>4
  <2> QED BY <2>2, <2>3, <2>4
<1> QED BY <1>2, <1>3, <1>5, SeqEqual

\* Cutting requests in two cuts their ids in two.
LEMMA IdsCut ==
    ASSUME NEW q \in Seq(Request), NEW n \in 1 .. Len(q)
    PROVE  /\ Ids(SubSeq(q, 1, n)) = SubSeq(Ids(q), 1, n)
           /\ Ids(SubSeq(q, n + 1, Len(q))) = SubSeq(Ids(q), n + 1, Len(Ids(q)))
<1>1. /\ Len(q) \in Nat /\ DOMAIN q = 1 .. Len(q)
      /\ Ids(q) \in Seq(Nat) /\ Len(Ids(q)) = Len(q)
      /\ \A i \in 1 .. Len(q) : Ids(q)[i] = q[i].id
  BY LenProperties, IdsType DEF Ids
<1>2. Ids(SubSeq(q, 1, n)) = SubSeq(Ids(q), 1, n)
  <2> DEFINE p == SubSeq(q, 1, n)
             u == SubSeq(Ids(q), 1, n)
  <2>1. n \in 0 .. Len(q) /\ n \in 0 .. Len(Ids(q)) /\ n \in Nat
    BY <1>1
  <2>2. p \in Seq(Request) /\ Len(p) = n /\ \A i \in 1 .. n : p[i] = q[i]
    BY <2>1, PrefixProperties
  <2>3. u \in Seq(Nat) /\ Len(u) = n /\ \A i \in 1 .. n : u[i] = Ids(q)[i]
    BY <1>1, <2>1, PrefixProperties
  <2> HIDE DEF p, u
  <2>4. Ids(p) \in Seq(Nat) /\ Len(Ids(p)) = n /\ DOMAIN p = 1 .. n
    BY <2>2, IdsType, LenProperties
  <2>5. ASSUME NEW i \in 1 .. n PROVE Ids(p)[i] = u[i]
    <3>1. i \in 1 .. Len(q)
      BY <1>1, <2>1
    <3>2. Ids(p)[i] = p[i].id
      BY <2>4 DEF Ids
    <3> QED BY <1>1, <2>2, <2>3, <3>1, <3>2
  <2> QED BY <2>3, <2>4, <2>5, SeqEqual DEF p, u
<1>3. Ids(SubSeq(q, n + 1, Len(q))) = SubSeq(Ids(q), n + 1, Len(q))
  <2> DEFINE k == n + 1
  <2>1. k \in 1 .. Len(q) + 1
    BY <1>1
  <2> HIDE DEF k
  <2> DEFINE p == SubSeq(q, k, Len(q))
             u == SubSeq(Ids(q), k, Len(q))
  <2>2. /\ p \in Seq(Request) /\ Len(p) = Len(q) - k + 1
        /\ \A i \in 1 .. Len(q) - k + 1 : p[i] = q[k + i - 1]
    BY <2>1, SuffixProperties
  <2>3. /\ u \in Seq(Nat) /\ Len(u) = Len(q) - k + 1
        /\ \A i \in 1 .. Len(q) - k + 1 : u[i] = Ids(q)[k + i - 1]
    BY <1>1, <2>1, SuffixProperties
  <2> HIDE DEF p, u
  <2>4. Ids(p) \in Seq(Nat) /\ Len(Ids(p)) = Len(p) /\ DOMAIN p = 1 .. Len(p)
    BY <2>2, IdsType, LenProperties
  <2>5. ASSUME NEW i \in 1 .. Len(p) PROVE Ids(p)[i] = u[i]
    <3>1. k + i - 1 \in 1 .. Len(q)
      BY <1>1, <2>1, <2>2
    <3>2. Ids(p)[i] = p[i].id
      BY <2>4 DEF Ids
    <3> QED BY <1>1, <2>2, <2>3, <3>1, <3>2
  <2> QED BY <2>2, <2>3, <2>4, <2>5, SeqEqual DEF p, u, k
<1> QED BY <1>1, <1>2, <1>3

-----------------------------------------------------------------------------
(* The strand.                                                             *)

LEMMA PostedAppend ==
    ASSUME NEW jobs \in Seq(Job), NEW job \in Job, NEW lo \in Nat, NEW hi \in Nat,
           NEW h \in Nat, hi <= h, Posted(jobs, lo, hi),
           IsRequest(job) => hi < job.req.id /\ job.req.id <= h /\ lo < job.req.id
    PROVE  Posted(Append(jobs, job), lo, h)
<1>1. /\ DOMAIN jobs = 1 .. Len(jobs) /\ Len(jobs) \in Nat
      /\ DOMAIN Append(jobs, job) = 1 .. Len(jobs) + 1
      /\ \A i \in 1 .. Len(jobs) : Append(jobs, job)[i] = jobs[i]
      /\ Append(jobs, job)[Len(jobs) + 1] = job
  BY LenProperties, AppendProperties
<1>2. \A i \in 1 .. Len(jobs) : IsRequest(jobs[i]) => jobs[i].req.id \in Nat
  BY ElementOfSeq, JobTypes, ReplyTypes DEF IsRequest
<1>3. IsRequest(job) => job.req.id \in Nat
  BY JobTypes, ReplyTypes DEF IsRequest
<1> QED BY <1>1, <1>2, <1>3 DEF Posted

\* Message handlers posted behind the requests change nothing.
LEMMA PostedOther ==
    ASSUME NEW jobs \in Seq(Job), NEW more \in Seq(Job), NEW lo, NEW hi,
           Posted(jobs, lo, hi), \A i \in DOMAIN more : ~IsRequest(more[i])
    PROVE  Posted(jobs \o more, lo, hi)
<1>1. /\ DOMAIN jobs = 1 .. Len(jobs) /\ Len(jobs) \in Nat
      /\ DOMAIN more = 1 .. Len(more) /\ Len(more) \in Nat
  BY LenProperties
<1>2. /\ DOMAIN (jobs \o more) = 1 .. Len(jobs) + Len(more)
      /\ \A i \in 1 .. Len(jobs) + Len(more) :
            (jobs \o more)[i] = IF i <= Len(jobs) THEN jobs[i] ELSE more[i - Len(jobs)]
  BY ConcatProperties, LenProperties
<1>3. \A i \in 1 .. Len(jobs) + Len(more) :
         IsRequest((jobs \o more)[i]) => i \in 1 .. Len(jobs) /\ (jobs \o more)[i] = jobs[i]
  <2> SUFFICES ASSUME NEW i \in 1 .. Len(jobs) + Len(more), ~(i <= Len(jobs))
               PROVE  ~IsRequest((jobs \o more)[i])
    BY <1>1, <1>2
  <2>1. i - Len(jobs) \in DOMAIN more
    BY <1>1
  <2> QED BY <1>2, <2>1
<1> QED BY <1>1, <1>2, <1>3 DEF Posted

LEMMA PostedTail ==
    ASSUME NEW jobs \in Seq(Job), NEW lo \in Nat, NEW hi \in Nat,
           Posted(jobs, lo, hi), jobs # <<>>
    PROVE  /\ Posted(Tail(jobs), lo, hi)
           /\ IsRequest(Head(jobs)) => /\ lo < Head(jobs).req.id /\ Head(jobs).req.id <= hi
                                       /\ Posted(Tail(jobs), Head(jobs).req.id, hi)
<1>1. /\ DOMAIN jobs = 1 .. Len(jobs) /\ Len(jobs) \in Nat \ {0}
      /\ DOMAIN Tail(jobs) = 1 .. Len(jobs) - 1
      /\ \A i \in 1 .. Len(jobs) - 1 : Tail(jobs)[i] = jobs[i + 1]
  BY LenProperties, HeadTailProperties, EmptySeq
<1>2. Head(jobs) = jobs[1]
  OBVIOUS
<1>3. \A i, j \in 1 .. Len(jobs) - 1 :
         /\ i + 1 \in 1 .. Len(jobs) /\ 1 < i + 1
         /\ i < j => i + 1 < j + 1
  BY <1>1
<1> QED BY <1>1, <1>2, <1>3 DEF Posted

\* Replacing a job that is no request by another that is none.
LEMMA PostedReplace ==
    ASSUME NEW jobs \in Seq(Job), NEW job \in Job, NEW lo, NEW hi, Posted(jobs, lo, hi),
           1 \in DOMAIN jobs, ~IsRequest(jobs[1]), ~IsRequest(job)
    PROVE  Posted([jobs EXCEPT ![1] = job], lo, hi)
<1> DEFINE new == [jobs EXCEPT ![1] = job]
<1>1. /\ DOMAIN new = DOMAIN jobs
      /\ \A i \in DOMAIN jobs : IsRequest(new[i]) => new[i] = jobs[i]
  OBVIOUS
<1> HIDE DEF new
<1>2. Posted(new, lo, hi)
  BY <1>1 DEF Posted
<1> QED BY <1>2 DEF new

-----------------------------------------------------------------------------
(* Starting and ending writes.                                             *)

\* Both lines depend only on what they name.
LEMMA SendLineSame ==
    ASSUME NEW s, NEW w, NEW q, SendLine(s, w, q), UNCHANGED <<wireLog, writeOps, dataQueued>>
    PROVE  SendLine(s, w, q)'
BY DEF SendLine, LeftIds

LEMMA AnswerLineSame ==
    ASSUME NEW a, NEW q, AnswerLine(a, q), UNCHANGED <<delivered, Uncalled>>
    PROVE  AnswerLine(a, q)'
BY DEF AnswerLine, DeliveredTo

\* What is left, once a write of the requests q has been started.
LEMMA LeftStarted ==
    ASSUME NEW q \in Seq(Request), writeOps' = <<StartedWrite(q)>>
    PROVE  WrittenOut' /\ (LeftIds' = Ids(q) \/ LeftIds' = <<>>)
           /\ DOMAIN writeOps' = {1}
<1>1. writeOps' # <<>> /\ writeOps'[1] = StartedWrite(q) /\ DOMAIN writeOps' = {1}
  OBVIOUS
<1>2. LeftIds' = Ids(StartedWrite(q).left)
  BY <1>1 DEF LeftIds
<1> QED BY <1>1, <1>2, IdsEmpty DEF StartedWrite, WrittenOut

\* Transmit moves what is queued, and perhaps one request more, into a write.
LEMMA TransmitOrder ==
    ASSUME NEW q \in Seq(Request), NEW ops \in Seq(WriteOp), Len(ops) = 0, Transmit(q, ops),
           NEW s \in Nat, NEW w \in Nat, NEW u \in Nat, s <= w, w <= u,
           Within(wireLog, 0, s), Within(Ids(q), w, u), UNCHANGED wireLog
    PROVE  WrittenOut' /\ SendLine(s, u, u)'
<1>1. ops = <<>>
  BY EmptySeq
<1>2. Within(Ids(dataQueued'), u, u)
  BY IdsEmpty, WithinEmpty DEF Transmit
<1>3. CASE q = <<>>
  <2>1. writeOps' = <<>>
    BY <1>1, <1>3 DEF Transmit
  <2>2. LeftIds' = <<>> /\ WrittenOut'
    BY <2>1 DEF LeftIds, WrittenOut
  <2> QED BY <1>2, <2>2, WithinEmpty DEF SendLine
<1>4. CASE q # <<>>
  <2>1. writeOps' = <<StartedWrite(q)>>
    BY <1>1, <1>4 DEF Transmit
  <2>2. WrittenOut' /\ (LeftIds' = Ids(q) \/ LeftIds' = <<>>)
    BY <2>1, LeftStarted
  <2>3. Within(Ids(q), s, u)
    BY WithinWider
  <2>4. Within(LeftIds', s, u)
    BY <2>2, <2>3, WithinEmpty
  <2> QED BY <1>2, <2>2, <2>4 DEF SendLine
<1> QED BY <1>3, <1>4

\* Operations that complete without sending take requests away at most.
LEMMA SendLineDrop ==
    ASSUME writeOps \in Seq(WriteOp), NEW s, NEW w, NEW q, SendLine(s, w, q), WrittenOut,
           UNCHANGED <<wireLog, dataQueued>>, DOMAIN writeOps' = DOMAIN writeOps,
           writeOps' \in Seq(WriteOp),
           \A i \in DOMAIN writeOps :
              \/ writeOps'[i] = writeOps[i]
              \/ writeOps'[i].left = <<>>
    PROVE  WrittenOut' /\ SendLine(s, w, q)'
<1>1. WrittenOut'
  BY DEF WrittenOut
<1>2. LeftIds' = LeftIds \/ LeftIds' = <<>>
  <2>1. DOMAIN writeOps = 1 .. Len(writeOps) /\ DOMAIN writeOps' = 1 .. Len(writeOps')
        /\ Len(writeOps) \in Nat /\ Len(writeOps') \in Nat
    BY LenProperties
  <2>2. (writeOps = <<>>) <=> (writeOps' = <<>>)
    BY <2>1, EmptySeq
  <2>3. CASE writeOps = <<>>
    BY <2>2, <2>3 DEF LeftIds
  <2>4. CASE writeOps # <<>>
    <3>1. 1 \in DOMAIN writeOps
      BY <2>1, <2>4, EmptySeq
    <3> QED BY <2>2, <2>4, <3>1, IdsEmpty DEF LeftIds
  <2> QED BY <2>3, <2>4
<1> QED BY <1>1, <1>2, WithinEmpty DEF SendLine

-----------------------------------------------------------------------------
(* The steps.                                                              *)

\* A step that moves no request.
LEMMA OrderSame ==
    ASSUME OrderInv,
           UNCHANGED <<wireLog, writeOps, dataQueued, delivered, Uncalled, strand, issued>>
    PROVE  OrderInv'
<1>1. PICK s, w, q, a \in 0 .. issued : Marks(s, w, q, a)
  BY DEF OrderInv
<1>2. SendLine(s, w, q)' /\ AnswerLine(a, q)' /\ WrittenOut'
  BY <1>1, SendLineSame, AnswerLineSame DEF Marks, OrderInv, WrittenOut
<1>3. Marks(s, w, q, a)'
  BY <1>1, <1>2 DEF Marks
<1> QED BY <1>2, <1>3 DEF OrderInv

\* A request is made: it takes the next number and the last place on the strand.
LEMMA OrderPost ==
    ASSUME TypeOK, OrderInv, NEW kind, NEW chan, Post(kind, chan),
           \/ kind = "command" /\ chan = NoChannel
           \/ kind \in {"subscribe", "unsubscribe"} /\ chan \in Channels,
           UNCHANGED <<wireLog, writeOps, dataQueued, delivered, Uncalled>>
    PROVE  OrderInv'
<1>1. PICK s, w, q, a \in 0 .. issued : Marks(s, w, q, a)
  BY DEF OrderInv
<1>2. issued \in Nat /\ issued' = issued + 1 /\ strand \in Seq(Job)
  BY DEF TypeOK, Post
<1>3. SendLine(s, w, q)' /\ AnswerLine(a, q)' /\ WrittenOut'
  BY <1>1, SendLineSame, AnswerLineSame DEF Marks, OrderInv, WrittenOut
<1> DEFINE req == [kind |-> kind, id |-> issued', chan |-> chan]
           job == [run |-> "doAsyncCommand", req |-> req]
<1>4. job \in Job /\ IsRequest(job) /\ job.req.id = issued'
  <2>1. req \in Request
    BY <1>2 DEF Request
  <2> QED BY <2>1, JobTypes DEF IsRequest
<1>5. strand' = Append(strand, job)
  BY DEF Post
<1> HIDE DEF job
<1>6. Posted(strand', q, issued')
  <2>1. Posted(strand, q, issued) /\ q \in Nat /\ q <= issued
    BY <1>1, <1>2 DEF Marks
  <2>2. issued' \in Nat /\ issued <= issued' /\ issued < issued' /\ q < issued'
    BY <1>2, <2>1
  <2> QED BY <1>2, <1>4, <1>5, <2>1, <2>2, PostedAppend
<1>7. Marks(s, w, q, a)'
  BY <1>1, <1>2, <1>3, <1>6 DEF Marks
<1> QED BY <1>1, <1>2, <1>3, <1>7 DEF OrderInv

LEMMA OrderDisconnect ==
    ASSUME TypeOK, OrderInv, Disconnect
    PROVE  OrderInv'
<1>0. writeOps \in Seq(WriteOp)
  BY DEF TypeOK, EnvTypeOK
<1>1. PICK s, w, q, a \in 0 .. issued : Marks(s, w, q, a)
  BY DEF OrderInv
<1>2. /\ UNCHANGED <<wireLog, dataQueued, strand, issued, delivered>>
      /\ handlers' = <<>>
      /\ writeOps' = [i \in DOMAIN writeOps |->
                        IF writeOps[i].st = "pending" THEN [st |-> "error", left |-> <<>>]
                                                      ELSE writeOps[i]]
  BY DEF Disconnect, Close, CloseSocket, logVars
<1>3. writeOps' \in Seq(WriteOp)
  BY CloseSocketType DEF Disconnect, Close, TypeOK
<1>4. WrittenOut' /\ SendLine(s, w, q)'
  BY <1>0, <1>1, <1>2, <1>3, SendLineDrop DEF Marks, OrderInv
<1>5. AnswerLine(a, q)'
  <2>1. Uncalled' = <<>>
    BY <1>2 DEF Uncalled
  <2> QED BY <1>1, <1>2, <2>1, WithinEmpty DEF Marks, AnswerLine, DeliveredTo
<1>6. Marks(s, w, q, a)'
  BY <1>1, <1>2, <1>4, <1>5 DEF Marks
<1> QED BY <1>1, <1>2, <1>4, <1>6 DEF OrderInv

LEMMA OrderAppCall ==
    ASSUME TypeOK, OrderInv, AppCall
    PROVE  OrderInv'
<1>1. CASE Connect
  <2>1. UNCHANGED <<wireLog, writeOps, dataQueued, delivered, Uncalled, strand, issued>>
    BY <1>1 DEF Connect, queueVars, logVars, Uncalled
  <2> QED BY <2>1, OrderSame
<1>2. CASE Disconnect
  BY <1>2, OrderDisconnect
<1>3. ASSUME NEW call, Request1(call) PROVE OrderInv'
  <2>1. UNCHANGED <<wireLog, writeOps, dataQueued, delivered, Uncalled>>
    BY <1>3 DEF Request1, loopVars, envVars, opVars, logVars, Uncalled
  <2>2. Post("command", NoChannel) \/ UNCHANGED <<issued, strand>>
    BY <1>3 DEF Request1
  <2> QED BY <2>1, <2>2, OrderPost, OrderSame
<1>4. ASSUME NEW ch \in Channels, Subscribe(ch) PROVE OrderInv'
  <2>1. UNCHANGED <<wireLog, writeOps, dataQueued, delivered, Uncalled>>
    BY <1>4 DEF Subscribe, loopVars, envVars, opVars, logVars, Uncalled
  <2>2. Post("subscribe", ch) \/ UNCHANGED <<issued, strand>>
    BY <1>4 DEF Subscribe
  <2> QED BY <2>1, <2>2, OrderPost, OrderSame
<1>5. ASSUME NEW ch \in Channels, SingleShotSubscribe(ch) PROVE OrderInv'
  <2>1. UNCHANGED <<wireLog, writeOps, dataQueued, delivered, Uncalled>>
    BY <1>5 DEF SingleShotSubscribe, loopVars, envVars, opVars, logVars, Uncalled
  <2>2. Post("subscribe", ch) \/ UNCHANGED <<issued, strand>>
    BY <1>5 DEF SingleShotSubscribe
  <2> QED BY <2>1, <2>2, OrderPost, OrderSame
<1>6. ASSUME NEW h \in held, Unsubscribe(h) PROVE OrderInv'
  <2>1. UNCHANGED <<wireLog, writeOps, dataQueued, delivered, Uncalled>>
    BY <1>6 DEF Unsubscribe, loopVars, envVars, opVars, logVars, Uncalled
  <2>2. Post("unsubscribe", h.chan) \/ UNCHANGED <<issued, strand>>
    BY <1>6 DEF Unsubscribe
  <2>3. h.chan \in Channels
    BY DEF TypeOK, Handle
  <2> QED BY <2>1, <2>2, <2>3, OrderPost, OrderSame
<1> QED BY <1>1, <1>2, <1>3, <1>4, <1>5, <1>6 DEF AppCall, Command, Publish

\* The socket takes n requests: they move from the write to the wire.
LEMMA OrderWriteSome ==
    ASSUME TypeOK, SingleWriter, OrderInv, WriteSome, UNCHANGED clientVars
    PROVE  OrderInv'
<1>0. writeOps \in Seq(WriteOp)
  BY DEF TypeOK, EnvTypeOK
<1>1. PICK s, w, q, a \in 0 .. issued : Marks(s, w, q, a)
  BY DEF OrderInv
<1> DEFINE left == writeOps[1].left
           taken(n) == SubSeq(left, 1, n)
           kept(n) == SubSeq(left, n + 1, Len(left))
           op(n) == [st |-> IF kept(n) = <<>> THEN "ok" ELSE "pending", left |-> kept(n)]
<1>2. PICK i \in DOMAIN writeOps : \E n \in 1 .. Len(writeOps[i].left) :
         LET t == SubSeq(writeOps[i].left, 1, n)
             k == SubSeq(writeOps[i].left, n + 1, Len(writeOps[i].left))
         IN  /\ wireLog' = wireLog \o Ids(t)
             /\ writeOps' = [writeOps EXCEPT ![i] =
                               [st |-> IF k = <<>> THEN "ok" ELSE "pending", left |-> k]]
  BY Zenon DEF WriteSome
<1>3. /\ DOMAIN writeOps = {1} /\ writeOps # <<>> /\ i = 1
      /\ left \in Seq(Request) /\ LeftIds = Ids(left)
  <2>1. Len(writeOps) \in {0, 1} /\ DOMAIN writeOps = 1 .. Len(writeOps)
    BY <1>0, LenProperties DEF SingleWriter
  <2>2. Len(writeOps) = 1
    BY <1>2, <2>1
  <2>3. DOMAIN writeOps = {1} /\ writeOps # <<>>
    BY <2>1, <2>2, EmptySeq
  <2>4. writeOps[1] \in WriteOp
    BY <1>0, <2>2, ElementOfSeq
  <2> QED BY <1>2, <2>3, <2>4 DEF LeftIds, WriteOp
<1>4. PICK n \in 1 .. Len(left) :
         /\ wireLog' = wireLog \o Ids(taken(n))
         /\ writeOps' = [writeOps EXCEPT ![1] = op(n)]
  BY <1>2, <1>3
<1>5. /\ Len(Ids(left)) = Len(left) /\ n \in 1 .. Len(Ids(left))
      /\ Ids(taken(n)) = SubSeq(Ids(left), 1, n)
      /\ Ids(kept(n)) = SubSeq(Ids(left), n + 1, Len(Ids(left)))
  BY <1>3, <1>4, IdsType, IdsCut
<1> HIDE DEF taken, kept
<1>6. writeOps' # <<>> /\ writeOps'[1] = op(n) /\ DOMAIN writeOps' = {1}
  <2>1. DOMAIN writeOps' = {1} /\ writeOps'[1] = op(n)
    BY <1>3, <1>4
  <2>2. DOMAIN <<>> = {}
    BY EmptySeq, LenProperties
  <2> QED BY <2>1, <2>2
<1>7. WrittenOut' /\ LeftIds' = Ids(kept(n))
  BY <1>6, IdsEmpty DEF WrittenOut, LeftIds
<1> HIDE DEF left, op
<1>8. /\ s \in Nat /\ w \in Nat /\ q \in Nat /\ issued \in Nat
      /\ Within(Ids(left), s, w) /\ Within(wireLog, 0, s) /\ s <= w
  BY <1>1, <1>3 DEF Marks, SendLine, TypeOK
<1>9. PICK m \in Nat :
         /\ s < m /\ m <= w
         /\ Within(Ids(taken(n)), s, m) /\ Within(LeftIds', m, w)
  BY <1>5, <1>7, <1>8, WithinCut
<1>10. Within(wireLog', 0, m)
  <2>1. 0 <= s /\ s <= m
    BY <1>8, <1>9
  <2> QED BY <1>4, <1>8, <1>9, <2>1, WithinConcat
<1>11. UNCHANGED <<dataQueued, strand, issued, delivered, Uncalled>>
  BY DEF clientVars, queueVars, historyVars, loopVars, Uncalled
<1>12. SendLine(m, w, q)' /\ AnswerLine(a, q)'
  BY <1>1, <1>9, <1>10, <1>11, AnswerLineSame DEF Marks, SendLine
<1>13. Marks(m, w, q, a)' /\ m \in 0 .. issued'
  BY <1>1, <1>8, <1>9, <1>11, <1>12 DEF Marks
<1> QED BY <1>1, <1>7, <1>11, <1>13 DEF OrderInv

LEMMA OrderEnvironment ==
    ASSUME TypeOK, SingleWriter, OrderInv, Environment
    PROVE  OrderInv'
<1>0. UNCHANGED <<dataQueued, delivered, Uncalled, strand, issued>>
  BY DEF Environment, clientVars, queueVars, historyVars, loopVars, Uncalled
<1>1. CASE WriteSome
  BY <1>1, OrderWriteSome DEF Environment
<1>2. CASE WriteFails
  <2>1. PICK i \in DOMAIN writeOps :
           writeOps' = [writeOps EXCEPT ![i] = [st |-> "error", left |-> <<>>]]
    BY <1>2 DEF WriteFails
  <2>2. PICK s, w, q, a \in 0 .. issued : Marks(s, w, q, a)
    BY DEF OrderInv
  <2>3. writeOps \in Seq(WriteOp) /\ writeOps' \in Seq(WriteOp)
    BY <2>1, ReplaceType, OpTypes, EmptySeq DEF TypeOK, EnvTypeOK
  <2>4. UNCHANGED wireLog
    BY <1>2 DEF WriteFails, logVars
  <2>5. WrittenOut' /\ SendLine(s, w, q)'
    BY <1>0, <2>1, <2>2, <2>3, <2>4, SendLineDrop DEF Marks, OrderInv
  <2>6. Marks(s, w, q, a)'
    BY <1>0, <2>2, <2>5, AnswerLineSame DEF Marks
  <2> QED BY <1>0, <2>5, <2>6 DEF OrderInv
<1>3. ASSUME ~WriteSome, ~WriteFails PROVE OrderInv'
  <2>1. UNCHANGED <<wireLog, writeOps>>
    BY <1>3 DEF Environment, ConnectDone, ReadSome, ReadFails, ServerReply, ServerPublish,
       LinkDrops, opVars, logVars
  <2> QED BY <1>0, <2>1, OrderSame
<1> QED BY <1>1, <1>2, <1>3

LEMMA OrderAsyncWrite ==
    ASSUME TypeOK, SingleWriter, OrderInv, AsyncWrite
    PROVE  OrderInv'
<1>0. writeOps \in Seq(WriteOp) /\ dataQueued \in Seq(Request) /\ issued \in Nat
  BY DEF TypeOK, EnvTypeOK
<1>1. PICK s, w, q, a \in 0 .. issued : Marks(s, w, q, a)
  BY DEF OrderInv
<1>2. UNCHANGED <<wireLog, delivered, Uncalled, strand, issued>>
  BY DEF AsyncWrite, logVars, loopVars, Uncalled
<1>3. PICK i \in DOMAIN writeOps :
         \/ Transmit(dataQueued, RemoveAt(writeOps, i))
         \/ writeOps' = RemoveAt(writeOps, i) /\ UNCHANGED dataQueued
  BY DEF AsyncWrite
<1>4. RemoveAt(writeOps, i) \in Seq(WriteOp) /\ Len(RemoveAt(writeOps, i)) = 0
  BY WriterEnd
<1>5. CASE Transmit(dataQueued, RemoveAt(writeOps, i))
  <2>1. /\ s \in Nat /\ w \in Nat /\ q \in Nat /\ s <= w /\ w <= q /\ s <= q /\ q <= q
        /\ Within(wireLog, 0, s) /\ Within(Ids(dataQueued), w, q)
    BY <1>0, <1>1 DEF Marks, SendLine
  <2>2. WrittenOut' /\ SendLine(s, q, q)'
    BY <1>0, <1>2, <1>4, <1>5, <2>1, TransmitOrder
  <2>3. Marks(s, q, q, a)'
    BY <1>1, <1>2, <2>1, <2>2, AnswerLineSame DEF Marks
  <2> QED BY <1>1, <1>2, <2>2, <2>3 DEF OrderInv
<1>6. CASE writeOps' = RemoveAt(writeOps, i) /\ UNCHANGED dataQueued
  <2>1. writeOps' = <<>>
    BY <1>4, <1>6, EmptySeq
  <2>2. WrittenOut' /\ LeftIds' = <<>>
    BY <2>1 DEF WrittenOut, LeftIds
  <2>3. SendLine(s, w, q)'
    BY <1>1, <1>2, <1>6, <2>2, WithinEmpty DEF Marks, SendLine
  <2>4. Marks(s, w, q, a)'
    BY <1>1, <1>2, <2>3, AnswerLineSame DEF Marks
  <2> QED BY <1>1, <1>2, <2>2, <2>4 DEF OrderInv
<1> QED BY <1>3, <1>5, <1>6

\* The oldest request leaves the strand for dataQueued, or at once for a write, and its
\* handler for `handlers`.
LEMMA OrderDoAsyncCommand ==
    ASSUME TypeOK, SingleWriter, OrderInv, DoAsyncCommand
    PROVE  OrderInv'
<1>0. /\ writeOps \in Seq(WriteOp) /\ dataQueued \in Seq(Request) /\ issued \in Nat
      /\ strand \in Seq(Job)
  BY DEF TypeOK, EnvTypeOK
<1>1. PICK s, w, q, a \in 0 .. issued : Marks(s, w, q, a)
  BY DEF OrderInv
<1> DEFINE req == Head(strand).req
<1>2. /\ strand # <<>> /\ IsRequest(Head(strand)) /\ strand' = Tail(strand)
      /\ UNCHANGED <<wireLog, delivered, issued, frame>>
      /\ frame = "none" /\ handlers' = Append(handlers, req.id)
  BY DEF DoAsyncCommand, IsRequest, historyVars, logVars, loopVars
<1>3. req \in Request /\ req.id \in Nat
  <2>1. Head(strand) \in Job
    BY <1>0, <1>2, HeadTailProperties
  <2> QED BY <1>2, <2>1, JobTypes, ReplyTypes DEF IsRequest
<1>4. /\ s \in Nat /\ w \in Nat /\ q \in Nat /\ a \in Nat
      /\ s <= w /\ w <= q /\ q <= issued /\ a <= q
      /\ Within(wireLog, 0, s) /\ Within(LeftIds, s, w) /\ Within(Ids(dataQueued), w, q)
      /\ Within(Uncalled, a, q) /\ Posted(strand, q, issued)
  BY <1>0, <1>1 DEF Marks, SendLine, AnswerLine
<1>5. PICK k \in Nat : k = req.id /\ q < k /\ k <= issued /\ Posted(strand', k, issued)
  BY <1>0, <1>2, <1>3, <1>4, PostedTail
<1> HIDE DEF req
<1>6. Within(Ids(Append(dataQueued, req)), w, k)
  <2>1. Ids(Append(dataQueued, req)) = Append(Ids(dataQueued), k)
    BY <1>0, <1>3, <1>5, IdsAppend
  <2> QED BY <1>3, <1>4, <1>5, <2>1, WithinAppend
<1>7. AnswerLine(a, k)'
  <2>1. Uncalled = handlers /\ Uncalled' = Append(handlers, k)
    BY <1>2, <1>5 DEF Uncalled
  <2>2. Within(Uncalled', a, k)
    BY <1>3, <1>4, <1>5, <2>1, WithinAppend
  <2> QED BY <1>1, <1>2, <2>2 DEF AnswerLine, DeliveredTo, Marks
<1>8. WrittenOut' /\ (SendLine(s, k, k)' \/ SendLine(s, w, k)')
  <2>1. CASE WriterIdle
    <3>1. Transmit(Append(dataQueued, req), writeOps) /\ Len(writeOps) = 0
      BY <2>1 DEF DoAsyncCommand, WriterIdle, SingleWriter, req
    <3>2. Append(dataQueued, req) \in Seq(Request) /\ w <= k
      BY <1>0, <1>3, <1>4, <1>5, AppendProperties
    <3> QED BY <1>0, <1>2, <1>3, <1>4, <1>6, <3>1, <3>2, TransmitOrder
  <2>2. CASE ~WriterIdle
    <3>1. dataQueued' = Append(dataQueued, req) /\ UNCHANGED writeOps
      BY <2>2 DEF DoAsyncCommand, req
    <3> QED BY <1>2, <1>4, <1>6, <3>1 DEF SendLine, LeftIds, OrderInv, WrittenOut
  <2> QED BY <2>1, <2>2
<1>9. Marks(s, k, k, a)' \/ Marks(s, w, k, a)'
  <2>1. s <= k /\ w <= k /\ a <= k /\ k <= issued' /\ s <= w /\ k <= k
    BY <1>2, <1>3, <1>4, <1>5
  <2> QED BY <1>2, <1>5, <1>7, <1>8, <2>1 DEF Marks
<1>10. /\ s \in 0 .. issued' /\ w \in 0 .. issued' /\ a \in 0 .. issued' /\ k \in 0 .. issued'
  BY <1>0, <1>1, <1>2, <1>3, <1>5
<1> QED BY <1>8, <1>9, <1>10 DEF OrderInv

\* A message handler has been called: its job is taken from the strand or shortened.
LEMMA OrderCallMessageHandler ==
    ASSUME TypeOK, OrderInv, CallMessageHandler
    PROVE  OrderInv'
<1>0. strand \in Seq(Job) /\ issued \in Nat
  BY DEF TypeOK
<1>1. PICK s, w, q, a \in 0 .. issued : Marks(s, w, q, a)
  BY DEF OrderInv
<1> DEFINE job == Head(strand)
<1>2. /\ strand # <<>> /\ job.run = "msgHandler"
      /\ UNCHANGED <<wireLog, writeOps, dataQueued, delivered, Uncalled, issued>>
  BY DEF CallMessageHandler, envVars, opVars, logVars, loopVars, Uncalled
<1>3. PICK h \in job.to :
         strand' = IF job.to = {h} THEN Tail(strand)
                   ELSE [strand EXCEPT ![1] = [job EXCEPT !.to = job.to \ {h}]]
  BY DEF CallMessageHandler
<1> DEFINE less == [job EXCEPT !.to = job.to \ {h}]
<1>4. /\ 1 \in DOMAIN strand /\ strand[1] = job /\ ~IsRequest(strand[1])
      /\ less \in Job /\ ~IsRequest(less)
  <2>1. 1 \in DOMAIN strand /\ strand[1] = job /\ job \in Job
    BY <1>0, <1>2, LenProperties, EmptySeq, HeadTailProperties
  <2>2. job.to \in SUBSET Handle
    BY <1>2, <2>1, JobTypes
  <2>3. less \in Job /\ less.run = "msgHandler"
    BY <1>2, <2>1, <2>2 DEF Job
  <2> QED BY <1>2, <2>1, <2>3 DEF IsRequest
<1> HIDE DEF job, less
<1>5. Posted(strand', q, issued)
  <2>1. Posted(strand, q, issued) /\ q \in Nat
    BY <1>0, <1>1 DEF Marks
  <2>2. Posted(Tail(strand), q, issued)
    BY <1>0, <1>2, <2>1, PostedTail
  <2>3. Posted([strand EXCEPT ![1] = less], q, issued)
    BY <1>0, <1>4, <2>1, PostedReplace
  <2> QED BY <1>3, <2>2, <2>3 DEF less
<1>6. WrittenOut' /\ Marks(s, w, q, a)'
  BY <1>1, <1>2, <1>5, SendLineSame, AnswerLineSame DEF Marks, OrderInv, WrittenOut
<1> QED BY <1>1, <1>2, <1>6 DEF OrderInv

\* The handler at the front is called: it is no longer to be called.
LEMMA OrderCallFront ==
    ASSUME TypeOK, OrderInv, NEW v \in Reply, frame = "parse", CallFront(v), UNCHANGED handlers,
           UNCHANGED <<wireLog, writeOps, dataQueued, issued>>
    PROVE  OrderInv'
<1>0. delivered \in Seq([handler : Nat, reply : Reply]) /\ issued \in Nat
  BY DEF TypeOK
<1>1. PICK s, w, q, a \in 0 .. issued : Marks(s, w, q, a)
  BY DEF OrderInv
<1>2. /\ handlers # <<>> /\ frame' = "handler" /\ UNCHANGED strand
      /\ delivered' = Append(delivered, [handler |-> Head(handlers), reply |-> v])
  BY DEF CallFront
<1>3. Uncalled = handlers /\ Uncalled' = Tail(handlers)
  BY <1>2 DEF Uncalled
<1>4. /\ a \in Nat /\ q \in Nat /\ Within(Uncalled, a, q) /\ Within(DeliveredTo, 0, a)
  BY <1>0, <1>1 DEF Marks, AnswerLine
<1>5. PICK d \in Nat : d = Head(handlers) /\ a < d /\ d <= q /\ Within(Uncalled', d, q)
  BY <1>2, <1>3, <1>4, WithinTail
<1>6. Within(DeliveredTo', 0, d)
  <2> DEFINE new == [handler |-> Head(handlers), reply |-> v]
  <2>1. new \in [handler : Nat, reply : Reply] /\ new.handler = d
    BY <1>5
  <2> HIDE DEF new
  <2>2. /\ DOMAIN delivered = 1 .. Len(delivered) /\ Len(delivered) \in Nat
        /\ DOMAIN delivered' = 1 .. Len(delivered) + 1
        /\ \A i \in 1 .. Len(delivered) : delivered'[i] = delivered[i]
        /\ delivered'[Len(delivered) + 1] = new
    BY <1>0, <1>2, <2>1, AppendProperties, LenProperties DEF new
  <2>3. /\ DeliveredTo \in Seq(Nat) /\ Len(DeliveredTo) = Len(delivered)
        /\ \A i \in 1 .. Len(delivered) : DeliveredTo[i] = delivered[i].handler
    <3>0. \A i \in DOMAIN delivered : delivered[i].handler \in Nat
      <4>1. \A i \in DOMAIN delivered : delivered[i] \in [handler : Nat, reply : Reply]
        BY <1>0, <2>2, ElementOfSeq
      <4> QED BY <4>1
    <3>1. DeliveredTo \in [DOMAIN delivered -> Nat]
      BY <3>0 DEF DeliveredTo
    <3> QED BY <1>0, <2>2, <3>1, MappedSeq DEF DeliveredTo
  <2>4. /\ Append(DeliveredTo, d) \in Seq(Nat)
        /\ Len(Append(DeliveredTo, d)) = Len(delivered) + 1
        /\ \A i \in 1 .. Len(delivered) : Append(DeliveredTo, d)[i] = DeliveredTo[i]
        /\ Append(DeliveredTo, d)[Len(delivered) + 1] = d
    BY <2>3, AppendProperties
  <2>5. \A i \in 1 .. Len(delivered) + 1 : delivered'[i].handler = Append(DeliveredTo, d)[i]
    <3>1. \A i \in 1 .. Len(delivered) + 1 :
             i \in 1 .. Len(delivered) \/ i = Len(delivered) + 1
      BY <2>2
    <3> QED BY <2>1, <2>2, <2>3, <2>4, <3>1
  <2>6. /\ DOMAIN Append(DeliveredTo, d) = 1 .. Len(delivered) + 1
        /\ Append(DeliveredTo, d) \in [1 .. Len(delivered) + 1 -> Nat]
    BY <2>4, LenProperties
  <2>7. DeliveredTo' = Append(DeliveredTo, d)
    BY <2>2, <2>5, <2>6 DEF DeliveredTo
  <2> QED BY <1>4, <1>5, <2>7, WithinAppend
<1>7. WrittenOut' /\ SendLine(s, w, q)'
  BY <1>1, SendLineSame DEF Marks, OrderInv, WrittenOut
<1>8. Marks(s, w, q, d)' /\ d \in 0 .. issued'
  BY <1>0, <1>1, <1>2, <1>5, <1>6, <1>7 DEF Marks, AnswerLine
<1> QED BY <1>1, <1>7, <1>8 DEF OrderInv

\* Message handlers are posted behind whatever is on the strand.
LEMMA OrderPostMessage ==
    ASSUME TypeOK, OrderInv, NEW v \in Reply, PostMessage(v), UNCHANGED handlers,
           UNCHANGED <<wireLog, writeOps, dataQueued, issued>>
    PROVE  OrderInv'
<1>0. strand \in Seq(Job)
  BY DEF TypeOK
<1>1. PICK s, w, q, a \in 0 .. issued : Marks(s, w, q, a)
  BY DEF OrderInv
<1>2. UNCHANGED <<delivered, Uncalled>>
  BY DEF PostMessage, Uncalled
<1>3. Posted(strand', q, issued')
  <2> DEFINE jobs == IF Regular(v.chan) = {} THEN <<>> ELSE <<MsgJob(Regular(v.chan), v.id)>>
             one(it) == <<MsgJob({it}, v.id)>>
  <2>1. v.id \in Nat /\ Regular(v.chan) \in SUBSET Handle
        /\ singleShotMsgHandlers \in SUBSET Handle
    BY DEF TypeOK, Reply, Regular
  <2>2. \A to \in SUBSET Handle : /\ <<MsgJob(to, v.id)>> \in Seq(Job)
                                  /\ DOMAIN <<MsgJob(to, v.id)>> = {1}
                                  /\ ~IsRequest(<<MsgJob(to, v.id)>>[1])
    <3> SUFFICES ASSUME NEW to \in SUBSET Handle
                 PROVE  /\ <<MsgJob(to, v.id)>> \in Seq(Job)
                        /\ DOMAIN <<MsgJob(to, v.id)>> = {1}
                        /\ ~IsRequest(<<MsgJob(to, v.id)>>[1])
      OBVIOUS
    <3>1. MsgJob(to, v.id) \in Job /\ ~IsRequest(MsgJob(to, v.id))
      BY <2>1, JobTypes DEF MsgJob, IsRequest
    <3> QED BY <3>1
  <2>3. jobs \in Seq(Job) /\ \A i \in DOMAIN jobs : ~IsRequest(jobs[i])
    <3>1. CASE Regular(v.chan) = {}
      <4>1. jobs = <<>> /\ DOMAIN <<>> = {} /\ <<>> \in Seq(Job)
        BY <3>1, EmptySeq
      <4> QED BY <4>1
    <3>2. CASE Regular(v.chan) # {}
      BY <2>1, <2>2, <3>2
    <3> QED BY <3>1, <3>2
  <2> HIDE DEF jobs
  <2>4. Posted(strand, q, issued)
    BY <1>1 DEF Marks
  <2>5. CASE strand' = strand \o jobs
    BY <1>0, <2>3, <2>4, <2>5, PostedOther
  <2>6. ASSUME NEW it \in singleShotMsgHandlers, strand' = strand \o one(it) \o jobs
        PROVE  Posted(strand', q, issued')
    <3>1. one(it) \in Seq(Job) /\ \A i \in DOMAIN one(it) : ~IsRequest(one(it)[i])
      BY <2>1, <2>2, <2>6
    <3> HIDE DEF one
    <3>2. strand \o one(it) \in Seq(Job)
      BY <1>0, <3>1, ConcatProperties
    <3>3. Posted(strand \o one(it), q, issued)
      BY <1>0, <2>4, <3>1, PostedOther
    <3>4. Posted((strand \o one(it)) \o jobs, q, issued)
      BY <2>3, <3>2, <3>3, PostedOther
    <3> QED BY <2>6, <3>4
  <2> QED BY <2>5, <2>6 DEF PostMessage, jobs
<1>4. WrittenOut' /\ Marks(s, w, q, a)'
  BY <1>1, <1>2, <1>3, SendLineSame, AnswerLineSame DEF Marks, OrderInv, WrittenOut
<1> QED BY <1>1, <1>4 DEF OrderInv

LEMMA OrderParseChunk ==
    ASSUME TypeOK, OrderInv, ParseChunk
    PROVE  OrderInv'
<1>1. Head(rest) \in Unit
  BY HeadTailProperties DEF ParseChunk, TypeOK
<1>2. PICK out \in Parse(Head(rest)) :
          /\ redisParser' = out.parser
          /\ CASE out.result = "Completed" ->
                    rest' = Remains(out.left) /\ DoProcessMessage(out.value)
               [] out.result = "Incompleted" ->
                    /\ rest' = Tail(rest)
                    /\ UNCHANGED <<frame, strand, singleShotMsgHandlers, delivered, reported>>
               [] out.result = "Error" ->
                    /\ rest' = <<>> /\ frame' = "none" /\ Report1("parser")
                    /\ UNCHANGED <<strand, singleShotMsgHandlers, delivered>>
  BY DEF ParseChunk
<1>3. out.value \in Reply /\ out.result \in {"Completed", "Incompleted", "Error"}
  BY <1>1, ParseType DEF TypeOK
<1>4. UNCHANGED <<handlers, wireLog, writeOps, dataQueued, issued>> /\ frame = "parse"
  BY DEF ParseChunk, envVars, opVars, logVars
<1>5. CASE out.result = "Completed"
  <2>1. CASE PostMessage(out.value)
    BY <1>3, <1>4, <2>1, OrderPostMessage
  <2>2. CASE CallFront(out.value)
    BY <1>3, <1>4, <2>2, OrderCallFront
  <2>3. CASE Refuse
    <3>1. UNCHANGED <<strand, delivered, Uncalled>>
      BY <1>4, <2>3 DEF Refuse, Uncalled
    <3> QED BY <1>4, <3>1, OrderSame
  <2> QED BY <1>2, <1>5, <2>1, <2>2, <2>3 DEF DoProcessMessage
<1>6. CASE out.result # "Completed"
  <2>1. UNCHANGED <<strand, delivered, Uncalled>>
    BY <1>2, <1>3, <1>4, <1>6 DEF Uncalled
  <2> QED BY <1>4, <2>1, OrderSame
<1> QED BY <1>5, <1>6

LEMMA OrderHandler ==
    ASSUME TypeOK, SingleWriter, OrderInv, Handler
    PROVE  OrderInv'
<1>1. CASE DoAsyncCommand
  BY <1>1, OrderDoAsyncCommand
<1>2. CASE CallMessageHandler
  BY <1>2, OrderCallMessageHandler
<1>3. CASE AsyncWrite
  BY <1>3, OrderAsyncWrite
<1>4. CASE HandleAsyncConnect
  <2>1. UNCHANGED <<wireLog, writeOps, dataQueued, delivered, Uncalled, strand, issued>>
    BY <1>4 DEF HandleAsyncConnect, queueVars, logVars, Uncalled
  <2> QED BY <2>1, OrderSame
<1>5. CASE ConnectHandlerReturns \/ ReadAgain
  <2>1. UNCHANGED <<wireLog, writeOps, dataQueued, delivered, Uncalled, strand, issued>>
    BY <1>5 DEF ConnectHandlerReturns, ReadAgain, ProcessMessage, queueVars, historyVars,
       logVars, Uncalled
  <2> QED BY <2>1, OrderSame
<1>6. CASE AsyncRead
  <2>1. UNCHANGED <<wireLog, writeOps, dataQueued, delivered, handlers, strand, issued>>
    BY <1>6 DEF AsyncRead, queueVars, logVars
  <2>2. frame = "none" /\ frame' \in {"none", "parse"}
    BY <1>6 DEF AsyncRead
  <2>3. UNCHANGED Uncalled
    BY <2>1, <2>2 DEF Uncalled
  <2> QED BY <2>1, <2>3, OrderSame
<1>7. CASE ParseChunk
  BY <1>7, OrderParseChunk
<1>8. CASE HandlerReturns
  <2>1. UNCHANGED <<wireLog, writeOps, dataQueued, delivered, strand, issued>>
    BY <1>8 DEF HandlerReturns, historyVars, envVars, opVars, logVars
  <2>2. UNCHANGED Uncalled
    BY <1>8 DEF HandlerReturns, Uncalled
  <2> QED BY <2>1, <2>2, OrderSame
<1>9. CASE ErrorHandlerReturns
  <2>1. UNCHANGED <<wireLog, writeOps, dataQueued, delivered, Uncalled, strand, issued>>
    BY <1>9 DEF ErrorHandlerReturns, queueVars, historyVars, envVars, opVars, logVars, Uncalled
  <2> QED BY <2>1, OrderSame
<1> QED BY <1>1, <1>2, <1>3, <1>4, <1>5, <1>6, <1>7, <1>8, <1>9 DEF Handler, ReadLoop

-----------------------------------------------------------------------------
(* The theorems.                                                           *)

\* The stages of a request hold disjoint and ascending ranges of numbers.
THEOREM OrderKept == Spec => []OrderInv
<1>1. Init => OrderInv
  <2> SUFFICES ASSUME Init PROVE OrderInv
    OBVIOUS
  <2>1. /\ wireLog = <<>> /\ writeOps = <<>> /\ dataQueued = <<>> /\ strand = <<>>
        /\ delivered = <<>> /\ handlers = <<>> /\ issued = 0
    BY DEF Init, EnvInit
  <2>2. LeftIds = <<>> /\ Uncalled = <<>> /\ WrittenOut
    BY <2>1 DEF LeftIds, Uncalled, WrittenOut
  <2>3. DeliveredTo = <<>>
    BY <2>1 DEF DeliveredTo
  <2>4. SendLine(0, 0, 0) /\ AnswerLine(0, 0) /\ Posted(strand, 0, issued)
    BY <2>1, <2>2, <2>3, WithinEmpty, IdsEmpty DEF SendLine, AnswerLine, Posted
  <2>5. Marks(0, 0, 0, 0)
    BY <2>1, <2>4 DEF Marks
  <2> QED BY <2>1, <2>2, <2>5 DEF OrderInv
<1>2. TypeOK /\ SingleWriter /\ OrderInv /\ [Next]_vars => OrderInv'
  <2> SUFFICES ASSUME TypeOK, SingleWriter, OrderInv, [Next]_vars PROVE OrderInv'
    OBVIOUS
  <2>1. CASE AppCall
    BY <2>1, OrderAppCall
  <2>2. CASE Handler
    BY <2>2, OrderHandler
  <2>3. CASE Environment
    BY <2>3, OrderEnvironment
  <2>4. CASE UNCHANGED vars
    <3>1. UNCHANGED <<wireLog, writeOps, dataQueued, delivered, Uncalled, strand, issued>>
      BY <2>4 DEF vars, envVars, opVars, logVars, clientVars, queueVars, loopVars,
         historyVars, Uncalled
    <3> QED BY <3>1, OrderSame
  <2> QED BY <2>1, <2>2, <2>3, <2>4 DEF Next
<1> QED BY <1>1, <1>2, TypeCorrect, OneWriter, PTL DEF Spec

\* However the application connects, disconnects and calls, and whatever fails: a
\* request is given to the socket at most once, and after every older one that is.
THEOREM SentInOrder == Spec => []WireOrder
<1>1. OrderInv => WireOrder
  BY DEF OrderInv, Marks, SendLine, Within, Ascending, WireOrder
<1> QED BY <1>1, OrderKept, PTL

\* Likewise a reply handler is called at most once, and after every older one that is.
THEOREM CalledInOrder == Spec => []HandlersInOrder
<1>1. OrderInv => HandlersInOrder
  BY DEF OrderInv, Marks, AnswerLine, Within, Ascending, DeliveredTo, HandlersInOrder
<1> QED BY <1>1, OrderKept, PTL
=============================================================================
