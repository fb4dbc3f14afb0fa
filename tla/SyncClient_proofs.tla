------------------------- MODULE SyncClient_proofs -------------------------
(***************************************************************************)
(* What RedisSyncClient and Pipeline promise to an application that throws *)
(* the client away after a failure, for every value of the bounds.         *)
(*                                                                         *)
(* The requests of a call are the last ones made.  At any moment they are, *)
(* from the oldest to the youngest: answered (responses), on their way     *)
(* back (the parser, buf, the wire), with the server, and not yet sent     *)
(* (toWrite).  InStep says that these stages follow each other without a   *)
(* gap, which is what makes the next bytes the reply to Head(toRead).      *)
(***************************************************************************)
EXTENDS SyncClient, SeqLemmas

\* A call's requests are the last that were made, numbered without a gap.
LastOnes(requests) == \A i \in DOMAIN requests : requests[i] = issued - Len(requests) + i

CallInv ==
    /\ LastOnes(toRead) /\ LastOnes(toWrite)
    /\ Len(toWrite) <= Len(toRead)
    /\ loop = "write" <=> toWrite # <<>>
    /\ Len(responses) + Len(toRead) <= issued

\* The reply that the parser is at, or that comes next; the youngest request sent; and
\* the pieces of replies under way, oldest first.
Wanted == issued - Len(toRead) + 1
Asked  == issued - Len(toWrite)
Stream == buf \o toClient

\* In the pieces u, first and second halves make whole replies, with successive numbers.
Consecutive(u) ==
    \A i \in 1 .. Len(u) - 1 :
       IF u[i].part = "first" THEN u[i + 1].reply = u[i].reply /\ u[i + 1].part = "second"
       ELSE u[i + 1].reply = u[i].reply + 1 /\ u[i + 1].part # "second"

\* They start with the reply w, or its second half.
StartsWith(u, w, second) ==
    u # <<>> => u[1].reply = w /\ (u[1].part = "second" <=> second)

\* None is later than the request `last`, and none is what was left of another.
UpTo(u, last) == \A i \in DOMAIN u : u[i].reply <= last /\ u[i].part # "rest"

\* What has come back up to now, when nothing was lost.
Answered == IF Stream = <<>> THEN Wanted - 1 ELSE Stream[Len(Stream)].reply

ServerInStep ==
    /\ IF Stream = <<>> THEN redisParser = Nil ELSE Stream[Len(Stream)].part # "first"
    /\ \A i \in DOMAIN toServer : /\ ~toServer[i].cut
                                  /\ toServer[i].id = Asked - Len(toServer) + i
    /\ Asked - Len(toServer) = Answered

InStep ==
    /\ redisParser \in {Nil, Wanted}
    /\ redisParser # Nil => toRead # <<>>
    /\ Consecutive(Stream) /\ StartsWith(Stream, Wanted, redisParser # Nil)
    /\ UpTo(Stream, Asked)
    /\ IF link = "up" THEN ServerInStep ELSE toServer = <<>>

Answers(replies, last) == \A i \in DOMAIN replies : replies[i] = last - Len(replies) + i

DiscardInv ==
    /\ loop # "none" => ~failed /\ ~ec
    /\ ~failed => InStep
    /\ Answers(responses, issued - Len(toRead))
    /\ RepliesMatch

SyncInv == TypeOK /\ CallInv /\ DiscardInv

-----------------------------------------------------------------------------
(* Types.                                                                  *)

TypedInv == TypeOK /\ CallInv

LEMMA OutcomeTypes ==
    ASSUME redisParser \in Reply, NEW unit \in Unit, NEW out \in Outcomes(unit)
    PROVE  /\ out.result \in {"Completed", "Incompleted", "Error"}
           /\ out.value \in Reply /\ out.parser \in Reply /\ out.left \in Nat
<1>1. Spare(unit) \in Int /\ \A n \in MayLeave(unit) : n \in Nat
  <2>1. MaxExtra \in Nat /\ unit.reply \in Int
    BY SyncAssumption DEF SyncAssumption, Unit, Reply, Garbage
  <2>2. Spare(unit) \in Int
    BY <2>1 DEF Spare
  <2> QED BY <2>2 DEF MayLeave
<1> QED BY <1>1 DEF Outcomes, Reply, Unit, Nil, Garbage

\* What is left of a piece, and of everything read.
LEMMA UnparsedTypes ==
    ASSUME buf \in Seq(Unit), buf # <<>>, NEW n \in Nat
    PROVE  Leftover(n) \in Unit /\ Unparsed(n) \in Seq(Unit)
<1>1. Leftover(n) \in Unit
  BY DEF Leftover, Unit, Reply
<1>2. Tail(buf) \in Seq(Unit)
  BY HeadTailProperties
<1>3. <<Leftover(n)>> \in Seq(Unit)
  BY <1>1
<1>4. <<Leftover(n)>> \o Tail(buf) \in Seq(Unit)
  BY <1>2, <1>3, ConcatProperties
<1> QED BY <1>1, <1>2, <1>4 DEF Unparsed

LEMMA PieceTypes ==
    ASSUME NEW id \in Reply, NEW p \in Pieces(id)
    PROVE  p \in Seq(Unit)
<1>1. \A part \in {"whole", "first", "second"} : [reply |-> id, part |-> part] \in Unit
  BY DEF Unit
<1>2. CASE p = <<[reply |-> id, part |-> "whole"]>>
  BY <1>1, <1>2
<1>3. CASE p = <<[reply |-> id, part |-> "first"], [reply |-> id, part |-> "second"]>>
  BY <1>1, <1>3
<1> QED BY <1>2, <1>3 DEF Pieces

LEMMA TypedInit == Init => TypedInv
<1> SUFFICES ASSUME Init PROVE TypedInv
  OBVIOUS
<1>1. TypeOK
  BY EmptySeq DEF Init, TypeOK, Reply, Nil
<1>2. CallInv
  BY EmptySeq DEF Init, CallInv, LastOnes
<1> QED BY <1>1, <1>2 DEF TypedInv

\* What the steps outside of the calls' loops leave alone.
LEMMA CallInvKept ==
    ASSUME CallInv, UNCHANGED <<callVars, issued>>
    PROVE  CallInv'
BY DEF CallInv, LastOnes, callVars

LEMMA ConnectTyped == TypedInv /\ Connect => TypedInv'
<1> SUFFICES ASSUME TypedInv, Connect PROVE TypedInv'
  OBVIOUS
<1>1. CallInv'
  BY CallInvKept DEF Connect, TypedInv
<1>2. TypeOK'
  <2>1. CASE ConnectSucceeds
    BY <2>1, EmptySeq DEF Connect, ConnectSucceeds, Turn, TypedInv, TypeOK, callVars, Refused
  <2>2. CASE ConnectFails
    BY <2>2 DEF Connect, ConnectFails, Turn, TypedInv, TypeOK, callVars
  <2> QED BY <2>1, <2>2 DEF Connect
<1> QED BY <1>1, <1>2 DEF TypedInv

LEMMA TurnTyped == TypedInv /\ (Disconnect \/ Discard) => TypedInv'
<1> SUFFICES ASSUME TypedInv, Disconnect \/ Discard PROVE TypedInv'
  OBVIOUS
<1>1. CallInv'
  BY CallInvKept DEF Disconnect, Discard, TypedInv
<1>2. /\ state' \in {"Closed", "Unconnected"} /\ link' = "closed"
      /\ toServer' = <<>> /\ toClient' = <<>> /\ failed' = FALSE /\ turns' = turns + 1
      /\ UNCHANGED <<callVars, ec, issued, answers, returned>>
      /\ (redisParser' = redisParser /\ buf' = buf) \/ (redisParser' = Nil /\ buf' = <<>>)
  <2>1. CASE Disconnect
    BY <2>1, Zenon DEF Disconnect, Close, Turn
  <2>2. CASE Discard
    BY <2>2, Zenon DEF Discard, Turn
  <2> QED BY <2>1, <2>2
<1>3. redisParser' \in Reply /\ buf' \in Seq(Unit)
  <2>1. Nil \in Reply /\ <<>> \in Seq(Unit)
    BY EmptySeq DEF Reply, Nil
  <2> QED BY <1>2, <2>1 DEF TypedInv, TypeOK
<1>4. toServer' \in Seq(Sent) /\ toClient' \in Seq(Unit) /\ turns' \in Nat
  BY <1>2, EmptySeq DEF TypedInv, TypeOK
<1>5. TypeOK'
  BY <1>2, <1>3, <1>4 DEF TypedInv, TypeOK, callVars
<1> QED BY <1>1, <1>5 DEF TypedInv

LEMMA CallTyped ==
    ASSUME TypedInv, NEW n \in Nat \ {0}, Call(n)
    PROVE  TypedInv'
<1> DEFINE requests == [i \in 1 .. n |-> issued + i]
<1>1. issued \in Nat /\ issued' = issued + n /\ issued' \in Nat
  BY DEF Call, TypedInv, TypeOK
<1>2. requests \in Seq(Nat) /\ Len(requests) = n /\ DOMAIN requests = 1 .. n
  <2>1. requests \in [1 .. n -> Nat]
    BY <1>1
  <2> QED BY <2>1, SequenceOf
<1>3. \A i \in 1 .. n : requests[i] = issued' - Len(requests) + i
  BY <1>1, <1>2
<1>4. /\ loop' = "write" /\ toWrite' = requests /\ toRead' = requests /\ responses' = <<>>
      /\ ec' \in BOOLEAN
      /\ UNCHANGED <<state, redisParser, buf, linkVars, failed, turns, answers, returned>>
  BY DEF Call, TypedInv, TypeOK
<1>5. requests # <<>>
  BY <1>2, EmptySeq
<1> HIDE DEF requests
<1>6. TypeOK'
  BY <1>1, <1>2, <1>4, <1>5, EmptySeq DEF TypedInv, TypeOK, linkVars
<1>7. CallInv'
  BY <1>1, <1>2, <1>3, <1>4, <1>5, EmptySeq DEF CallInv, LastOnes
<1> QED BY <1>6, <1>7 DEF TypedInv

LEMMA CallRefusedTyped == TypedInv /\ CallRefused => TypedInv'
<1> SUFFICES ASSUME TypedInv, CallRefused PROVE TypedInv'
  OBVIOUS
<1>1. /\ loop = "none" /\ issued' = issued + 1 /\ issued \in Nat /\ issued' \in Nat
      /\ returned' = Append(returned, [requests |-> <<issued'>>, replies |-> <<Nil>>])
      /\ UNCHANGED <<state, redisParser, buf, linkVars, callVars, ec, failed, turns, answers>>
  BY DEF CallRefused, TypedInv, TypeOK
<1>2. toRead = <<>> /\ toWrite = <<>> /\ Len(responses) <= issued
  <2>1. toRead = <<>> /\ Len(toRead) = 0 /\ toWrite \in Seq(Nat) /\ Len(toWrite) = 0
    BY <1>1, EmptySeq, LenProperties DEF TypedInv, TypeOK, CallInv
  <2> QED BY <2>1, EmptySeq, LenProperties DEF TypedInv, TypeOK, CallInv
<1>3. TypeOK'
  <2>1. [requests |-> <<issued'>>, replies |-> <<Nil>>]
           \in [requests : Seq(Nat), replies : Seq(Reply)]
    BY <1>1 DEF Reply, Nil
  <2>2. returned' \in Seq([requests : Seq(Nat), replies : Seq(Reply)])
    BY <1>1, <2>1, AppendProperties DEF TypedInv, TypeOK
  <2> QED BY <1>1, <2>2 DEF TypedInv, TypeOK, linkVars, callVars
<1>4. CallInv'
  BY <1>1, <1>2, EmptySeq, LenProperties DEF TypedInv, TypeOK, CallInv, LastOnes, callVars
<1> QED BY <1>3, <1>4 DEF TypedInv
\* The part of TypeOK that belongs to the call in progress.
CallTypes ==
    /\ loop \in {"none", "write", "read"}
    /\ toWrite \in Seq(Nat) /\ toRead \in Seq(Nat) /\ responses \in Seq(Reply)
    /\ loop = "none" <=> toRead = <<>>
    /\ ec \in BOOLEAN /\ failed \in BOOLEAN
    /\ answers \in Seq([request : Nat, reply : Reply])
    /\ returned \in Seq([requests : Seq(Nat), replies : Seq(Reply)])

LEMMA FailTyped ==
    ASSUME TypedInv, NEW error \in BOOLEAN, CallFails(error), UNCHANGED <<issued, answers>>
    PROVE  CallTypes' /\ CallInv'
<1>1. CallTypes'
  BY EmptySeq DEF TypedInv, TypeOK, CallTypes, CallFails
<1>2. CallInv'
  BY EmptySeq DEF TypedInv, TypeOK, CallInv, LastOnes, CallFails
<1> QED BY <1>1, <1>2

LEMMA ReturnsTyped ==
    ASSUME TypedInv, NEW replies \in Seq(Reply), Len(replies) <= issued, CallReturns(replies)
    PROVE  /\ returned' \in Seq([requests : Seq(Nat), replies : Seq(Reply)])
           /\ \E requests \in Seq(Nat) :
                 /\ returned' = Append(returned, [requests |-> requests, replies |-> replies])
                 /\ Len(requests) = Len(replies)
                 /\ \A i \in 1 .. Len(replies) : requests[i] = issued - Len(replies) + i
<1> DEFINE requests == [i \in DOMAIN replies |-> issued - Len(replies) + i]
<1>1. DOMAIN replies = 1 .. Len(replies) /\ Len(replies) \in Nat /\ issued \in Nat
  BY LenProperties DEF TypedInv, TypeOK
<1>2. \A i \in 1 .. Len(replies) : issued - Len(replies) + i \in Nat
  BY <1>1
<1>3. requests \in Seq(Nat) /\ Len(requests) = Len(replies)
  BY <1>1, <1>2, SequenceOf
<1>4. \A i \in 1 .. Len(replies) : requests[i] = issued - Len(replies) + i
  BY <1>1
<1>5. returned' = Append(returned, [requests |-> requests, replies |-> replies])
  BY DEF CallReturns
<1> HIDE DEF requests
<1>6. [requests |-> requests, replies |-> replies] \in [requests : Seq(Nat), replies : Seq(Reply)]
  BY <1>3
<1>7. returned' \in Seq([requests : Seq(Nat), replies : Seq(Reply)])
  BY <1>5, <1>6, AppendProperties DEF TypedInv, TypeOK
<1> QED BY <1>3, <1>4, <1>5, <1>7

LEMMA ResponseTyped ==
    ASSUME TypedInv, loop = "read", NEW value \in Reply, Response(value), issued' = issued
    PROVE  CallTypes' /\ CallInv'
<1>1. /\ toRead \in Seq(Nat) /\ toRead # <<>> /\ Head(toRead) \in Nat
      /\ Tail(toRead) \in Seq(Nat) /\ Len(Tail(toRead)) = Len(toRead) - 1
      /\ \A i \in 1 .. Len(Tail(toRead)) : Tail(toRead)[i] = toRead[i + 1]
      /\ Len(toRead) \in Nat \ {0} /\ Len(responses) \in Nat /\ issued \in Nat
      /\ DOMAIN toRead = 1 .. Len(toRead) /\ DOMAIN Tail(toRead) = 1 .. Len(Tail(toRead))
  BY EmptySeq, HeadTailProperties, LenProperties DEF TypedInv, TypeOK
<1>2. /\ answers' = Append(answers, [request |-> Head(toRead), reply |-> value])
      /\ UNCHANGED <<toWrite, ec, failed>>
  BY DEF Response
<1>3. toWrite = <<>> /\ toWrite' = <<>> /\ Len(toWrite') = 0
  BY <1>2, EmptySeq DEF TypedInv, CallInv
<1>4. answers' \in Seq([request : Nat, reply : Reply])
  BY <1>1, <1>2, AppendProperties DEF TypedInv, TypeOK
<1>5. /\ Append(responses, value) \in Seq(Reply)
      /\ Len(Append(responses, value)) = Len(responses) + 1
  BY AppendProperties DEF TypedInv, TypeOK
<1>6. CASE LastOne(toRead)
  <2>1. /\ loop' = "none" /\ toRead' = <<>> /\ responses' = <<>>
        /\ CallReturns(Append(responses, value))
    BY <1>6 DEF Response
  <2>2. Len(Append(responses, value)) <= issued
    BY <1>1, <1>5, <1>6 DEF LastOne, TypedInv, CallInv
  <2>3. returned' \in Seq([requests : Seq(Nat), replies : Seq(Reply)])
    BY <1>5, <2>1, <2>2, ReturnsTyped
  <2>4. CallTypes'
    BY <1>2, <1>3, <1>4, <2>1, <2>3, EmptySeq DEF CallTypes, TypedInv, TypeOK
  <2>5. CallInv'
    BY <1>1, <1>3, <2>1, EmptySeq DEF CallInv, LastOnes
  <2> QED BY <2>4, <2>5
<1>7. CASE ~LastOne(toRead)
  <2>1. /\ toRead' = Tail(toRead) /\ responses' = Append(responses, value)
        /\ UNCHANGED <<loop, returned>>
    BY <1>7 DEF Response
  <2>2. Tail(toRead) # <<>>
    BY <1>1, <1>7, EmptySeq DEF LastOne
  <2>3. CallTypes'
    BY <1>1, <1>2, <1>4, <1>5, <2>1, <2>2 DEF CallTypes, TypedInv, TypeOK
  <2>4. LastOnes(toRead)'
    <3>1. \A i \in 1 .. Len(toRead) : toRead[i] = issued - Len(toRead) + i
      BY <1>1 DEF LastOnes, TypedInv, CallInv
    <3>2. \A i \in 1 .. Len(Tail(toRead)) : Tail(toRead)[i] = issued - Len(Tail(toRead)) + i
      BY <1>1, <3>1
    <3>3. LastOnes(toRead)' <=> \A i \in DOMAIN toRead' : toRead'[i] = issued' - Len(toRead') + i
      BY DEF LastOnes
    <3> QED BY <1>1, <2>1, <3>2, <3>3
  <2>5. CallInv'
    BY <1>1, <1>3, <1>5, <2>1, <2>4, EmptySeq DEF CallInv, LastOnes, TypedInv
  <2> QED BY <2>3, <2>5
<1> QED BY <1>6, <1>7

LEMMA ParseTyped == TypedInv /\ Parse => TypedInv'
<1> SUFFICES ASSUME TypedInv, Parse PROVE TypedInv'
  OBVIOUS
<1>1. /\ loop = "read" /\ buf # <<>>
      /\ UNCHANGED <<state, linkVars, issued, turns>>
  BY DEF Parse
<1>2. Head(buf) \in Unit
  BY <1>1, HeadTailProperties DEF TypedInv, TypeOK
<1>3. PICK out \in Outcomes(Head(buf)) :
        /\ redisParser' = out.parser /\ buf' = Unparsed(out.left)
        /\ \/ out.result = "Completed" /\ Response(out.value)
           \/ out.result = "Incompleted" /\ UNCHANGED <<callVars, ec, failed, answers, returned>>
           \/ out.result = "Error" /\ Throws /\ CallFails(ec) /\ UNCHANGED answers
           \/ out.result = "Error" /\ ~Throws /\ Response(Nil)
  BY DEF Parse
<1>4. out.value \in Reply /\ out.parser \in Reply /\ Nil \in Reply /\ ec \in BOOLEAN
  BY <1>2, OutcomeTypes DEF TypedInv, TypeOK, Reply, Nil
<1>7. buf' \in Seq(Unit)
  <2>1. out.left \in Nat
    BY <1>2, OutcomeTypes DEF TypedInv, TypeOK
  <2>2. Unparsed(out.left) \in Seq(Unit)
    BY <1>1, <2>1, UnparsedTypes DEF TypedInv, TypeOK
  <2> QED BY <1>3, <2>2
<1>5. CallTypes' /\ CallInv'
  <2>1. CASE Response(out.value)
    BY <1>1, <1>4, <2>1, ResponseTyped
  <2>2. CASE UNCHANGED <<callVars, ec, failed, answers, returned>>
    BY <1>1, <2>2 DEF TypedInv, TypeOK, CallTypes, CallInv, LastOnes, callVars
  <2>3. CASE CallFails(ec) /\ UNCHANGED answers
    BY <1>1, <1>4, <2>3, FailTyped
  <2>4. CASE Response(Nil)
    BY <1>1, <1>4, <2>4, ResponseTyped
  <2> QED BY <1>3, <2>1, <2>2, <2>3, <2>4
<1>6. TypeOK'
  BY <1>1, <1>2, <1>3, <1>4, <1>5, <1>7 DEF TypedInv, TypeOK, CallTypes, linkVars
<1> QED BY <1>5, <1>6 DEF TypedInv
LEMMA WriteTyped == TypedInv /\ Write => TypedInv'
<1> SUFFICES ASSUME TypedInv, Write PROVE TypedInv'
  OBVIOUS
<1>1. /\ loop = "write" /\ toWrite # <<>>
      /\ UNCHANGED <<state, redisParser, buf, link, toClient, issued, turns, answers>>
  BY DEF Write, WriteRequest, WriteFails
<1>2. /\ Head(toWrite) \in Nat /\ Tail(toWrite) \in Seq(Nat)
      /\ Len(toWrite) \in Nat \ {0} /\ Len(Tail(toWrite)) = Len(toWrite) - 1
      /\ \A i \in 1 .. Len(Tail(toWrite)) : Tail(toWrite)[i] = toWrite[i + 1]
      /\ DOMAIN toWrite = 1 .. Len(toWrite) /\ DOMAIN Tail(toWrite) = 1 .. Len(Tail(toWrite))
      /\ Len(toRead) \in Nat /\ Len(toWrite) <= Len(toRead) /\ issued \in Nat
      /\ TRUE \in BOOLEAN
  BY <1>1, EmptySeq, HeadTailProperties, LenProperties DEF TypedInv, TypeOK, CallInv
<1>3. toServer' \in Seq(Sent)
  <2>1. /\ [id |-> Head(toWrite), cut |-> FALSE] \in Sent
        /\ [id |-> Head(toWrite), cut |-> TRUE] \in Sent
    BY <1>2 DEF Sent
  <2>2. \/ toServer' = toServer
        \/ toServer' = Append(toServer, [id |-> Head(toWrite), cut |-> FALSE])
        \/ toServer' = Append(toServer, [id |-> Head(toWrite), cut |-> TRUE])
    BY DEF Write, WriteRequest, WriteFails
  <2>3. toServer \in Seq(Sent)
    BY DEF TypedInv, TypeOK
  <2> QED BY <2>1, <2>2, <2>3, AppendProperties
<1>4. CASE CallFails(TRUE)
  <2>1. CallTypes' /\ CallInv'
    BY <1>1, <1>2, <1>4, FailTyped
  <2>2. TypeOK'
    BY <1>1, <1>3, <2>1 DEF TypedInv, TypeOK, CallTypes
  <2> QED BY <2>1, <2>2 DEF TypedInv
<1>5. CASE /\ toWrite' = Tail(toWrite)
           /\ loop' = IF Tail(toWrite) = <<>> THEN "read" ELSE "write"
           /\ UNCHANGED <<toRead, responses, ec, failed, returned>>
  <2>1. TypeOK'
    BY <1>1, <1>2, <1>3, <1>5 DEF TypedInv, TypeOK
  <2>2. LastOnes(toWrite)'
    <3>1. \A i \in 1 .. Len(toWrite) : toWrite[i] = issued - Len(toWrite) + i
      BY <1>2 DEF LastOnes, TypedInv, CallInv
    <3>2. \A i \in 1 .. Len(Tail(toWrite)) : Tail(toWrite)[i] = issued - Len(Tail(toWrite)) + i
      BY <1>2, <3>1
    <3>3. LastOnes(toWrite)' <=> \A i \in DOMAIN toWrite' : toWrite'[i] = issued' - Len(toWrite') + i
      BY DEF LastOnes
    <3> QED BY <1>1, <1>2, <1>5, <3>2, <3>3
  <2>3. LastOnes(toRead)'
    BY <1>1, <1>5 DEF TypedInv, CallInv, LastOnes
  <2>4. loop' = "write" <=> toWrite' # <<>>
    BY <1>5
  <2>5. Len(toWrite') <= Len(toRead') /\ Len(responses') + Len(toRead') <= issued'
    BY <1>1, <1>2, <1>5 DEF TypedInv, CallInv
  <2>6. CallInv'
    BY <2>2, <2>3, <2>4, <2>5 DEF CallInv
  <2> QED BY <2>1, <2>6 DEF TypedInv
<1> QED BY <1>4, <1>5 DEF Write, WriteRequest, WriteFails

LEMMA ReadTyped == TypedInv /\ Read => TypedInv'
<1> SUFFICES ASSUME TypedInv, Read PROVE TypedInv'
  OBVIOUS
<1>1. CASE ReadSome
  <2>1. PICK n \in 1 .. Len(toClient) :
           buf' = SubSeq(toClient, 1, n) /\ toClient' = SubSeq(toClient, n + 1, Len(toClient))
    BY <1>1 DEF ReadSome
  <2>2. n \in 0 .. Len(toClient) /\ toClient \in Seq(Unit)
    BY LenProperties DEF TypedInv, TypeOK
  <2>3. buf' \in Seq(Unit) /\ toClient' \in Seq(Unit)
    BY <2>1, <2>2, Cut
  <2>4. CallInv'
    BY <1>1, CallInvKept DEF ReadSome, TypedInv, historyVars
  <2>5. TypeOK'
    BY <1>1, <2>3 DEF ReadSome, TypedInv, TypeOK, callVars, historyVars
  <2> QED BY <2>4, <2>5 DEF TypedInv
<1>2. CASE ReadFails
  <2>1. CallFails(TRUE) /\ UNCHANGED <<state, redisParser, buf, linkVars, issued, turns, answers>>
    BY <1>2 DEF ReadFails
  <2>2. TRUE \in BOOLEAN
    OBVIOUS
  <2>3. CallTypes' /\ CallInv'
    BY <2>1, <2>2, FailTyped
  <2>4. TypeOK'
    BY <2>1, <2>3 DEF TypedInv, TypeOK, CallTypes, linkVars
  <2> QED BY <2>3, <2>4 DEF TypedInv
<1> QED BY <1>1, <1>2 DEF Read
LEMMA NetworkTyped == TypedInv /\ Network => TypedInv'
<1> SUFFICES ASSUME TypedInv, Network PROVE TypedInv'
  OBVIOUS
<1>1. UNCHANGED <<state, redisParser, buf, callVars, ec, failed, historyVars>>
  BY DEF Network, ServerReply, LinkDrops
<1>2. CallInv'
  BY <1>1, CallInvKept DEF historyVars, TypedInv
<1>3. link' \in {"closed", "open", "up", "dropped"}
  BY DEF Network, ServerReply, LinkDrops, TypedInv, TypeOK
<1>4. toServer' \in Seq(Sent) /\ toClient' \in Seq(Unit)
  <2>1. CASE ServerReply
    <3>1. toServer # <<>> /\ toServer \in Seq(Sent) /\ toClient \in Seq(Unit)
      BY <2>1 DEF ServerReply, TypedInv, TypeOK
    <3>2. Head(toServer).id \in Reply /\ Garbage \in Reply
      <4>1. Head(toServer) \in Sent
        BY <3>1, HeadTailProperties
      <4>2. Head(toServer).id \in Nat
        BY <4>1 DEF Sent
      <4> QED BY <4>2 DEF Reply
    <3>3. \E id \in Reply : \E p \in Pieces(id) : toClient' = toClient \o p
      <4>1. CASE Head(toServer).cut
        BY <2>1, <3>2, <4>1 DEF ServerReply
      <4>2. CASE ~Head(toServer).cut
        BY <2>1, <3>2, <4>2 DEF ServerReply
      <4> QED BY <4>1, <4>2
    <3>4. toClient' \in Seq(Unit)
      BY <3>1, <3>3, PieceTypes, ConcatProperties
    <3>5. toServer' \in Seq(Sent)
      <4>1. \A n \in 2 .. Len(toServer) : SubSeq(toServer, n + 1, Len(toServer)) \in Seq(Sent)
        <5>1. \A n \in 2 .. Len(toServer) : n \in 0 .. Len(toServer)
          BY <3>1, LenProperties
        <5> QED BY <3>1, <5>1, Cut
      <4> QED BY <2>1, <3>1, <4>1, HeadTailProperties DEF ServerReply
    <3> QED BY <3>4, <3>5
  <2>2. CASE LinkDrops
    <3>1. toClient \in Seq(Unit) /\ <<>> \in Seq(Sent)
      BY EmptySeq DEF TypedInv, TypeOK
    <3>2. \A n \in 0 .. Len(toClient) : SubSeq(toClient, 1, n) \in Seq(Unit)
      BY <3>1, Cut
    <3> QED BY <2>2, <3>1, <3>2 DEF LinkDrops
  <2> QED BY <2>1, <2>2 DEF Network
<1>5. TypeOK'
  BY <1>1, <1>3, <1>4 DEF TypedInv, TypeOK, callVars, historyVars
<1> QED BY <1>2, <1>5 DEF TypedInv

LEMMA TypedNext == TypedInv /\ [Next]_vars => TypedInv'
<1> SUFFICES ASSUME TypedInv, [Next]_vars PROVE TypedInv'
  OBVIOUS
<1>1. CASE UNCHANGED vars
  BY <1>1 DEF vars, linkVars, callVars, historyVars, TypedInv, TypeOK, CallInv, LastOnes
<1>2. CASE \E n \in 1 .. MaxPipeline : Call(n)
  <2>1. \A n \in 1 .. MaxPipeline : n \in Nat \ {0}
    BY SyncAssumption DEF SyncAssumption
  <2> QED BY <1>2, <2>1, CallTyped
<1> QED
  BY <1>1, <1>2, ConnectTyped, TurnTyped, CallRefusedTyped, WriteTyped, ReadTyped, ParseTyped,
     NetworkTyped DEF Next, App

\* The requests of a call are numbered without a gap, and what is left to send is among
\* what is left to read, whatever the application does after failures.
THEOREM CallsKept == Spec => []TypedInv
BY TypedInit, TypedNext, PTL DEF Spec

\* Every member of the client and every argument of its loops keeps its type
\* (redisclientimpl.h:93-114): a call that is over has nothing left to read.
THEOREM SyncTypeCorrect == Spec => []TypeOK
<1>1. TypedInv => TypeOK
  BY DEF TypedInv
<1> QED BY <1>1, CallsKept, PTL
-----------------------------------------------------------------------------
(* The client that is thrown away after a failure.                         *)

LEMMA SyncInit == Init => SyncInv
<1> SUFFICES ASSUME Init PROVE SyncInv
  OBVIOUS
<1>1. TypeOK /\ CallInv
  BY TypedInit DEF TypedInv
<1>2. Stream = <<>>
  BY ConcatEmptySeq DEF Init, Stream
<1>3. InStep
  BY <1>2, EmptySeq DEF Init, InStep, Consecutive, StartsWith, UpTo
<1>4. DiscardInv
  BY <1>3, EmptySeq DEF Init, DiscardInv, Answers, RepliesMatch
<1> QED BY <1>1, <1>4 DEF SyncInv

LEMMA NumberTypes ==
    ASSUME SyncInv
    PROVE  /\ issued \in Nat /\ Len(toRead) \in Nat /\ Len(toWrite) \in Nat
           /\ Len(responses) \in Nat /\ Len(toServer) \in Nat
           /\ Len(toWrite) <= Len(toRead) /\ Len(responses) + Len(toRead) <= issued
           /\ Wanted \in Nat \ {0} /\ Asked \in Nat
           /\ Stream \in Seq(Unit) /\ Len(Stream) \in Nat /\ DOMAIN Stream = 1 .. Len(Stream)
           /\ \A i \in 1 .. Len(Stream) : Stream[i].reply \in Int
<1>1. /\ issued \in Nat /\ Len(toRead) \in Nat /\ Len(toWrite) \in Nat
      /\ Len(responses) \in Nat /\ Len(toServer) \in Nat
      /\ Len(toWrite) <= Len(toRead) /\ Len(responses) + Len(toRead) <= issued
  BY LenProperties DEF SyncInv, TypeOK, CallInv
<1>2. Wanted \in Nat \ {0} /\ Asked \in Nat
  BY <1>1 DEF Wanted, Asked
<1>3. Stream \in Seq(Unit)
  BY ConcatProperties DEF Stream, SyncInv, TypeOK
<1>4. Len(Stream) \in Nat /\ DOMAIN Stream = 1 .. Len(Stream)
  BY <1>3, LenProperties
<1>5. \A unit \in Unit : unit.reply \in Int
  BY DEF Unit, Reply, Garbage
<1>6. \A i \in 1 .. Len(Stream) : Stream[i].reply \in Int
  BY <1>3, <1>5, ElementOfSeq
<1> QED BY <1>1, <1>2, <1>3, <1>4, <1>6

\* Between the calls of a client that has not failed nothing is under way.
LEMMA Quiet ==
    ASSUME SyncInv, loop = "none", ~failed
    PROVE  /\ toServer = <<>> /\ toClient = <<>> /\ buf = <<>> /\ redisParser = Nil
           /\ Stream = <<>>
<1>1. toRead = <<>> /\ toWrite = <<>> /\ Len(toRead) = 0 /\ Len(toWrite) = 0
  BY EmptySeq DEF SyncInv, TypeOK, CallInv
<1>2. Wanted = issued + 1 /\ Asked = issued /\ issued \in Nat
  BY <1>1, NumberTypes DEF Wanted, Asked
<1>3. InStep
  BY DEF SyncInv, DiscardInv
<1>4. redisParser = Nil
  BY <1>1, <1>3 DEF InStep
<1>5. Stream = <<>>
  <2> SUFFICES ASSUME Stream # <<>> PROVE FALSE
    OBVIOUS
  <2>1. Stream[1].reply = Wanted /\ 1 \in DOMAIN Stream
    BY <1>3, NumberTypes, EmptySeq DEF InStep, StartsWith
  <2>2. Stream[1].reply <= Asked
    BY <1>3, <2>1 DEF InStep, UpTo
  <2> QED BY <1>2, <2>1, <2>2
<1>6. buf = <<>> /\ toClient = <<>>
  BY <1>5, ConcatEqualIffEmpty DEF Stream, SyncInv, TypeOK
<1>7. toServer = <<>>
  <2>1. CASE link = "up"
    <3>1. Asked - Len(toServer) = Wanted - 1
      BY <1>3, <1>5, <2>1 DEF InStep, ServerInStep, Answered
    <3>2. Len(toServer) = 0
      BY <1>2, <3>1, NumberTypes
    <3> QED BY <3>2, EmptySeq DEF SyncInv, TypeOK
  <2> QED BY <1>3, <2>1 DEF InStep
<1> QED BY <1>4, <1>5, <1>6, <1>7

\* With nothing under way and all calls over, or one that has not begun to write.
LEMMA NothingUnderWay ==
    ASSUME issued' \in Nat, Len(toRead') = Len(toWrite'), Len(toRead') \in Nat,
           redisParser' = Nil, buf' = <<>>, toClient' = <<>>, toServer' = <<>>
    PROVE  InStep'
<1>1. Stream' = <<>>
  BY ConcatEmptySeq DEF Stream
<1>2. Wanted' = issued' - Len(toRead') + 1 /\ Asked' = issued' - Len(toRead')
  BY DEF Wanted, Asked
<1>3. Consecutive(Stream)' /\ StartsWith(Stream, Wanted, redisParser # Nil)' /\ UpTo(Stream, Asked)'
  BY <1>1, EmptySeq DEF Consecutive, StartsWith, UpTo
<1>4. ServerInStep'
  BY <1>1, <1>2, EmptySeq DEF ServerInStep, Answered
<1> QED BY <1>3, <1>4 DEF InStep

\* What a step that neither reads a reply nor returns leaves alone.
LEMMA AnswersKept ==
    ASSUME SyncInv, UNCHANGED <<toRead, responses, issued, returned>>
    PROVE  Answers(responses, issued - Len(toRead))' /\ RepliesMatch'
BY DEF SyncInv, DiscardInv, Answers, RepliesMatch

LEMMA ConnectInStep == SyncInv /\ Discipline = "discard" /\ Connect => DiscardInv'
<1> SUFFICES ASSUME SyncInv, Discipline = "discard", Connect PROVE DiscardInv'
  OBVIOUS
<1>1. /\ loop = "none" /\ ~failed /\ link = "closed"
      /\ UNCHANGED <<redisParser, buf, callVars, issued, answers, returned>>
  BY DEF Connect, Turn, MayConnect
<1>2. Answers(responses, issued - Len(toRead))' /\ RepliesMatch' /\ loop' = "none"
  BY <1>1, AnswersKept DEF callVars
<1>3. CASE ConnectSucceeds
  <2>1. toServer' = <<>> /\ toClient' = <<>> /\ buf' = <<>> /\ redisParser' = Nil
    BY <1>1, <1>3, Quiet DEF ConnectSucceeds
  <2>2. issued' \in Nat /\ Len(toRead') = 0 /\ Len(toWrite') = 0
    BY <1>1, EmptySeq DEF callVars, SyncInv, TypeOK, CallInv
  <2>3. InStep'
    BY <2>1, <2>2, NothingUnderWay
  <2> QED BY <1>2, <2>3 DEF DiscardInv
<1>4. CASE ConnectFails
  BY <1>2, <1>4 DEF ConnectFails, DiscardInv
<1> QED BY <1>3, <1>4 DEF Connect

LEMMA DiscardInStep == SyncInv /\ Discard => DiscardInv'
<1> SUFFICES ASSUME SyncInv, Discard PROVE DiscardInv'
  OBVIOUS
<1>1. /\ loop = "none" /\ toServer' = <<>> /\ toClient' = <<>>
      /\ redisParser' = Nil /\ buf' = <<>>
      /\ UNCHANGED <<callVars, ec, issued, answers, returned>>
  BY DEF Discard, Turn
<1>2. Answers(responses, issued - Len(toRead))' /\ RepliesMatch' /\ loop' = "none"
  BY <1>1, AnswersKept DEF callVars
<1>3. issued' \in Nat /\ Len(toRead') = 0 /\ Len(toWrite') = 0
  BY <1>1, EmptySeq DEF callVars, SyncInv, TypeOK, CallInv
<1>4. InStep'
  BY <1>1, <1>3, NothingUnderWay
<1> QED BY <1>2, <1>4 DEF DiscardInv

LEMMA CallInStep ==
    ASSUME SyncInv, Discipline = "discard", NEW n \in Nat \ {0}, Call(n)
    PROVE  DiscardInv'
<1> DEFINE requests == [i \in 1 .. n |-> issued + i]
<1>1. /\ loop = "none" /\ ~failed /\ issued' = issued + n /\ ~ec' /\ failed' = failed
      /\ toWrite' = requests /\ toRead' = requests /\ responses' = <<>>
      /\ UNCHANGED <<redisParser, buf, linkVars, returned>>
  BY DEF Call, MayGoOn
<1>2. issued \in Nat /\ issued' \in Nat /\ requests \in Seq(Nat) /\ Len(requests) = n
  <2>1. issued \in Nat
    BY NumberTypes
  <2>2. requests \in [1 .. n -> Nat]
    BY <2>1
  <2> QED BY <1>1, <2>1, <2>2, SequenceOf
<1> HIDE DEF requests
<1>3. toServer' = <<>> /\ toClient' = <<>> /\ buf' = <<>> /\ redisParser' = Nil
  BY <1>1, Quiet DEF linkVars
<1>4. InStep'
  BY <1>1, <1>2, <1>3, NothingUnderWay
<1>5. Answers(responses, issued - Len(toRead))'
  BY <1>1, EmptySeq DEF Answers
<1>6. RepliesMatch'
  BY <1>1 DEF SyncInv, DiscardInv, RepliesMatch
<1> QED BY <1>1, <1>4, <1>5, <1>6 DEF DiscardInv

LEMMA FailInStep ==
    ASSUME SyncInv, NEW error, CallFails(error)
    PROVE  DiscardInv'
<1>1. loop' = "none" /\ failed' = TRUE /\ responses' = <<>> /\ returned' = returned
  BY DEF CallFails
<1> QED BY <1>1, EmptySeq DEF DiscardInv, Answers, SyncInv, RepliesMatch
LEMMA WriteInStep == SyncInv /\ Write => DiscardInv'
<1> SUFFICES ASSUME SyncInv, Write PROVE DiscardInv'
  OBVIOUS
<1>1. CASE CallFails(TRUE)
  BY <1>1, FailInStep
<1>2. CASE WriteRequest /\ ~CallFails(TRUE)
  <2>1. ~failed /\ ~ec /\ InStep
    BY <1>2 DEF WriteRequest, SyncInv, DiscardInv
  <2>2. /\ toWrite # <<>> /\ toWrite' = Tail(toWrite)
        /\ toServer' = IF link = "up" THEN Append(toServer, [id |-> Head(toWrite), cut |-> FALSE])
                                      ELSE toServer
        /\ UNCHANGED <<toRead, responses, ec, failed, returned, redisParser, buf, link, toClient,
                       issued>>
    BY <1>2, <2>1 DEF WriteRequest
  <2>3. /\ Len(toWrite') = Len(toWrite) - 1 /\ Head(toWrite) = Asked + 1
    <3>1. toWrite \in Seq(Nat) /\ Len(toWrite) \in Nat \ {0} /\ 1 \in DOMAIN toWrite
      BY <2>2, EmptySeq, LenProperties DEF SyncInv, TypeOK
    <3>2. toWrite[1] = issued - Len(toWrite) + 1
      BY <3>1 DEF SyncInv, CallInv, LastOnes
    <3> QED BY <2>2, <3>1, <3>2, HeadTailProperties DEF Asked
  <2>4. Wanted' = Wanted /\ Asked' = Asked + 1 /\ Stream' = Stream
    BY <2>2, <2>3, NumberTypes DEF Wanted, Asked, Stream
  <2>5. Consecutive(Stream)' /\ StartsWith(Stream, Wanted, redisParser # Nil)'
    BY <2>1, <2>2, <2>4 DEF InStep, Consecutive, StartsWith
  <2>6. UpTo(Stream, Asked)'
    <3>1. \A i \in 1 .. Len(Stream) : Stream[i].reply <= Asked /\ Stream[i].part # "rest"
      BY <2>1, NumberTypes DEF InStep, UpTo
    <3>2. \A i \in 1 .. Len(Stream) : Stream[i].reply <= Asked + 1 /\ Stream[i].part # "rest"
      BY <3>1, NumberTypes
    <3> QED BY <2>4, <3>2, NumberTypes DEF UpTo
  <2>7. link = "up" => ServerInStep'
    <3> SUFFICES ASSUME link = "up" PROVE ServerInStep'
      OBVIOUS
    <3>1. /\ toServer \in Seq(Sent) /\ [id |-> Head(toWrite), cut |-> FALSE] \in Sent
          /\ Asked - Len(toServer) = Answered
          /\ \A i \in 1 .. Len(toServer) : /\ ~toServer[i].cut
                                           /\ toServer[i].id = Asked - Len(toServer) + i
      <4>1. toServer \in Seq(Sent) /\ DOMAIN toServer = 1 .. Len(toServer)
        BY LenProperties DEF SyncInv, TypeOK
      <4>2. Head(toWrite) \in Nat
        BY <2>3, NumberTypes
      <4>3. [id |-> Head(toWrite), cut |-> FALSE] \in Sent
        BY <4>2 DEF Sent
      <4> QED BY <2>1, <4>1, <4>3 DEF InStep, ServerInStep
    <3>2. /\ Len(toServer') = Len(toServer) + 1 /\ DOMAIN toServer' = 1 .. Len(toServer')
          /\ \A i \in 1 .. Len(toServer) : toServer'[i] = toServer[i]
          /\ toServer'[Len(toServer) + 1] = [id |-> Asked + 1, cut |-> FALSE]
      <4>1. \A r \in Sent : toServer' = Append(toServer, r) =>
               /\ toServer' \in Seq(Sent) /\ Len(toServer') = Len(toServer) + 1
               /\ \A i \in 1 .. Len(toServer) : toServer'[i] = toServer[i]
               /\ toServer'[Len(toServer) + 1] = r
        BY <3>1, AppendProperties
      <4>2. toServer' = Append(toServer, [id |-> Head(toWrite), cut |-> FALSE])
        BY <2>2
      <4> QED BY <2>3, <3>1, <4>1, <4>2, LenProperties
    <3>3. \A i \in DOMAIN toServer' : /\ ~toServer'[i].cut
                                      /\ toServer'[i].id = Asked' - Len(toServer') + i
      <4> SUFFICES ASSUME NEW i \in 1 .. Len(toServer')
                   PROVE  ~toServer'[i].cut /\ toServer'[i].id = Asked' - Len(toServer') + i
        BY <3>2
      <4>1. CASE i = Len(toServer) + 1
        BY <2>4, <3>2, <4>1, NumberTypes
      <4>2. CASE i # Len(toServer) + 1
        <5>1. i \in 1 .. Len(toServer)
          BY <3>2, <4>2, NumberTypes
        <5>2. ~toServer'[i].cut /\ toServer'[i].id = Asked - Len(toServer) + i
          BY <3>1, <3>2, <5>1
        <5> QED BY <2>4, <3>2, <5>2, NumberTypes
      <4> QED BY <4>1, <4>2
    <3>4. Answered' = Answered /\ Asked' - Len(toServer') = Answered
      <4>1. Answered' = Answered
        BY <2>4 DEF Answered
      <4>2. Asked' - Len(toServer') = Asked - Len(toServer)
        BY <2>4, <3>2, NumberTypes
      <4> QED BY <3>1, <4>1, <4>2
    <3>5. IF Stream = <<>> THEN redisParser = Nil ELSE Stream[Len(Stream)].part # "first"
      BY <2>1 DEF InStep, ServerInStep
    <3>6. ServerInStep'
      BY <2>2, <2>4, <3>3, <3>4, <3>5 DEF ServerInStep
    <3> QED BY <3>6
  <2>8. redisParser' \in {Nil, Wanted'} /\ (redisParser' # Nil => toRead' # <<>>)
    BY <2>1, <2>2, <2>4 DEF InStep
  <2>9. IF link' = "up" THEN ServerInStep' ELSE toServer' = <<>>
    BY <2>1, <2>2, <2>7 DEF InStep
  <2>10. InStep'
    BY <2>5, <2>6, <2>8, <2>9 DEF InStep
  <2> QED BY <2>1, <2>2, <2>10, AnswersKept DEF DiscardInv
<1> QED BY <1>1, <1>2 DEF Write, WriteFails

LEMMA ReadInStep == SyncInv /\ Read => DiscardInv'
<1> SUFFICES ASSUME SyncInv, Read PROVE DiscardInv'
  OBVIOUS
<1>1. CASE ReadFails
  BY <1>1, FailInStep DEF ReadFails
<1>2. CASE ReadSome
  <2>1. PICK n \in 1 .. Len(toClient) :
           buf' = SubSeq(toClient, 1, n) /\ toClient' = SubSeq(toClient, n + 1, Len(toClient))
    BY <1>2 DEF ReadSome
  <2>2. /\ buf = <<>> /\ toClient \in Seq(Unit) /\ n \in 0 .. Len(toClient)
        /\ UNCHANGED <<redisParser, link, toServer, callVars, ec, failed, historyVars>>
    BY <1>2, LenProperties DEF ReadSome, SyncInv, TypeOK
  <2>3. Stream' = Stream
    BY <2>1, <2>2, Cut, ConcatEmptySeq DEF Stream
  <2>4. Wanted' = Wanted /\ Asked' = Asked
    BY <2>2 DEF Wanted, Asked, callVars, historyVars
  <2>5. InStep => InStep'
    BY <2>2, <2>3, <2>4 DEF InStep, Consecutive, StartsWith, UpTo, ServerInStep, Answered, callVars
  <2>6. Answers(responses, issued - Len(toRead))' /\ RepliesMatch'
    BY <2>2, AnswersKept DEF callVars, historyVars
  <2>7. loop' = loop /\ failed' = failed /\ ec' = ec
    BY <2>2 DEF callVars
  <2> QED BY <2>5, <2>6, <2>7 DEF SyncInv, DiscardInv
<1> QED BY <1>1, <1>2 DEF Read

LEMMA LinkDropsInStep == SyncInv /\ LinkDrops => DiscardInv'
<1> SUFFICES ASSUME SyncInv, LinkDrops PROVE DiscardInv'
  OBVIOUS
<1>1. PICK n \in 0 .. Len(toClient) : toClient' = SubSeq(toClient, 1, n)
  BY DEF LinkDrops
<1>2. /\ link' = "dropped" /\ toServer' = <<>>
      /\ UNCHANGED <<redisParser, buf, callVars, ec, failed, historyVars>>
  BY DEF LinkDrops
<1>3. /\ toClient' \in Seq(Unit) /\ Len(toClient') = n /\ n \in Nat
      /\ \A i \in 1 .. n : toClient'[i] = toClient[i]
      /\ buf \in Seq(Unit) /\ toClient \in Seq(Unit)
      /\ Len(toClient) \in Nat /\ Len(buf) \in Nat /\ n <= Len(toClient)
  BY <1>1, PrefixProperties, LenProperties DEF SyncInv, TypeOK
<1>4. /\ Stream' \in Seq(Unit) /\ DOMAIN Stream' = 1 .. Len(Stream')
      /\ Len(Stream') \in Nat /\ Len(Stream') <= Len(Stream)
      /\ \A i \in 1 .. Len(Stream') : Stream'[i] = Stream[i]
  <2>1. /\ Stream' \in Seq(Unit) /\ Len(Stream') = Len(buf) + n
        /\ \A i \in 1 .. Len(buf) + n :
              Stream'[i] = IF i <= Len(buf) THEN buf[i] ELSE toClient'[i - Len(buf)]
    BY <1>2, <1>3, ConcatProperties DEF Stream
  <2>2. /\ Len(Stream) = Len(buf) + Len(toClient)
        /\ \A i \in 1 .. Len(buf) + Len(toClient) :
              Stream[i] = IF i <= Len(buf) THEN buf[i] ELSE toClient[i - Len(buf)]
    BY <1>3, ConcatProperties DEF Stream
  <2>3. \A i \in 1 .. Len(Stream') : Stream'[i] = Stream[i]
    <3> SUFFICES ASSUME NEW i \in 1 .. Len(Stream') PROVE Stream'[i] = Stream[i]
      OBVIOUS
    <3>1. i \in 1 .. Len(buf) + n /\ i \in 1 .. Len(buf) + Len(toClient)
      BY <1>3, <2>1
    <3>2. CASE i <= Len(buf)
      BY <2>1, <2>2, <3>1, <3>2
    <3>3. CASE ~(i <= Len(buf))
      <4>1. i - Len(buf) \in 1 .. n
        BY <1>3, <3>1, <3>3
      <4> QED BY <1>3, <2>1, <2>2, <3>1, <3>3, <4>1
    <3> QED BY <3>2, <3>3
  <2> QED BY <1>3, <2>1, <2>2, <2>3, LenProperties
<1>5. Wanted' = Wanted /\ Asked' = Asked
  BY <1>2 DEF Wanted, Asked, callVars, historyVars
<1>6. ASSUME InStep PROVE InStep'
  <2>1. Consecutive(Stream)'
    <3>1. \A i \in 1 .. Len(Stream') - 1 : i \in 1 .. Len(Stream) - 1 /\ i \in 1 .. Len(Stream')
                                          /\ i + 1 \in 1 .. Len(Stream')
      BY <1>4, NumberTypes
    <3> QED BY <1>4, <1>6, <3>1 DEF InStep, Consecutive
  <2>2. StartsWith(Stream, Wanted, redisParser # Nil)'
    <3>1. Stream' # <<>> => Stream # <<>> /\ Stream'[1] = Stream[1]
      BY <1>4, EmptySeq, NumberTypes
    <3> QED BY <1>2, <1>5, <1>6, <3>1 DEF InStep, StartsWith
  <2>3. UpTo(Stream, Asked)'
    <3>1. \A i \in DOMAIN Stream' : i \in DOMAIN Stream /\ Stream'[i] = Stream[i]
      BY <1>4, NumberTypes
    <3> QED BY <1>5, <1>6, <3>1 DEF InStep, UpTo
  <2> QED BY <1>2, <1>5, <1>6, <2>1, <2>2, <2>3 DEF InStep, callVars
<1>7. Answers(responses, issued - Len(toRead))' /\ RepliesMatch'
  BY <1>2, AnswersKept DEF callVars, historyVars
<1>8. loop' = loop /\ failed' = failed /\ ec' = ec
  BY <1>2 DEF callVars
<1> QED BY <1>6, <1>7, <1>8 DEF SyncInv, DiscardInv
\* One reply more behind the stream u, whole or in two pieces.
LEMMA OneReplyMore ==
    ASSUME NEW u \in Seq(Unit), NEW id \in Nat, NEW p \in Pieces(id), Consecutive(u),
           u # <<>> => u[Len(u)].part # "first" /\ u[Len(u)].reply = id - 1
    PROVE  /\ Consecutive(u \o p) /\ u \o p # <<>>
           /\ (u \o p)[Len(u \o p)].part # "first" /\ (u \o p)[Len(u \o p)].reply = id
           /\ u # <<>> => (u \o p)[1] = u[1]
           /\ u = <<>> => (u \o p)[1].reply = id /\ (u \o p)[1].part # "second"
           /\ \A i \in DOMAIN (u \o p) : \/ i \in DOMAIN u /\ (u \o p)[i] = u[i]
                                         \/ (u \o p)[i].reply = id /\ (u \o p)[i].part # "rest"
<1> DEFINE v == u \o p
<1>1. p \in Seq(Unit)
  BY PieceTypes DEF Reply
<1>2. /\ v \in Seq(Unit) /\ Len(v) = Len(u) + Len(p)
      /\ Len(u) \in Nat /\ DOMAIN u = 1 .. Len(u) /\ DOMAIN v = 1 .. Len(v)
      /\ \A i \in 1 .. Len(u) + Len(p) : v[i] = IF i <= Len(u) THEN u[i] ELSE p[i - Len(u)]
  BY <1>1, ConcatProperties, LenProperties
<1>3. \A i \in 1 .. Len(u) : v[i] = u[i]
  BY <1>1, <1>2, LenProperties
<1>4. \/ Len(p) = 1 /\ p[1].reply = id /\ p[1].part = "whole"
      \/ /\ Len(p) = 2 /\ p[1].reply = id /\ p[1].part = "first"
         /\ p[2].reply = id /\ p[2].part = "second"
  BY DEF Pieces
<1>5. \A i \in 1 .. Len(p) : v[Len(u) + i] = p[i]
  <2> SUFFICES ASSUME NEW i \in 1 .. Len(p) PROVE v[Len(u) + i] = p[i]
    OBVIOUS
  <2>1. Len(u) + i \in 1 .. Len(u) + Len(p) /\ ~(Len(u) + i <= Len(u)) /\ (Len(u) + i) - Len(u) = i
    BY <1>2, <1>4
  <2> QED BY <1>2, <2>1
<1>6. \A i \in 1 .. Len(u) - 1 :
         IF v[i].part = "first" THEN v[i + 1].reply = v[i].reply /\ v[i + 1].part = "second"
         ELSE v[i + 1].reply = v[i].reply + 1 /\ v[i + 1].part # "second"
  BY <1>2, <1>3 DEF Consecutive
<1>7. u # <<>> => Len(u) \in 1 .. Len(u) /\ v[Len(u)].part # "first" /\ v[Len(u)].reply = id - 1
  BY <1>2, <1>3, EmptySeq
<1>8. v[Len(u) + 1].reply = id /\ v[Len(u) + 1].part # "second"
  BY <1>4, <1>5
<1>9. Len(u) \in Nat /\ Len(v) = Len(u) + Len(p) /\ Len(p) \in {1, 2}
  BY <1>2, <1>4
<1> HIDE DEF v
<1>10. Consecutive(v)
  <2> SUFFICES ASSUME NEW i \in 1 .. Len(v) - 1
               PROVE  IF v[i].part = "first" THEN v[i + 1].reply = v[i].reply /\ v[i + 1].part = "second"
                      ELSE v[i + 1].reply = v[i].reply + 1 /\ v[i + 1].part # "second"
    BY DEF Consecutive
  <2>1. CASE i < Len(u)
    BY <1>2, <1>6, <2>1
  <2>2. CASE i = Len(u)
    <3>1. u # <<>>
      BY <1>2, <2>2, EmptySeq
    <3> QED BY <1>7, <1>8, <2>2, <3>1
  <2>3. CASE i > Len(u)
    <3>1. Len(p) = 2 /\ i = Len(u) + 1
      <4>1. CASE Len(p) = 1
        BY <1>9, <2>3, <4>1
      <4>2. CASE Len(p) = 2
        BY <1>9, <2>3, <4>2
      <4> QED BY <1>9, <4>1, <4>2
    <3>2. 1 \in 1 .. Len(p) /\ 2 \in 1 .. Len(p)
      BY <3>1
    <3>3. v[Len(u) + 1] = p[1] /\ v[Len(u) + 2] = p[2]
      BY <1>5, <3>2
    <3>4. i + 1 = Len(u) + 2
      BY <1>9, <3>1
    <3> QED BY <1>4, <3>1, <3>3, <3>4
  <2> QED BY <1>9, <2>1, <2>2, <2>3
<1>11. v # <<>> /\ v[Len(v)].part # "first" /\ v[Len(v)].reply = id
  <2>1. Len(v) # 0
    BY <1>2, <1>4
  <2>2. Len(p) \in 1 .. Len(p) /\ v[Len(v)] = p[Len(p)]
    BY <1>2, <1>4, <1>5
  <2> QED BY <1>4, <2>1, <2>2, EmptySeq
<1>12. u # <<>> => v[1] = u[1]
  <2>1. u # <<>> => 1 \in 1 .. Len(u)
    BY <1>2, EmptySeq
  <2> QED BY <1>3, <2>1
<1>13. u = <<>> => v[1].reply = id /\ v[1].part # "second"
  BY <1>8, EmptySeq
<1>14. \A i \in DOMAIN v : (i \in DOMAIN u /\ v[i] = u[i]) \/ (v[i].reply = id /\ v[i].part # "rest")
  <2> SUFFICES ASSUME NEW i \in 1 .. Len(v), i \notin 1 .. Len(u)
               PROVE  v[i].reply = id /\ v[i].part # "rest"
    BY <1>2, <1>3
  <2>1. i - Len(u) \in 1 .. Len(p) /\ i = Len(u) + (i - Len(u))
    BY <1>2, <1>4
  <2>2. v[i] = p[i - Len(u)]
    BY <1>5, <2>1
  <2>3. i - Len(u) = 1 \/ (i - Len(u) = 2 /\ Len(p) = 2)
    <3>1. i - Len(u) \in Int
      BY <1>9
    <3>2. CASE Len(p) = 1
      BY <2>1, <3>1, <3>2
    <3>3. CASE Len(p) = 2
      BY <2>1, <3>1, <3>3
    <3> QED BY <1>9, <3>2, <3>3
  <2> QED BY <1>4, <2>2, <2>3
<1> QED BY <1>10, <1>11, <1>12, <1>13, <1>14 DEF v

LEMMA ServerReplyInStep == SyncInv /\ ServerReply => DiscardInv'
<1> SUFFICES ASSUME SyncInv, ServerReply PROVE DiscardInv'
  OBVIOUS
<1>1. /\ link = "up" /\ toServer # <<>>
      /\ UNCHANGED <<state, redisParser, buf, callVars, ec, failed, historyVars>>
  BY DEF ServerReply
<1>2. Wanted' = Wanted /\ Asked' = Asked
  BY <1>1 DEF Wanted, Asked, callVars, historyVars
<1>3. ASSUME InStep PROVE InStep'
  <2>1. /\ toServer \in Seq(Sent) /\ Len(toServer) \in Nat \ {0} /\ 1 \in DOMAIN toServer
        /\ DOMAIN toServer = 1 .. Len(toServer) /\ Head(toServer) = toServer[1]
        /\ Tail(toServer) \in Seq(Sent) /\ Len(Tail(toServer)) = Len(toServer) - 1
        /\ DOMAIN Tail(toServer) = 1 .. Len(Tail(toServer))
        /\ \A i \in 1 .. Len(Tail(toServer)) : Tail(toServer)[i] = toServer[i + 1]
    BY <1>1, EmptySeq, HeadTailProperties, LenProperties DEF SyncInv, TypeOK
  <2>2. ServerInStep
    BY <1>1, <1>3 DEF InStep
  <2>3. ~Head(toServer).cut /\ Head(toServer).id = Asked - Len(toServer) + 1
    BY <2>1, <2>2 DEF ServerInStep
  <2>4. /\ toServer' = Tail(toServer) /\ link' = "up"
        /\ \E q \in Pieces(Head(toServer).id) : toClient' = toClient \o q
    BY <1>1, <2>3 DEF ServerReply
  <2> DEFINE id == Asked - Len(toServer) + 1
  <2>5. /\ id = Answered + 1 /\ id \in Nat /\ id <= Asked
        /\ Stream = <<>> => id = Wanted
    <3>1. Asked - Len(toServer) = Answered
      BY <2>2 DEF ServerInStep
    <3>2. Head(toServer) \in Sent
      BY <2>1, ElementOfSeq
    <3>3. Head(toServer).id \in Nat
      BY <3>2 DEF Sent
    <3>4. Stream = <<>> => Answered = Wanted - 1
      BY DEF Answered
    <3> QED BY <2>1, <2>3, <3>1, <3>3, <3>4, NumberTypes
  <2>6. PICK p \in Pieces(id) : toClient' = toClient \o p
    BY <2>3, <2>4
  <2>7. Stream' = Stream \o p
    <3>1. buf \in Seq(Unit) /\ toClient \in Seq(Unit) /\ p \in Seq(Unit)
      BY <2>5, PieceTypes DEF Reply, SyncInv, TypeOK
    <3>2. Stream = buf \o toClient /\ Stream' = buf \o (toClient \o p)
      BY <1>1, <2>6 DEF Stream
    <3>3. buf \o (toClient \o p) = (buf \o toClient) \o p
      BY <3>1, ConcatRegroup
    <3> QED BY <3>2, <3>3
  <2>8. Stream # <<>> => Stream[Len(Stream)].part # "first" /\ Stream[Len(Stream)].reply = id - 1
    <3>1. Stream # <<>> => Answered = Stream[Len(Stream)].reply /\ Len(Stream) \in 1 .. Len(Stream)
      BY NumberTypes, EmptySeq DEF Answered
    <3> QED BY <2>2, <2>5, <3>1, NumberTypes DEF ServerInStep
  <2> HIDE DEF id
  <2>9. /\ Consecutive(Stream') /\ Stream' # <<>>
        /\ Stream'[Len(Stream')].part # "first" /\ Stream'[Len(Stream')].reply = id
        /\ Stream # <<>> => Stream'[1] = Stream[1]
        /\ Stream = <<>> => Stream'[1].reply = id /\ Stream'[1].part # "second"
        /\ \A i \in DOMAIN Stream' : \/ i \in DOMAIN Stream /\ Stream'[i] = Stream[i]
                                     \/ Stream'[i].reply = id /\ Stream'[i].part # "rest"
    <3>1. Stream \in Seq(Unit) /\ id \in Nat /\ Consecutive(Stream)
      BY <1>3, <2>5, NumberTypes DEF InStep
    <3> HIDE DEF Stream
    <3> QED BY <2>7, <2>8, <3>1, OneReplyMore
  <2>10. Consecutive(Stream)'
    BY <2>9 DEF Consecutive
  <2>11. StartsWith(Stream, Wanted, redisParser # Nil)'
    <3>1. CASE Stream = <<>>
      <4>1. redisParser = Nil
        BY <2>2, <3>1 DEF ServerInStep
      <4> QED BY <1>1, <1>2, <2>5, <2>9, <3>1, <4>1 DEF StartsWith
    <3>2. CASE Stream # <<>>
      BY <1>1, <1>2, <1>3, <2>9, <3>2 DEF StartsWith, InStep
    <3> QED BY <3>1, <3>2
  <2>12. UpTo(Stream, Asked)'
    BY <1>2, <1>3, <2>5, <2>9 DEF InStep, UpTo
  <2>13. ServerInStep'
    <3>1. \A i \in DOMAIN toServer' : ~toServer'[i].cut /\ toServer'[i].id = Asked' - Len(toServer') + i
      <4> SUFFICES ASSUME NEW i \in 1 .. Len(Tail(toServer))
                   PROVE  /\ ~Tail(toServer)[i].cut
                          /\ Tail(toServer)[i].id = Asked - Len(Tail(toServer)) + i
        BY <1>2, <2>1, <2>4
      <4>1. i + 1 \in DOMAIN toServer /\ Tail(toServer)[i] = toServer[i + 1]
        BY <2>1
      <4>2. ~toServer[i + 1].cut /\ toServer[i + 1].id = Asked - Len(toServer) + (i + 1)
        BY <2>2, <4>1 DEF ServerInStep
      <4> QED BY <2>1, <4>1, <4>2, NumberTypes
    <3>2. Answered' = id
      BY <2>9 DEF Answered
    <3>3. Asked' - Len(toServer') = id
      BY <1>2, <2>1, <2>4, NumberTypes DEF id
    <3>4. IF Stream' = <<>> THEN redisParser' = Nil ELSE Stream'[Len(Stream')].part # "first"
      BY <2>9
    <3> QED BY <3>1, <3>2, <3>3, <3>4 DEF ServerInStep
  <2> QED BY <1>1, <1>2, <1>3, <2>4, <2>10, <2>11, <2>12, <2>13 DEF InStep, callVars
<1>4. Answers(responses, issued - Len(toRead))' /\ RepliesMatch'
  BY <1>1, AnswersKept DEF callVars, historyVars
<1>5. loop' = loop /\ failed' = failed /\ ec' = ec
  BY <1>1 DEF callVars
<1> QED BY <1>3, <1>4, <1>5 DEF SyncInv, DiscardInv
\* The stream without its head, when that is the half of a reply, and when it ends one.
LEMMA HeadOff ==
    ASSUME NEW u \in Seq(Unit), u # <<>>, NEW w \in Nat, NEW second \in BOOLEAN, NEW last \in Nat,
           Consecutive(u), StartsWith(u, w, second), UpTo(u, last)
    PROVE  /\ Head(u).reply = w /\ (Head(u).part = "second" <=> second)
           /\ Consecutive(Tail(u)) /\ UpTo(Tail(u), last)
           /\ Head(u).part = "first" => StartsWith(Tail(u), w, TRUE)
           /\ Head(u).part # "first" => StartsWith(Tail(u), w + 1, FALSE)
           /\ Tail(u) # <<>> => Tail(u)[Len(Tail(u))] = u[Len(u)]
           /\ Tail(u) = <<>> => Head(u) = u[Len(u)]
<1> DEFINE t == Tail(u)
<1>1. /\ Len(u) \in Nat \ {0} /\ DOMAIN u = 1 .. Len(u) /\ Head(u) = u[1]
      /\ t \in Seq(Unit) /\ Len(t) = Len(u) - 1 /\ DOMAIN t = 1 .. Len(t)
      /\ \A i \in 1 .. Len(t) : t[i] = u[i + 1]
  BY EmptySeq, HeadTailProperties, LenProperties
<1>2. \A i \in 1 .. Len(u) - 1 :
         IF u[i].part = "first" THEN u[i + 1].reply = u[i].reply /\ u[i + 1].part = "second"
         ELSE u[i + 1].reply = u[i].reply + 1 /\ u[i + 1].part # "second"
  BY DEF Consecutive
<1>3. u[1].reply = w /\ (u[1].part = "second" <=> second)
  BY DEF StartsWith
<1> HIDE DEF t
<1>4. Consecutive(t)
  <2> SUFFICES ASSUME NEW i \in 1 .. Len(t) - 1
               PROVE  IF t[i].part = "first" THEN t[i + 1].reply = t[i].reply /\ t[i + 1].part = "second"
                      ELSE t[i + 1].reply = t[i].reply + 1 /\ t[i + 1].part # "second"
    BY DEF Consecutive
  <2>1. i + 1 \in 1 .. Len(u) - 1 /\ t[i] = u[i + 1] /\ t[i + 1] = u[(i + 1) + 1]
    BY <1>1
  <2> QED BY <1>2, <2>1
<1>5. UpTo(t, last)
  <2>1. \A i \in DOMAIN t : i + 1 \in DOMAIN u /\ t[i] = u[i + 1]
    BY <1>1
  <2> QED BY <2>1 DEF UpTo
<1>6. t # <<>> => 1 \in 1 .. Len(u) - 1 /\ t[1] = u[1 + 1] /\ t[Len(t)] = u[Len(u)]
  <2> SUFFICES ASSUME t # <<>> PROVE 1 \in 1 .. Len(u) - 1 /\ t[1] = u[1 + 1] /\ t[Len(t)] = u[Len(u)]
    OBVIOUS
  <2>1. Len(t) \in Nat \ {0}
    BY <1>1, EmptySeq
  <2>2. 1 \in 1 .. Len(t) /\ Len(t) \in 1 .. Len(t) /\ Len(t) + 1 = Len(u)
    BY <1>1, <2>1
  <2> QED BY <1>1, <2>2
<1>7. u[1].part = "first" => StartsWith(t, w, TRUE)
  BY <1>2, <1>3, <1>6 DEF StartsWith
<1>8. u[1].part # "first" => StartsWith(t, w + 1, FALSE)
  BY <1>2, <1>3, <1>6 DEF StartsWith
<1>9. t = <<>> => u[1] = u[Len(u)]
  <2>1. Len(t) = Len(u) - 1 /\ Len(u) \in Nat
    BY <1>1
  <2>2. Len(t) = 0 => Len(u) = 1
    BY <2>1
  <2>3. t = <<>> => Len(t) = 0
    BY EmptySeq
  <2> QED BY <2>2, <2>3
<1> QED BY <1>1, <1>3, <1>4, <1>5, <1>6, <1>7, <1>8, <1>9 DEF t

\* What the parser says of the next piece: the first half of the reply that is wanted,
\* or, at its end, that reply.
LEMMA ParsedInStep ==
    ASSUME SyncInv, InStep, buf # <<>>, NEW out \in Outcomes(Head(buf))
    PROVE  /\ Head(buf) = Head(Stream) /\ Stream # <<>> /\ Tail(buf) \o toClient = Tail(Stream)
           /\ \/ /\ out.result = "Incompleted" /\ out.parser = Wanted
                 /\ Head(Stream).part = "first"
              \/ /\ out.result = "Completed" /\ out.value = Wanted /\ out.parser = Nil
                 /\ Head(Stream).part # "first"
           /\ Unparsed(out.left) = Tail(buf)
<1>1. buf \in Seq(Unit) /\ toClient \in Seq(Unit) /\ Len(buf) \in Nat \ {0}
  BY EmptySeq DEF SyncInv, TypeOK
<1>2. /\ Stream # <<>> /\ Head(Stream) = Head(buf) /\ Head(Stream) = Stream[1]
      /\ Tail(Stream) = Tail(buf) \o toClient
  <2>1. Stream # <<>>
    BY <1>1, ConcatEqualIffEmpty DEF Stream
  <2>2. /\ Stream \in Seq(Unit) /\ Len(Stream) = Len(buf) + Len(toClient) /\ Len(toClient) \in Nat
        /\ \A i \in 1 .. Len(buf) + Len(toClient) :
              Stream[i] = IF i <= Len(buf) THEN buf[i] ELSE toClient[i - Len(buf)]
    BY <1>1, ConcatProperties, LenProperties DEF Stream
  <2>3. Head(Stream) = Stream[1] /\ Head(buf) = buf[1] /\ Stream[1] = buf[1]
    BY <1>1, <2>2
  <2>4. /\ Tail(Stream) \in Seq(Unit) /\ Len(Tail(Stream)) = Len(Stream) - 1
        /\ \A i \in 1 .. Len(Tail(Stream)) : Tail(Stream)[i] = Stream[i + 1]
    BY <2>1, <2>2, HeadTailProperties
  <2>5. /\ Tail(buf) \in Seq(Unit) /\ Len(Tail(buf)) = Len(buf) - 1
        /\ \A i \in 1 .. Len(Tail(buf)) : Tail(buf)[i] = buf[i + 1]
    BY <1>1, HeadTailProperties
  <2> DEFINE v == Tail(buf) \o toClient
  <2>6. /\ v \in Seq(Unit) /\ Len(v) = Len(Tail(buf)) + Len(toClient)
        /\ \A i \in 1 .. Len(Tail(buf)) + Len(toClient) :
              v[i] = IF i <= Len(Tail(buf)) THEN Tail(buf)[i] ELSE toClient[i - Len(Tail(buf))]
    BY <1>1, <2>5, ConcatProperties
  <2> HIDE DEF v
  <2>7. Len(v) = Len(Tail(Stream)) /\ \A i \in 1 .. Len(v) : v[i] = Tail(Stream)[i]
    <3>1. Len(v) = Len(Tail(Stream))
      BY <1>1, <2>2, <2>4, <2>5, <2>6
    <3>2. ASSUME NEW i \in 1 .. Len(v) PROVE v[i] = Tail(Stream)[i]
      <4>1. Tail(Stream)[i] = Stream[i + 1] /\ i + 1 \in 1 .. Len(buf) + Len(toClient)
        BY <1>1, <2>2, <2>4, <3>1
      <4>2. CASE i <= Len(buf) - 1
        BY <1>1, <2>2, <2>5, <2>6, <4>1, <4>2
      <4>3. CASE ~(i <= Len(buf) - 1)
        <5>1. (i + 1) - Len(buf) = i - Len(Tail(buf))
          BY <1>1, <2>5
        <5> QED BY <1>1, <2>2, <2>5, <2>6, <4>1, <4>3, <5>1
      <4> QED BY <4>2, <4>3
    <3> QED BY <3>1, <3>2
  <2> QED BY <2>1, <2>3, <2>4, <2>6, <2>7, SeqEqual DEF v
<1>3. /\ Head(Stream).reply = Wanted /\ (Head(Stream).part = "second" <=> redisParser # Nil)
  BY <1>2 DEF InStep, StartsWith
<1>4. redisParser \in {Nil, Wanted} /\ Wanted # Nil
  BY NumberTypes DEF InStep, Nil
<1>5. Head(Stream) \in Unit
  BY <1>2, NumberTypes, HeadTailProperties
<1>6. Head(Stream).part \in {"whole", "first", "second"}
  <2>1. Stream \in Seq(Unit)
    BY <1>1, ConcatProperties DEF Stream
  <2>2. 1 \in DOMAIN Stream
    BY <1>2, <2>1, EmptySeq, LenProperties
  <2>3. Head(Stream).part # "rest"
    BY <1>2, <2>2 DEF InStep, UpTo
  <2> QED BY <1>5, <2>3 DEF Unit
<1>7. /\ \/ /\ out.result = "Incompleted" /\ out.parser = Wanted
            /\ Head(Stream).part = "first"
         \/ /\ out.result = "Completed" /\ out.value = Wanted /\ out.parser = Nil
            /\ Head(Stream).part # "first"
      /\ out.left = 0
  <2>1. out \in Outcomes(Head(Stream))
    BY <1>2
  <2>2. CASE redisParser = Nil /\ Head(Stream).part = "first"
    BY <1>3, <2>1, <2>2 DEF Outcomes
  <2>3. CASE redisParser = Nil /\ Head(Stream).part = "whole"
    BY <1>3, <2>1, <2>3 DEF Outcomes
  <2>4. CASE redisParser = Wanted /\ Head(Stream).part = "second"
    BY <1>3, <1>4, <2>1, <2>4 DEF Outcomes
  <2> QED BY <1>3, <1>4, <1>6, <2>2, <2>3, <2>4
<1>8. Unparsed(out.left) = Tail(buf)
  BY <1>7 DEF Unparsed
<1> QED BY <1>2, <1>7, <1>8
LEMMA AnswersAppend ==
    ASSUME NEW replies \in Seq(Reply), NEW last \in Nat, Answers(replies, last)
    PROVE  Answers(Append(replies, last + 1), last + 1)
<1> DEFINE more == Append(replies, last + 1)
<1>1. /\ Len(replies) \in Nat /\ DOMAIN replies = 1 .. Len(replies) /\ last + 1 \in Reply
  BY LenProperties DEF Reply
<1>2. /\ more \in Seq(Reply) /\ Len(more) = Len(replies) + 1
      /\ \A i \in 1 .. Len(replies) : more[i] = replies[i]
      /\ more[Len(replies) + 1] = last + 1
  BY <1>1, AppendProperties
<1>3. DOMAIN more = 1 .. Len(replies) + 1
  BY <1>2, LenProperties
<1> HIDE DEF more
<1>4. ASSUME NEW i \in 1 .. Len(replies) + 1
      PROVE  more[i] = (last + 1) - (Len(replies) + 1) + i
  <2>1. CASE i = Len(replies) + 1
    BY <1>1, <1>2, <2>1
  <2>2. CASE i # Len(replies) + 1
    <3>1. i \in 1 .. Len(replies)
      BY <1>1, <2>2
    <3>2. more[i] = last - Len(replies) + i
      BY <1>1, <1>2, <3>1 DEF Answers
    <3> QED BY <1>1, <3>1, <3>2
  <2> QED BY <2>1, <2>2
<1> QED BY <1>2, <1>3, <1>4 DEF Answers, more

\* The reply that was wanted has been read: the call goes on, or returns what it asked for.
LEMMA ResponseInStep ==
    ASSUME SyncInv, loop = "read", Response(Wanted), issued' = issued
    PROVE  /\ Len(toRead') = Len(toRead) - 1
           /\ Answers(responses, issued - Len(toRead))' /\ RepliesMatch'
<1>1. /\ toRead \in Seq(Nat) /\ responses \in Seq(Reply) /\ toRead # <<>>
      /\ Len(toRead) \in Nat \ {0} /\ Len(Tail(toRead)) = Len(toRead) - 1
  BY EmptySeq, HeadTailProperties DEF SyncInv, TypeOK
<1>2. issued - Len(toRead) \in Nat /\ Wanted = (issued - Len(toRead)) + 1
  BY NumberTypes DEF Wanted
<1> DEFINE replies == Append(responses, Wanted)
<1>3. Answers(replies, (issued - Len(toRead)) + 1)
  BY <1>1, <1>2, AnswersAppend DEF SyncInv, DiscardInv
<1>4. replies \in Seq(Reply) /\ Len(replies) = Len(responses) + 1 /\ DOMAIN replies = 1 .. Len(replies)
  <2>1. Wanted \in Reply
    BY <1>2 DEF Reply
  <2> QED BY <1>1, <2>1, AppendProperties, LenProperties
<1> HIDE DEF replies
<1>5. CASE LastOne(toRead)
  <2>1. toRead' = <<>> /\ responses' = <<>> /\ CallReturns(replies) /\ Len(toRead) = 1
    BY <1>5 DEF Response, replies, LastOne
  <2>2. Len(replies) <= issued /\ TypedInv
    BY <1>4, <2>1, NumberTypes DEF SyncInv, TypedInv
  <2>3. PICK requests \in Seq(Nat) :
           /\ returned' = Append(returned, [requests |-> requests, replies |-> replies])
           /\ Len(requests) = Len(replies)
           /\ \A i \in 1 .. Len(replies) : requests[i] = issued - Len(replies) + i
    BY <1>4, <2>1, <2>2, ReturnsTyped
  <2>4. \A i \in 1 .. Len(replies) : replies[i] = requests[i]
    <3>1. (issued - Len(toRead)) + 1 = issued
      BY <2>1, NumberTypes
    <3> QED BY <1>3, <1>4, <2>3, <3>1 DEF Answers
  <2>5. replies = requests
    <3>1. requests \in Seq(Reply)
      <4>1. Len(requests) \in Nat /\ DOMAIN requests = 1 .. Len(requests)
        BY <2>3, LenProperties
      <4>2. \A i \in 1 .. Len(requests) : requests[i] \in Reply
        BY <2>3, ElementOfSeq DEF Reply
      <4> QED BY <2>3, <4>1, <4>2, SeqDef DEF Reply
    <3> QED BY <1>4, <2>3, <2>4, <3>1, SeqEqual
  <2>6. RepliesMatch'
    <3> DEFINE record == [requests |-> requests, replies |-> replies]
               Record == [requests : Seq(Nat), replies : Seq(Reply)]
    <3>1. record \in Record /\ record.replies = record.requests /\ returned \in Seq(Record)
      BY <1>4, <2>3, <2>5 DEF SyncInv, TypeOK
    <3>2. returned' = Append(returned, record)
      BY <2>3
    <3> HIDE DEF record, Record
    <3>3. /\ DOMAIN returned' = 1 .. Len(returned) + 1 /\ DOMAIN returned = 1 .. Len(returned)
          /\ Len(returned) \in Nat
          /\ \A i \in 1 .. Len(returned) : returned'[i] = returned[i]
          /\ returned'[Len(returned) + 1] = record
      BY <3>1, <3>2, AppendProperties, LenProperties
    <3>4. \A i \in 1 .. Len(returned) + 1 : i \in 1 .. Len(returned) \/ i = Len(returned) + 1
      BY <3>3
    <3> QED BY <3>1, <3>3, <3>4 DEF SyncInv, DiscardInv, RepliesMatch
  <2>7. Answers(responses, issued - Len(toRead))'
    BY <2>1, EmptySeq DEF Answers
  <2> QED BY <2>1, <2>6, <2>7, EmptySeq
<1>6. CASE ~LastOne(toRead)
  <2>1. toRead' = Tail(toRead) /\ responses' = replies /\ returned' = returned
    BY <1>6 DEF Response, replies
  <2>2. issued' - Len(toRead') = (issued - Len(toRead)) + 1
    BY <1>1, <2>1, NumberTypes
  <2>3. Answers(responses, issued - Len(toRead))'
    BY <1>3, <2>1, <2>2 DEF Answers
  <2> QED BY <1>1, <2>1, <2>3 DEF SyncInv, DiscardInv, RepliesMatch
<1> QED BY <1>5, <1>6
LEMMA ParseInStep == SyncInv /\ Parse => DiscardInv'
<1> SUFFICES ASSUME SyncInv, Parse PROVE DiscardInv'
  OBVIOUS
<1>1. /\ loop = "read" /\ buf # <<>>
      /\ UNCHANGED <<state, linkVars, issued, turns>>
  BY DEF Parse
<1>2. ~failed /\ ~ec /\ InStep /\ toRead # <<>>
  BY <1>1 DEF SyncInv, DiscardInv, TypeOK
<1>3. PICK out \in Outcomes(Head(buf)) :
        /\ redisParser' = out.parser /\ buf' = Unparsed(out.left)
        /\ \/ out.result = "Completed" /\ Response(out.value)
           \/ out.result = "Incompleted" /\ UNCHANGED <<callVars, ec, failed, answers, returned>>
           \/ out.result = "Error" /\ Throws /\ CallFails(ec) /\ UNCHANGED answers
           \/ out.result = "Error" /\ ~Throws /\ Response(Nil)
  BY DEF Parse
<1>4. /\ Stream # <<>> /\ Tail(buf) \o toClient = Tail(Stream)
      /\ \/ out.result = "Incompleted" /\ out.parser = Wanted /\ Head(Stream).part = "first"
         \/ /\ out.result = "Completed" /\ out.value = Wanted /\ out.parser = Nil
            /\ Head(Stream).part # "first"
      /\ Unparsed(out.left) = Tail(buf)
  BY <1>1, <1>2, ParsedInStep
<1>5. Stream' = Tail(Stream)
  BY <1>1, <1>3, <1>4 DEF Stream, linkVars
<1>6. /\ Head(Stream).reply = Wanted
      /\ Consecutive(Tail(Stream)) /\ UpTo(Tail(Stream), Asked)
      /\ Head(Stream).part = "first" => StartsWith(Tail(Stream), Wanted, TRUE)
      /\ Head(Stream).part # "first" => StartsWith(Tail(Stream), Wanted + 1, FALSE)
      /\ Tail(Stream) # <<>> => Tail(Stream)[Len(Tail(Stream))] = Stream[Len(Stream)]
      /\ Tail(Stream) = <<>> => Head(Stream) = Stream[Len(Stream)]
  <2>1. /\ Stream \in Seq(Unit) /\ Wanted \in Nat /\ Asked \in Nat /\ (redisParser # Nil) \in BOOLEAN
        /\ Consecutive(Stream) /\ StartsWith(Stream, Wanted, redisParser # Nil)
        /\ UpTo(Stream, Asked)
    BY <1>2, NumberTypes DEF InStep
  <2> HIDE DEF Stream, Wanted, Asked
  <2> QED BY <1>4, <2>1, HeadOff
<1>7. link = "up" => /\ Stream[Len(Stream)].part # "first"
                     /\ \A i \in DOMAIN toServer : /\ ~toServer[i].cut
                                                   /\ toServer[i].id = Asked - Len(toServer) + i
                     /\ Asked - Len(toServer) = Stream[Len(Stream)].reply
  BY <1>2, <1>4 DEF InStep, ServerInStep, Answered
<1>8. Nil # Wanted /\ Wanted \in Nat
  BY NumberTypes DEF Nil
<1>9. CASE out.result = "Incompleted"
  <2>1. /\ redisParser' = Wanted /\ Head(Stream).part = "first"
        /\ UNCHANGED <<callVars, ec, failed, answers, returned>>
    BY <1>3, <1>4, <1>9
  <2>2. Wanted' = Wanted /\ Asked' = Asked
    BY <1>1, <2>1 DEF Wanted, Asked, callVars
  <2>3. Consecutive(Stream)' /\ StartsWith(Stream, Wanted, redisParser # Nil)' /\ UpTo(Stream, Asked)'
    BY <1>5, <1>6, <1>8, <2>1, <2>2 DEF Consecutive, StartsWith, UpTo
  <2>4. link = "up" => ServerInStep'
    <3>1. link = "up" => Tail(Stream) # <<>>
      BY <1>6, <1>7, <2>1
    <3> QED BY <1>1, <1>5, <1>6, <1>7, <2>2, <3>1 DEF ServerInStep, Answered, linkVars
  <2>5. InStep'
    BY <1>1, <1>2, <2>1, <2>2, <2>3, <2>4 DEF InStep, linkVars, callVars
  <2>6. Answers(responses, issued - Len(toRead))' /\ RepliesMatch'
    BY <1>1, <2>1, AnswersKept DEF callVars
  <2> QED BY <1>2, <2>1, <2>5, <2>6 DEF DiscardInv, callVars
<1>10. CASE out.result = "Completed"
  <2>1. redisParser' = Nil /\ Head(Stream).part # "first" /\ Response(Wanted)
    BY <1>3, <1>4, <1>10
  <2>2. /\ Len(toRead') = Len(toRead) - 1
        /\ Answers(responses, issued - Len(toRead))' /\ RepliesMatch'
    BY <1>1, <2>1, ResponseInStep
  <2>3. UNCHANGED <<toWrite, ec, failed>>
    BY <2>1 DEF Response
  <2>4. Wanted' = Wanted + 1 /\ Asked' = Asked
    <3>1. Wanted' = issued - (Len(toRead) - 1) + 1
      BY <1>1, <2>2 DEF Wanted
    <3> QED BY <1>1, <2>3, <3>1, NumberTypes DEF Wanted, Asked
  <2>5. Consecutive(Stream)' /\ StartsWith(Stream, Wanted, redisParser # Nil)' /\ UpTo(Stream, Asked)'
    BY <1>5, <1>6, <2>1, <2>4 DEF Consecutive, StartsWith, UpTo
  <2>6. link = "up" => ServerInStep'
    <3> SUFFICES ASSUME link = "up" PROVE ServerInStep'
      OBVIOUS
    <3>1. Answered' = Stream[Len(Stream)].reply
      <4>1. CASE Tail(Stream) = <<>>
        <5>1. Answered' = Wanted' - 1
          BY <1>5, <4>1 DEF Answered
        <5>2. Answered' = Wanted
          BY <1>8, <2>4, <5>1
        <5> QED BY <1>6, <4>1, <5>2
      <4>2. CASE Tail(Stream) # <<>>
        BY <1>5, <1>6, <4>2 DEF Answered
      <4> QED BY <4>1, <4>2
    <3> QED BY <1>1, <1>5, <1>6, <1>7, <2>1, <2>4, <3>1 DEF ServerInStep, linkVars
  <2>7. InStep'
    BY <1>1, <1>2, <2>1, <2>4, <2>5, <2>6 DEF InStep, linkVars
  <2> QED BY <1>2, <2>2, <2>3, <2>7 DEF DiscardInv
<1> QED BY <1>4, <1>9, <1>10

LEMMA SyncNext == SyncInv /\ Discipline = "discard" /\ [Next]_vars => SyncInv'
<1> SUFFICES ASSUME SyncInv, Discipline = "discard", [Next]_vars PROVE SyncInv'
  OBVIOUS
<1>1. TypeOK' /\ CallInv'
  BY TypedNext DEF SyncInv, TypedInv
<1>2. DiscardInv'
  <2>1. CASE UNCHANGED vars
    BY <2>1 DEF vars, linkVars, callVars, historyVars, SyncInv, DiscardInv, InStep, Consecutive,
                StartsWith, UpTo, ServerInStep, Answered, Stream, Wanted, Asked, Answers, RepliesMatch
  <2>2. CASE \E n \in 1 .. MaxPipeline : Call(n)
    <3>1. \A n \in 1 .. MaxPipeline : n \in Nat \ {0}
      BY SyncAssumption DEF SyncAssumption
    <3> QED BY <2>2, <3>1, CallInStep
  <2>3. ~Disconnect /\ ~CallRefused
    BY DEF Disconnect, MayDisconnect, CallRefused
  <2> QED
    BY <2>1, <2>2, <2>3, ConnectInStep, DiscardInStep, WriteInStep, ReadInStep, ParseInStep,
       ServerReplyInStep, LinkDropsInStep DEF Next, App, Network
<1> QED BY <1>1, <1>2 DEF SyncInv

\* While nothing has failed, what has been answered, what is under way, what the server
\* has and what is still to be sent are the requests of the call, in order and without a gap.
THEOREM SyncKept == ASSUME Discipline = "discard" PROVE Spec => []SyncInv
<1>1. SyncInv /\ [Next]_vars => SyncInv'
  BY SyncNext
<1> QED BY <1>1, SyncInit, PTL DEF Spec

\* pipeline.h:30, "For every request command will get response value": each request of a
\* call that returns a value gets the reply to that request (redisclientimpl.cpp:386-416).
THEOREM CallsAnswered == ASSUME Discipline = "discard" PROVE Spec => []RepliesMatch
<1>1. SyncInv => RepliesMatch
  BY DEF SyncInv, DiscardInv
<1> QED BY <1>1, SyncKept, PTL

\* Between the calls of a client that has not failed, neither the parser, nor the buffer,
\* nor the connection holds anything that the next call could take for its own reply.
THEOREM NothingLeftOver == ASSUME Discipline = "discard" PROVE Spec => []QuietBetweenCalls
<1>1. SyncInv => QuietBetweenCalls
  BY Quiet DEF QuietBetweenCalls
<1> QED BY <1>1, SyncKept, PTL
\* The client says Connected only of a socket that was connected since it was last closed,
\* however often connect is called on a socket that is open (redissyncclient.cpp:54-59).
THEOREM ConnectedMeansSocket == Spec => []ConnectedImpliesSocket
<1>1. Init => ConnectedImpliesSocket
  BY DEF Init, ConnectedImpliesSocket
<1>2. ConnectedImpliesSocket /\ [Next]_vars => ConnectedImpliesSocket'
  <2> SUFFICES ASSUME ConnectedImpliesSocket, [Next]_vars PROVE ConnectedImpliesSocket'
    OBVIOUS
  <2>1. CASE Connect
    BY <2>1 DEF Connect, ConnectSucceeds, ConnectFails, Refused, ConnectedImpliesSocket
  <2>2. CASE Disconnect \/ Discard
    BY <2>2 DEF Disconnect, Close, Discard, ConnectedImpliesSocket
  <2>3. CASE CallRefused \/ \E n \in 1 .. MaxPipeline : Call(n)
    BY <2>3 DEF CallRefused, Call, linkVars, ConnectedImpliesSocket
  <2>4. CASE Write
    BY <2>4 DEF Write, WriteRequest, WriteFails, ConnectedImpliesSocket
  <2>5. CASE Read \/ Parse
    BY <2>5 DEF Read, ReadSome, ReadFails, Parse, linkVars, ConnectedImpliesSocket
  <2>6. CASE Network
    BY <2>6 DEF Network, ServerReply, LinkDrops, ConnectedImpliesSocket
  <2>7. CASE UNCHANGED vars
    BY <2>7 DEF vars, linkVars, ConnectedImpliesSocket
  <2> QED BY <2>1, <2>2, <2>3, <2>4, <2>5, <2>6, <2>7 DEF Next, App
<1> QED BY <1>1, <1>2, PTL DEF Spec
-----------------------------------------------------------------------------
(* The abstract channel.                                                   *)

Mapped(s) == [i \in DOMAIN s |-> <<s[i].request, s[i].reply>>]

LEMMA MappedAppend ==
    ASSUME NEW s \in Seq([request : Nat, reply : Reply]), NEW e \in [request : Nat, reply : Reply]
    PROVE  Mapped(Append(s, e)) = Append(Mapped(s), <<e.request, e.reply>>)
<1> DEFINE Pair == Nat \X Reply
           Record == [request : Nat, reply : Reply]
           more == Append(s, e)
           pair == <<e.request, e.reply>>
<1>0. s \in Seq(Record) /\ e \in Record
  OBVIOUS
<1>1. /\ DOMAIN s = 1 .. Len(s) /\ Len(s) \in Nat /\ \A i \in 1 .. Len(s) : s[i] \in Record
      /\ more \in Seq(Record) /\ Len(more) = Len(s) + 1
      /\ \A i \in 1 .. Len(s) : more[i] = s[i]
      /\ more[Len(s) + 1] = e
  <2> HIDE DEF Record
  <2> QED BY <1>0, LenProperties, ElementOfSeq, AppendProperties
<1>2. DOMAIN more = 1 .. Len(s) + 1 /\ \A i \in 1 .. Len(s) + 1 : more[i] \in Record
  BY <1>1, LenProperties, ElementOfSeq
<1>3. \A r \in Record : <<r.request, r.reply>> \in Pair
  OBVIOUS
<1>4. Mapped(s) \in [DOMAIN s -> Pair] /\ Mapped(more) \in [DOMAIN more -> Pair] /\ pair \in Pair
  BY <1>1, <1>2, <1>3 DEF Mapped
<1>5. /\ Mapped(s) \in Seq(Pair) /\ Len(Mapped(s)) = Len(s)
      /\ Mapped(more) \in Seq(Pair) /\ Len(Mapped(more)) = Len(s) + 1
  <2> HIDE DEF Pair, Record, more
  <2>1. Mapped(s) \in Seq(Pair) /\ Len(Mapped(s)) = Len(s)
    BY <1>0, <1>4, MappedSeq
  <2>2. Mapped(more) \in Seq(Pair) /\ Len(Mapped(more)) = Len(more)
    <3>1. more \in Seq(Record) /\ Mapped(more) \in [DOMAIN more -> Pair]
      BY <1>1, <1>4
    <3> QED BY <3>1, MappedSeq
  <2> QED BY <1>1, <2>1, <2>2
<1>6. /\ Append(Mapped(s), pair) \in Seq(Pair) /\ Len(Append(Mapped(s), pair)) = Len(s) + 1
      /\ \A i \in 1 .. Len(s) : Append(Mapped(s), pair)[i] = Mapped(s)[i]
      /\ Append(Mapped(s), pair)[Len(s) + 1] = pair
  <2> HIDE DEF Pair, pair
  <2> QED BY <1>4, <1>5, AppendProperties
<1> HIDE DEF Pair, Record, more
<1>7. ASSUME NEW i \in 1 .. Len(s) + 1
      PROVE  Mapped(more)[i] = Append(Mapped(s), pair)[i]
  <2>1. Mapped(more)[i] = <<more[i].request, more[i].reply>>
    BY <1>2 DEF Mapped
  <2>2. CASE i = Len(s) + 1
    BY <1>1, <1>6, <2>1, <2>2
  <2>3. CASE i # Len(s) + 1
    <3>1. i \in 1 .. Len(s) /\ i \in DOMAIN s
      BY <1>1, <2>3
    <3>2. Mapped(s)[i] = <<s[i].request, s[i].reply>>
      BY <3>1 DEF Mapped
    <3> QED BY <1>1, <1>6, <2>1, <3>1, <3>2
  <2> QED BY <2>2, <2>3
<1> QED BY <1>5, <1>6, <1>7, SeqEqual DEF more

LEMMA AbstractInit == Init => Abstract!Init
<1> SUFFICES ASSUME Init PROVE Abstract!Init
  OBVIOUS
<1>1. Mapped(answers) \in Seq(Nat) /\ Len(Mapped(answers)) = 0
  <2>1. answers = <<>> /\ answers \in Seq(Nat) /\ DOMAIN answers = 1 .. 0 /\ DOMAIN answers = {}
    BY EmptySeq DEF Init
  <2>2. Mapped(answers) \in [1 .. 0 -> Nat]
    BY <2>1 DEF Mapped
  <2> QED BY <2>2, SequenceOf
<1>2. Mapped(answers) = <<>>
  BY <1>1, EmptySeq
<1> QED BY <1>2 DEF Init, Abstract!Init, Mapped

LEMMA AbstractStutter ==
    ASSUME UNCHANGED <<issued, toRead, answers>>
    PROVE  UNCHANGED Abstract!vars
BY DEF Abstract!vars

LEMMA AbstractClear ==
    ASSUME NEW error, CallFails(error), UNCHANGED <<issued, answers>>
    PROVE  Abstract!Next
BY DEF CallFails, Abstract!Next, Abstract!Clear

LEMMA AbstractIssue ==
    ASSUME SyncInv, NEW n \in Nat \ {0}, Call(n)
    PROVE  Abstract!Next
<1> DEFINE requests == [i \in 1 .. n |-> issued + i]
<1>1. /\ loop = "none" /\ issued' = issued + n /\ toRead' = requests /\ answers' = answers
  BY DEF Call
<1>2. issued \in Nat /\ toRead = <<>>
  BY <1>1, NumberTypes DEF SyncInv, TypeOK
<1>3. issued' - issued = n /\ issued' > issued
  BY <1>1, <1>2
<1>4. requests \in Seq(Nat)
  <2>1. requests \in [1 .. n -> Nat]
    BY <1>2
  <2> QED BY <2>1, SequenceOf
<1>5. toRead \o requests = requests
  <2> HIDE DEF requests
  <2> QED BY <1>2, <1>4, ConcatEmptySeq
<1>6. toRead' = toRead \o [i \in 1 .. issued' - issued |-> issued + i]
  BY <1>1, <1>3, <1>5
<1> QED BY <1>1, <1>3, <1>6 DEF Abstract!Next, Abstract!Issue

LEMMA AbstractAnswer ==
    ASSUME SyncInv, loop = "read", Response(Wanted), issued' = issued
    PROVE  Abstract!Next
<1>1. toRead \in Seq(Nat) /\ toRead # <<>> /\ Len(toRead) \in Nat \ {0} /\ 1 \in DOMAIN toRead
  BY EmptySeq, LenProperties DEF SyncInv, TypeOK
<1>2. Head(toRead) = Wanted
  <2>1. Head(toRead) = toRead[1] /\ toRead[1] = issued - Len(toRead) + 1
    BY <1>1 DEF SyncInv, CallInv, LastOnes
  <2> QED BY <2>1 DEF Wanted
<1>3. toRead' = Tail(toRead)
  <2>1. CASE LastOne(toRead)
    <3>1. toRead' = <<>> /\ Len(toRead) = 1
      BY <2>1 DEF Response, LastOne
    <3>2. Tail(toRead) \in Seq(Nat) /\ Len(Tail(toRead)) = 0
      BY <1>1, <3>1, HeadTailProperties
    <3> QED BY <3>1, <3>2, EmptySeq
  <2>2. CASE ~LastOne(toRead)
    BY <2>2 DEF Response
  <2> QED BY <2>1, <2>2
<1>4. Mapped(answers') = Append(Mapped(answers), <<Wanted, Wanted>>)
  <2> DEFINE e == [request |-> Wanted, reply |-> Wanted]
  <2>1. answers' = Append(answers, e)
    BY <1>2 DEF Response
  <2>2. e \in [request : Nat, reply : Reply] /\ answers \in Seq([request : Nat, reply : Reply])
    BY NumberTypes DEF Reply, SyncInv, TypeOK
  <2>3. Mapped(Append(answers, e)) = Append(Mapped(answers), <<e.request, e.reply>>)
    BY <2>2, MappedAppend
  <2> QED BY <2>1, <2>3
<1>5. Abstract!Answer
  BY <1>1, <1>2, <1>3, <1>4 DEF Abstract!Answer, Mapped
<1> QED BY <1>5 DEF Abstract!Next

LEMMA AbstractNext == SyncInv /\ Discipline = "discard" /\ [Next]_vars => [Abstract!Next]_Abstract!vars
<1> SUFFICES ASSUME SyncInv, Discipline = "discard", [Next]_vars
             PROVE  Abstract!Next \/ UNCHANGED Abstract!vars
  OBVIOUS
<1>1. CASE UNCHANGED vars \/ Connect \/ Discard \/ ReadSome \/ Network
  BY <1>1, AbstractStutter DEF vars, historyVars, callVars, Connect, Discard, ReadSome, Network,
                               ServerReply, LinkDrops
<1>2. CASE \E n \in 1 .. MaxPipeline : Call(n)
  <2>1. \A n \in 1 .. MaxPipeline : n \in Nat \ {0}
    BY SyncAssumption DEF SyncAssumption
  <2> QED BY <1>2, <2>1, AbstractIssue
<1>3. CASE Write
  <2>1. UNCHANGED <<issued, answers>> /\ (CallFails(TRUE) \/ UNCHANGED toRead)
    BY <1>3 DEF Write, WriteRequest, WriteFails
  <2> QED BY <2>1, AbstractClear, AbstractStutter
<1>4. CASE ReadFails
  BY <1>4, AbstractClear DEF ReadFails
<1>5. CASE Parse
  <2>1. loop = "read" /\ buf # <<>> /\ issued' = issued
    BY <1>5 DEF Parse
  <2>2. InStep
    BY <2>1 DEF SyncInv, DiscardInv
  <2>3. PICK out \in Outcomes(Head(buf)) :
           \/ out.result = "Completed" /\ Response(out.value)
           \/ out.result = "Incompleted" /\ UNCHANGED <<callVars, ec, failed, answers, returned>>
           \/ out.result = "Error"
    BY <1>5 DEF Parse
  <2>4. out.result = "Incompleted" \/ (out.result = "Completed" /\ out.value = Wanted)
    BY <2>1, <2>2, ParsedInStep
  <2>5. Response(Wanted) \/ UNCHANGED <<toRead, answers>>
    BY <2>3, <2>4 DEF callVars
  <2> QED BY <2>1, <2>5, AbstractAnswer, AbstractStutter
<1>6. ~Disconnect /\ ~CallRefused
  BY DEF Disconnect, MayDisconnect, CallRefused
<1> QED BY <1>1, <1>2, <1>3, <1>4, <1>5, <1>6 DEF Next, App, Read

\* A client that is thrown away after a failure is a request/reply channel: requests are
\* answered in order, each by its own reply, and given up only all at once.
THEOREM SyncImplementsRequestReply ==
    ASSUME Discipline = "discard" PROVE Spec => ImplementsRequestReply
<1>1. SyncInv /\ [Next]_vars => [Abstract!Next]_Abstract!vars
  BY AbstractNext
<1> QED
  BY <1>1, AbstractInit, SyncKept, PTL DEF Spec, ImplementsRequestReply, Abstract!Spec

-----------------------------------------------------------------------------
(* The order of the answers, whatever the application does after failures. *)
(* The replies that have been read reach up to `got`, the pieces under way *)
(* from there up to the last reply of the server, and the requests it      *)
(* still has from there up to the youngest one sent.  A failure only takes *)
(* things away; what the parser makes of a piece that does not fit answers *)
(* no request.  The first half of a reply takes no room, so that a reply   *)
(* is read as a whole when its second half is.                             *)

RealPiece  == {u \in Unit : u.reply > Nil /\ u.part # "rest"}
PieceStart == [u \in Unit |-> u.reply - 1]
PieceEnd   == [u \in Unit |-> IF u.part = "first" THEN u.reply - 1 ELSE u.reply]

SentStart == [r \in Sent |-> r.id - 1]
SentEnd   == [r \in Sent |-> r.id]

AnswerRecord == [request : Nat, reply : Reply]
RealAnswer   == {a \in AnswerRecord : a.reply > Nil}
AnswerStart  == [a \in AnswerRecord |-> a.reply - 1]
AnswerEnd    == [a \in AnswerRecord |-> a.reply]

Line(got, back) ==
    /\ got <= back /\ back <= Asked
    /\ InOrder(answers, RealAnswer, AnswerStart, AnswerEnd, 0, got)
    /\ InOrder(Stream, RealPiece, PieceStart, PieceEnd, got, back)
    /\ InOrder(toServer, Sent, SentStart, SentEnd, back, Asked)

OrderInv == \E got, back \in Nat : Line(got, back)

LEMMA LineTypes ==
    /\ RealPiece \in SUBSET Unit /\ PieceStart \in [Unit -> Int] /\ PieceEnd \in [Unit -> Int]
    /\ Sent \in SUBSET Sent /\ SentStart \in [Sent -> Int] /\ SentEnd \in [Sent -> Int]
    /\ RealAnswer \in SUBSET AnswerRecord
    /\ AnswerStart \in [AnswerRecord -> Int] /\ AnswerEnd \in [AnswerRecord -> Int]
<1>1. \A u \in Unit : u.reply \in Int
  BY DEF Unit, Reply, Garbage
<1>2. \A r \in Sent : r.id \in Int
  BY DEF Sent
<1>3. \A a \in AnswerRecord : a.reply \in Int
  BY DEF AnswerRecord, Reply, Garbage
<1>4. RealPiece \in SUBSET Unit /\ PieceStart \in [Unit -> Int] /\ PieceEnd \in [Unit -> Int]
  BY <1>1 DEF RealPiece, PieceStart, PieceEnd
<1>5. SentStart \in [Sent -> Int] /\ SentEnd \in [Sent -> Int]
  BY <1>2 DEF SentStart, SentEnd
<1>6. /\ RealAnswer \in SUBSET AnswerRecord
      /\ AnswerStart \in [AnswerRecord -> Int] /\ AnswerEnd \in [AnswerRecord -> Int]
  BY <1>3 DEF RealAnswer, AnswerStart, AnswerEnd
<1> QED BY <1>4, <1>5, <1>6

\* The types of what is in order.
OrderTyped ==
    /\ issued \in Nat /\ Len(toWrite) \in Nat /\ Len(toWrite) <= issued /\ Asked \in Nat
    /\ buf \in Seq(Unit) /\ toClient \in Seq(Unit) /\ Stream \in Seq(Unit)
    /\ toServer \in Seq(Sent) /\ answers \in Seq(AnswerRecord)

LEMMA OrderTypes == TypedInv => OrderTyped
<1> SUFFICES ASSUME TypedInv PROVE OrderTyped
  OBVIOUS
<1>1. /\ issued \in Nat /\ buf \in Seq(Unit) /\ toClient \in Seq(Unit)
      /\ toServer \in Seq(Sent) /\ answers \in Seq(AnswerRecord)
  BY DEF TypedInv, TypeOK, AnswerRecord
<1>2. Len(toWrite) \in Nat /\ Len(toRead) \in Nat /\ Len(responses) \in Nat
  BY LenProperties DEF TypedInv, TypeOK
<1>3. Len(toWrite) <= issued
  BY <1>1, <1>2 DEF TypedInv, CallInv
<1>4. Stream \in Seq(Unit)
  BY <1>1, ConcatProperties DEF Stream
<1> QED BY <1>1, <1>2, <1>3, <1>4 DEF Asked, OrderTyped

\* What a step may do to the requests with the server: nothing, or lose them all.
LEMMA ServerKeepsOrder ==
    ASSUME OrderTyped, OrderTyped', Asked <= Asked', NEW back \in Nat,
           InOrder(toServer, Sent, SentStart, SentEnd, back, Asked),
           toServer' = toServer \/ toServer' = <<>>
    PROVE  InOrder(toServer', Sent, SentStart, SentEnd, back, Asked')
<1>1. CASE toServer' = <<>>
  BY <1>1, OrderEmpty
<1>2. CASE toServer' = toServer
  <2>1. /\ back \in Int /\ Asked \in Int /\ Asked' \in Int
        /\ back <= back /\ Asked <= Asked'
    BY DEF OrderTyped
  <2>2. \A lo, hi, l, h \in Int :
           l <= lo /\ hi <= h /\ InOrder(toServer, Sent, SentStart, SentEnd, lo, hi)
              => InOrder(toServer, Sent, SentStart, SentEnd, l, h)
    BY LineTypes, OrderWider DEF OrderTyped
  <2> QED BY <1>2, <2>1, <2>2
<1> QED BY <1>1, <1>2

\* A step that takes pieces of replies and requests away and answers nothing.
LEMMA OnlyTaken ==
    ASSUME OrderTyped, OrderTyped', OrderInv, UNCHANGED answers, Asked <= Asked',
           \A lo, hi \in Int : InOrder(Stream, RealPiece, PieceStart, PieceEnd, lo, hi)
                            => InOrder(Stream', RealPiece, PieceStart, PieceEnd, lo, hi),
           toServer' = toServer \/ toServer' = <<>>
    PROVE  OrderInv'
<1>1. PICK got \in Nat, back \in Nat : Line(got, back)
  BY DEF OrderInv
<1>2. InOrder(toServer', Sent, SentStart, SentEnd, back, Asked')
  BY <1>1, ServerKeepsOrder DEF Line
<1>3. InOrder(Stream', RealPiece, PieceStart, PieceEnd, got, back)
  <2>1. got \in Int /\ back \in Int
    OBVIOUS
  <2> QED BY <1>1, <2>1 DEF Line
<1>4. got <= back /\ back <= Asked'
  BY <1>1 DEF Line, OrderTyped
<1>5. InOrder(answers', RealAnswer, AnswerStart, AnswerEnd, 0, got)
  BY <1>1 DEF Line
<1> QED BY <1>2, <1>3, <1>4, <1>5 DEF Line, OrderInv

LEMMA StreamKept ==
    ASSUME UNCHANGED <<buf, toClient>>
    PROVE  \A lo, hi : InOrder(Stream, RealPiece, PieceStart, PieceEnd, lo, hi)
                    => InOrder(Stream', RealPiece, PieceStart, PieceEnd, lo, hi)
BY DEF Stream

\* The pieces under way cut short after the first part s.
LEMMA StreamCut ==
    ASSUME NEW s \in Seq(Unit), NEW t \in Seq(Unit), Stream = s \o t, Stream' = s
    PROVE  \A lo, hi : InOrder(Stream, RealPiece, PieceStart, PieceEnd, lo, hi)
                    => InOrder(Stream', RealPiece, PieceStart, PieceEnd, lo, hi)
BY LineTypes, OrderParts

-----------------------------------------------------------------------------
\* More requests may be with the server after a step, never fewer.
LEMMA AskedGrows == ASSUME TypedInv, [Next]_vars PROVE Asked <= Asked'
<1>1. /\ issued \in Nat /\ toWrite \in Seq(Nat) /\ Len(toWrite) \in Nat
      /\ toWrite # <<>> => Len(Tail(toWrite)) = Len(toWrite) - 1
      /\ Len(<<>>) = 0
  BY LenProperties, HeadTailProperties, EmptySeq DEF TypedInv, TypeOK
<1>2. CASE \E n \in 1 .. MaxPipeline : Call(n)
  <2>1. PICK n \in 1 .. MaxPipeline : Call(n)
    BY <1>2
  <2>2. n \in Nat
    BY SyncAssumption DEF SyncAssumption
  <2>3. toWrite = <<>> /\ issued' = issued + n /\ toWrite' = [i \in 1 .. n |-> issued + i]
    BY <2>1 DEF Call, TypedInv, CallInv
  <2>4. Len(toWrite') = n
    <3>1. [i \in 1 .. n |-> issued + i] \in [1 .. n -> Nat]
      BY <1>1, <2>2
    <3> QED BY <2>2, <2>3, <3>1, SequenceOf
  <2> QED BY <1>1, <2>2, <2>3, <2>4 DEF Asked
<1>3. CASE issued' \in {issued, issued + 1}
           /\ (UNCHANGED toWrite \/ (toWrite # <<>> /\ toWrite' = Tail(toWrite)) \/ toWrite' = <<>>)
  BY <1>1, <1>3 DEF Asked
<1>4. CASE Parse
  <2>1. issued' = issued /\ \E out \in Outcomes(Head(buf)) : \/ Response(out.value) \/ UNCHANGED callVars
                                                            \/ CallFails(ec) \/ Response(Nil)
    BY <1>4 DEF Parse
  <2>2. UNCHANGED toWrite \/ toWrite' = <<>>
    BY <2>1 DEF Response, CallFails, callVars
  <2> QED BY <1>3, <2>1, <2>2
<1>5. CASE Read \/ Write
  BY <1>3, <1>5 DEF Read, ReadSome, ReadFails, Write, WriteRequest, WriteFails, CallFails, callVars, historyVars
<1>6. CASE Connect \/ Disconnect \/ Discard \/ CallRefused \/ Network \/ UNCHANGED vars
  BY <1>3, <1>6 DEF Connect, Disconnect, Discard, CallRefused, Network, ServerReply, LinkDrops, vars,
                    callVars, historyVars
<1> QED BY <1>2, <1>4, <1>5, <1>6 DEF Next, App

LEMMA OrderApp == ASSUME OrderTyped, OrderTyped', TypedInv, OrderInv, Asked <= Asked', App PROVE OrderInv'
<1>1. UNCHANGED answers /\ (toServer' = toServer \/ toServer' = <<>>)
  BY DEF App, Connect, ConnectSucceeds, ConnectFails, Disconnect, Close, Discard, CallRefused, Call, linkVars
<1>2. \/ UNCHANGED <<buf, toClient>>
      \/ UNCHANGED buf /\ toClient' = <<>>
      \/ buf' = <<>> /\ toClient' = <<>>
  BY DEF App, Connect, ConnectSucceeds, ConnectFails, Disconnect, Close, Discard, CallRefused, Call, linkVars
<1>3. \A lo, hi \in Int : InOrder(Stream, RealPiece, PieceStart, PieceEnd, lo, hi)
                       => InOrder(Stream', RealPiece, PieceStart, PieceEnd, lo, hi)
  <2>1. CASE UNCHANGED <<buf, toClient>>
    BY <2>1, StreamKept
  <2>2. CASE UNCHANGED buf /\ toClient' = <<>>
    <3>1. Stream' = buf
      BY <2>2, ConcatEmptySeq DEF Stream, OrderTyped
    <3> QED BY <3>1, StreamCut DEF Stream, OrderTyped
  <2>3. CASE buf' = <<>> /\ toClient' = <<>>
    <3>1. Stream' = <<>>
      BY <2>3, ConcatEmptySeq, EmptySeq DEF Stream
    <3> QED BY <3>1, OrderEmpty
  <2> QED BY <1>2, <2>1, <2>2, <2>3
<1> QED BY <1>1, <1>3, OnlyTaken

\* One request more is with the server, or a call fails.
LEMMA OrderWrite == ASSUME OrderTyped, OrderTyped', TypedInv, OrderInv, Asked <= Asked', Write PROVE OrderInv'
<1>1. /\ loop = "write" /\ toWrite # <<>>
      /\ UNCHANGED <<buf, toClient, issued, answers>>
      /\ toWrite' \in {<<>>, Tail(toWrite)}
      /\ \/ toServer' = toServer
         \/ \E cut \in BOOLEAN : toServer' = Append(toServer, [id |-> Head(toWrite), cut |-> cut])
  BY DEF Write, WriteRequest, WriteFails, CallFails
<1>2. CASE toServer' = toServer
  BY <1>1, <1>2, StreamKept, OnlyTaken
<1>3. ASSUME NEW cut \in BOOLEAN, toServer' = Append(toServer, [id |-> Head(toWrite), cut |-> cut])
      PROVE  OrderInv'
  <2> DEFINE r == [id |-> Head(toWrite), cut |-> cut]
  <2>1. PICK got \in Nat, back \in Nat : Line(got, back)
    BY DEF OrderInv
  <2>2. /\ Len(toWrite) \in Nat \ {0} /\ Head(toWrite) = toWrite[1] /\ 1 \in DOMAIN toWrite
        /\ toWrite[1] \in Nat
    BY <1>1, EmptySeq, LenProperties, HeadTailProperties, ElementOfSeq DEF TypedInv, TypeOK
  <2>3. Head(toWrite) = Asked + 1
    BY <2>2 DEF TypedInv, CallInv, LastOnes, Asked, OrderTyped
  <2>4. Asked + 1 <= Asked'
    <3>1. Len(toWrite') \in Nat /\ Len(toWrite') <= Len(toWrite) - 1
      <4>1. Len(Tail(toWrite)) = Len(toWrite) - 1
        BY <1>1, HeadTailProperties DEF TypedInv, TypeOK
      <4>2. Len(<<>>) = 0
        OBVIOUS
      <4> QED BY <1>1, <2>2, <4>1, <4>2
    <3> QED BY <1>1, <2>2, <3>1 DEF Asked, OrderTyped
  <2>5. r \in Sent /\ SentStart[r] = Asked /\ SentEnd[r] = Asked + 1
    <3>1. r \in Sent /\ r.id = Asked + 1
      BY <2>2, <2>3 DEF Sent
    <3>2. Asked \in Nat
      BY DEF OrderTyped
    <3> QED BY <3>1, <3>2 DEF SentStart, SentEnd
  <2>6. InOrder(toServer', Sent, SentStart, SentEnd, back, Asked')
    <3>1. Asked \in Nat /\ Asked' \in Nat /\ toServer \in Seq(Sent)
      BY DEF OrderTyped
    <3>2. back <= Asked /\ InOrder(toServer, Sent, SentStart, SentEnd, back, Asked)
      BY <2>1 DEF Line
    <3> DEFINE x == Asked
               y == Asked'
    <3>3. /\ x \in Int /\ y \in Int /\ back \in Int /\ back <= x /\ x <= y
          /\ x <= SentStart[r] /\ SentEnd[r] <= y
          /\ InOrder(toServer, Sent, SentStart, SentEnd, back, x)
      BY <2>4, <2>5, <3>1, <3>2
    <3> HIDE DEF r, x, y
    <3>4. InOrder(Append(toServer, r), Sent, SentStart, SentEnd, back, y)
      BY <2>5, <3>1, <3>3, OrderAppend, LineTypes
    <3> QED BY <1>3, <3>4 DEF y, r
  <2>7. Line(got, back)'
    <3>1. InOrder(Stream', RealPiece, PieceStart, PieceEnd, got, back)
      BY <1>1, <2>1, StreamKept DEF Line
    <3>2. got <= back /\ back <= Asked'
      BY <2>1 DEF Line, OrderTyped
    <3> QED BY <1>1, <2>1, <2>6, <3>1, <3>2 DEF Line
  <2> QED BY <2>7 DEF OrderInv
<1> QED BY <1>1, <1>2, <1>3

LEMMA OrderRead == ASSUME OrderTyped, OrderTyped', OrderInv, Asked <= Asked', Read PROVE OrderInv'
<1>1. UNCHANGED <<answers, toServer>>
  BY DEF Read, ReadSome, ReadFails, linkVars, historyVars
<1>2. \A lo, hi : InOrder(Stream, RealPiece, PieceStart, PieceEnd, lo, hi)
               => InOrder(Stream', RealPiece, PieceStart, PieceEnd, lo, hi)
  <2>1. CASE ReadFails
    BY <2>1, StreamKept DEF ReadFails, linkVars
  <2>2. CASE ReadSome
    <3>1. PICK n \in 1 .. Len(toClient) :
             buf' = SubSeq(toClient, 1, n) /\ toClient' = SubSeq(toClient, n + 1, Len(toClient))
      BY <2>2 DEF ReadSome
    <3>2. toClient \in Seq(Unit) /\ n \in 0 .. Len(toClient) /\ buf = <<>>
      BY <2>2, LenProperties DEF ReadSome, OrderTyped
    <3>3. Stream' = toClient
      BY <3>1, <3>2, Cut DEF Stream
    <3>4. Stream = toClient
      BY <3>2, ConcatEmptySeq DEF Stream
    <3> QED BY <3>3, <3>4
  <2> QED BY <2>1, <2>2 DEF Read
<1> QED BY <1>1, <1>2, OnlyTaken

\* What the parser makes of a piece: an answer to no request, or the reply that ends there.
LEMMA OutcomeOrder ==
    ASSUME NEW unit \in Unit, NEW out \in Outcomes(unit)
    PROVE  \/ out.value \in {Nil, Garbage}
           \/ /\ out.result = "Completed" /\ out.value = unit.reply /\ out.left = 0
              /\ unit.part \in {"whole", "second"}
<1>2. CASE redisParser = Nil /\ unit.part = "first"
  BY <1>2 DEF Outcomes
<1>3. CASE \/ redisParser = Nil /\ unit.part = "whole"
           \/ redisParser = unit.reply /\ unit.part = "second"
  BY <1>3 DEF Outcomes
<1> QED BY <1>2, <1>3 DEF Outcomes

\* A piece is taken off the stream, or what is left of it, which is no reply.
LEMMA PieceTaken ==
    ASSUME OrderTyped, buf # <<>>, UNCHANGED toClient, NEW n \in Nat, buf' = Unparsed(n)
    PROVE  /\ Stream # <<>> /\ Head(Stream) = Head(buf) /\ Head(buf) \in Unit
           /\ n = 0 => Stream' = Tail(Stream)
           /\ \A lo, hi \in Int :
                 lo <= hi /\ InOrder(Stream, RealPiece, PieceStart, PieceEnd, lo, hi)
                    => InOrder(Stream', RealPiece, PieceStart, PieceEnd, lo, hi)
<1>1. buf \in Seq(Unit) /\ toClient \in Seq(Unit) /\ Stream \in Seq(Unit)
  BY DEF OrderTyped
<1>2. /\ Stream # <<>> /\ Head(Stream) = Head(buf) /\ Tail(Stream) = Tail(buf) \o toClient
      /\ Head(buf) \in Unit /\ Tail(buf) \in Seq(Unit)
  BY <1>1, ConcatTail, HeadTailProperties DEF Stream
<1>3. Stream' = buf' \o toClient
  BY DEF Stream
<1>4. n = 0 => Stream' = Tail(Stream)
  BY <1>2, <1>3 DEF Unparsed
<1>5. PICK x \in Unit : x = Leftover(n)
  BY <1>1, UnparsedTypes
<1>6. x \notin RealPiece
  BY <1>5 DEF Leftover, RealPiece
<1>7. PICK t \in Seq(Unit) : t = Tail(Stream)
  BY <1>1, <1>2, HeadTailProperties
<1>8. n # 0 => Stream' = <<x>> \o t
  <2>1. <<x>> \in Seq(Unit)
    OBVIOUS
  <2>2. PICK f \in Seq(Unit) : f = <<x>>
    BY <2>1, Zenon
  <2>3. PICK r \in Seq(Unit) : r = Tail(buf)
    BY <1>2
  <2>4. f \o (r \o toClient) = (f \o r) \o toClient
    BY <1>1, ConcatRegroup
  <2>5. n # 0 => buf' = f \o r
    BY <1>5, <2>2, <2>3 DEF Unparsed
  <2> QED BY <1>2, <1>3, <1>7, <2>2, <2>3, <2>4, <2>5
<1>9. ASSUME NEW lo \in Int, NEW hi \in Int, lo <= hi,
             InOrder(Stream, RealPiece, PieceStart, PieceEnd, lo, hi)
      PROVE  InOrder(Stream', RealPiece, PieceStart, PieceEnd, lo, hi)
  <2>1. InOrder(t, RealPiece, PieceStart, PieceEnd, lo, hi)
    BY <1>1, <1>2, <1>7, <1>9, LineTypes, OrderTail
  <2>2. InOrder(<<x>>, RealPiece, PieceStart, PieceEnd, lo, lo)
    BY <1>6, LineTypes, OrderOne
  <2>3. <<x>> \in Seq(Unit) /\ lo <= lo
    OBVIOUS
  <2>4. InOrder(<<x>> \o t, RealPiece, PieceStart, PieceEnd, lo, hi)
    BY <1>9, <2>1, <2>2, <2>3, LineTypes, OrderConcat
  <2>5. CASE n = 0
    BY <1>4, <1>7, <2>1, <2>5
  <2>6. CASE n # 0
    BY <1>8, <2>4, <2>6
  <2> QED BY <2>5, <2>6
<1> QED BY <1>2, <1>4, <1>9

\* The reply read goes to the oldest request of the call, unless nothing is answered.
LEMMA OrderParse == ASSUME OrderTyped, OrderTyped', TypedInv, OrderInv, Asked <= Asked', Parse PROVE OrderInv'
<1>1. loop = "read" /\ buf # <<>> /\ UNCHANGED linkVars
  BY DEF Parse
<1>2. PICK out \in Outcomes(Head(buf)) :
        /\ buf' = Unparsed(out.left)
        /\ \/ out.result = "Completed" /\ Response(out.value)
           \/ out.result = "Incompleted" /\ UNCHANGED <<callVars, ec, failed, answers, returned>>
           \/ out.result = "Error" /\ Throws /\ CallFails(ec) /\ UNCHANGED answers
           \/ out.result = "Error" /\ ~Throws /\ Response(Nil)
  BY DEF Parse
<1>3. PICK got \in Nat, back \in Nat : Line(got, back)
  BY DEF OrderInv
<1>4. /\ Stream # <<>> /\ Stream \in Seq(Unit) /\ Head(Stream) = Head(buf) /\ Head(buf) \in Unit
      /\ out.left = 0 => Stream' = Tail(Stream)
      /\ \A lo, hi \in Int :
            lo <= hi /\ InOrder(Stream, RealPiece, PieceStart, PieceEnd, lo, hi)
               => InOrder(Stream', RealPiece, PieceStart, PieceEnd, lo, hi)
  <2>1. buf \in Seq(Unit) /\ redisParser \in Reply /\ Stream \in Seq(Unit) /\ UNCHANGED toClient
    BY <1>1 DEF OrderTyped, TypedInv, TypeOK, linkVars
  <2>2. Head(buf) \in Unit
    BY <1>1, <2>1, HeadTailProperties
  <2>3. PICK n \in Nat : n = out.left
    BY <2>1, <2>2, OutcomeTypes
  <2>4. buf' = Unparsed(n)
    BY <1>2, <2>3
  <2> QED BY <1>1, <2>1, <2>3, <2>4, PieceTaken
<1>5. \/ UNCHANGED answers
      \/ \E value \in {Nil, Garbage} :
            answers' = Append(answers, [request |-> Head(toRead), reply |-> value])
      \/ /\ Head(buf).part \in {"whole", "second"} /\ Stream' = Tail(Stream)
         /\ answers' = Append(answers, [request |-> Head(toRead), reply |-> Head(buf).reply])
  BY <1>2, <1>4, OutcomeOrder DEF Response
<1>6. Head(toRead) \in Nat
  BY <1>1, HeadTailProperties DEF TypedInv, TypeOK
<1>7. /\ got <= back /\ back <= Asked'
      /\ InOrder(toServer', Sent, SentStart, SentEnd, back, Asked')
  <2>1. got <= back /\ back <= Asked /\ toServer' = toServer
        /\ InOrder(toServer, Sent, SentStart, SentEnd, back, Asked)
    BY <1>1, <1>3 DEF Line, linkVars
  <2>2. back <= Asked'
    BY <2>1 DEF OrderTyped
  <2> QED BY <2>1, <2>2, ServerKeepsOrder
<1> DEFINE head == Head(Stream)
<1>8. /\ head \in Unit
      /\ InOrder(Stream', RealPiece, PieceStart, PieceEnd, got, back)
      /\ head \in RealPiece => /\ got <= PieceStart[head] /\ PieceEnd[head] <= back
                               /\ InOrder(Tail(Stream), RealPiece, PieceStart, PieceEnd, PieceEnd[head], back)
  <2>1. /\ InOrder(Stream, RealPiece, PieceStart, PieceEnd, got, back)
        /\ got \in Int /\ back \in Int /\ got <= back
    BY <1>3 DEF Line
  <2> QED BY <1>4, <2>1, LineTypes, OrderTail
<1>9. answers \in Seq(AnswerRecord) /\ InOrder(answers, RealAnswer, AnswerStart, AnswerEnd, 0, got)
  BY <1>3 DEF Line, OrderTyped
<1>10. CASE UNCHANGED answers
  <2>1. Line(got, back)'
    BY <1>7, <1>8, <1>9, <1>10 DEF Line
  <2> QED BY <2>1 DEF OrderInv
<1>11. ASSUME NEW value \in {Nil, Garbage},
              answers' = Append(answers, [request |-> Head(toRead), reply |-> value])
       PROVE  OrderInv'
  <2> DEFINE a == [request |-> Head(toRead), reply |-> value]
  <2>1. a \in AnswerRecord /\ a \notin RealAnswer
    BY <1>6 DEF AnswerRecord, RealAnswer, Reply, Nil, Garbage
  <2> HIDE DEF a
  <2>2. 0 \in Int /\ got \in Int /\ 0 <= got /\ got <= got
    OBVIOUS
  <2>3. InOrder(Append(answers, a), RealAnswer, AnswerStart, AnswerEnd, 0, got)
    BY <1>9, <2>1, <2>2, LineTypes, OrderAppend
  <2>4. Line(got, back)'
    BY <1>7, <1>8, <1>11, <2>3 DEF Line, a
  <2> QED BY <2>4 DEF OrderInv
<1>12. CASE Head(buf).part \in {"whole", "second"} /\ Stream' = Tail(Stream)
            /\ answers' = Append(answers, [request |-> Head(toRead), reply |-> Head(buf).reply])
  <2> DEFINE a == [request |-> Head(toRead), reply |-> head.reply]
  <2>0. /\ head.part # "first" /\ head.part # "rest" /\ Stream' = Tail(Stream)
        /\ answers' = Append(answers, a) /\ head.reply \in Reply
    BY <1>4, <1>8, <1>12 DEF Unit
  <2>1. a \in AnswerRecord
    BY <1>6, <2>0 DEF AnswerRecord
  <2>2. 0 \in Int /\ got \in Int /\ 0 <= got /\ got <= got
    OBVIOUS
  <2>3. CASE head.reply > Nil
    <3>1. head \in RealPiece /\ head.reply \in Nat
      BY <1>8, <2>0, <2>3 DEF RealPiece, Reply, Garbage, Nil
    <3>2. PieceStart[head] = head.reply - 1 /\ PieceEnd[head] = head.reply
      BY <1>8, <2>0 DEF PieceStart, PieceEnd
    <3>3. AnswerStart[a] = head.reply - 1 /\ AnswerEnd[a] = head.reply
      BY <2>1 DEF AnswerStart, AnswerEnd
    <3> HIDE DEF a
    <3>0. PICK last \in Nat : last = head.reply
      BY <3>1
    <3>4. /\ last \in Nat /\ got <= last /\ last <= back /\ got <= AnswerStart[a] /\ AnswerEnd[a] <= last
          /\ InOrder(Stream', RealPiece, PieceStart, PieceEnd, last, back)
      <4>1. got <= head.reply - 1 /\ head.reply <= back
            /\ InOrder(Stream', RealPiece, PieceStart, PieceEnd, head.reply, back)
        BY <1>8, <2>0, <3>1, <3>2
      <4> QED BY <3>0, <3>1, <3>3, <4>1
    <3>7. 0 <= got /\ 0 \in Int /\ last \in Int /\ got \in Int
      OBVIOUS
    <3> HIDE DEF head
    <3>5. InOrder(Append(answers, a), RealAnswer, AnswerStart, AnswerEnd, 0, last)
      BY <1>9, <2>1, <3>4, <3>7, LineTypes, OrderAppend
    <3>6. Line(last, back)'
      BY <1>7, <2>0, <3>4, <3>5 DEF Line
    <3> QED BY <3>4, <3>6 DEF OrderInv
  <2>4. CASE ~(head.reply > Nil)
    <3>1. a \notin RealAnswer
      BY <2>4 DEF RealAnswer
    <3> HIDE DEF a
    <3>2. InOrder(Append(answers, a), RealAnswer, AnswerStart, AnswerEnd, 0, got)
      BY <1>9, <2>1, <2>2, <3>1, LineTypes, OrderAppend
    <3>3. Line(got, back)'
      BY <1>7, <1>8, <2>0, <3>2 DEF Line
    <3> QED BY <3>3 DEF OrderInv
  <2> QED BY <2>3, <2>4
<1> QED BY <1>5, <1>10, <1>11, <1>12

\* The pieces of one reply.
LEMMA PiecesInOrder ==
    ASSUME NEW id \in Reply, NEW p \in Pieces(id), NEW lo \in Int, NEW hi \in Int,
           id > Nil => lo <= id - 1 /\ id <= hi
    PROVE  InOrder(p, RealPiece, PieceStart, PieceEnd, lo, hi)
<1> DEFINE whole  == [reply |-> id, part |-> "whole"]
           first  == [reply |-> id, part |-> "first"]
           second == [reply |-> id, part |-> "second"]
<1>1. /\ whole \in Unit /\ first \in Unit /\ second \in Unit /\ id \in Int
      /\ whole.part # "first" /\ second.part # "first"
  BY DEF Unit, Reply, Garbage
<1>2. /\ PieceStart[whole] = id - 1 /\ PieceEnd[whole] = id
      /\ PieceStart[first] = id - 1 /\ PieceEnd[first] = id - 1
      /\ PieceStart[second] = id - 1 /\ PieceEnd[second] = id
  BY <1>1 DEF PieceStart, PieceEnd
<1>3. id > Nil \/ (whole \notin RealPiece /\ first \notin RealPiece /\ second \notin RealPiece)
  BY DEF RealPiece
<1>4. CASE p = <<whole>>
  BY <1>1, <1>2, <1>3, <1>4 DEF InOrder
<1>5. CASE p = <<first, second>>
  BY <1>1, <1>2, <1>3, <1>5 DEF InOrder
<1> QED BY <1>4, <1>5 DEF Pieces

\* The server answers the oldest request, or gives up on what follows a cut one.
LEMMA OrderReply == ASSUME OrderTyped, OrderTyped', OrderInv, Asked' = Asked, ServerReply PROVE OrderInv'
<1>1. toServer # <<>> /\ toServer \in Seq(Sent) /\ UNCHANGED <<buf, answers>>
  BY DEF ServerReply, OrderTyped, historyVars
<1>2. PICK got \in Nat, back \in Nat : Line(got, back)
  BY DEF OrderInv
<1>3. /\ buf \in Seq(Unit) /\ toClient \in Seq(Unit) /\ Stream \in Seq(Unit) /\ Asked \in Nat
      /\ got <= back /\ back <= Asked
      /\ InOrder(Stream, RealPiece, PieceStart, PieceEnd, got, back)
      /\ InOrder(toServer, Sent, SentStart, SentEnd, back, Asked)
  BY <1>2 DEF Line, OrderTyped
<1>4. ASSUME NEW p \in Seq(Unit), toClient' = toClient \o p
      PROVE  Stream' = Stream \o p
  <2>1. \A s, t, v \in Seq(Unit) : s \o (t \o v) = (s \o t) \o v
    BY ConcatRegroup
  <2>2. Stream = buf \o toClient /\ Stream' = buf \o (toClient \o p)
    BY <1>1, <1>4 DEF Stream
  <2> QED BY <1>3, <2>1, <2>2
<1>5. CASE Head(toServer).cut
  <2>1. PICK n \in 2 .. Len(toServer), p \in Pieces(Garbage) :
           toServer' = SubSeq(toServer, n + 1, Len(toServer)) /\ toClient' = toClient \o p
    BY <1>5 DEF ServerReply
  <2>2. Garbage \in Reply /\ ~(Garbage > Nil) /\ back \in Int /\ back <= back /\ got \in Int
    BY DEF Reply, Garbage, Nil
  <2>3. p \in Seq(Unit) /\ InOrder(p, RealPiece, PieceStart, PieceEnd, back, back)
    BY <2>2, PieceTypes, PiecesInOrder
  <2>4. InOrder(Stream \o p, RealPiece, PieceStart, PieceEnd, got, back)
    BY <1>3, <2>2, <2>3, LineTypes, OrderConcat
  <2>5. InOrder(toServer', Sent, SentStart, SentEnd, back, Asked)
    <3>1. n \in 0 .. Len(toServer)
      BY <1>1, LenProperties
    <3> DEFINE s == SubSeq(toServer, 1, n)
               t == SubSeq(toServer, n + 1, Len(toServer))
    <3>2. s \in Seq(Sent) /\ t \in Seq(Sent) /\ s \o t = toServer
      BY <1>1, <3>1, Cut
    <3>3. toServer' = t
      BY <2>1
    <3> HIDE DEF s, t
    <3>4. Asked \in Int
      BY <1>3
    <3>5. InOrder(s \o t, Sent, SentStart, SentEnd, back, Asked)
      BY <1>3, <3>2
    <3> QED BY <3>2, <3>3, <3>5, OrderParts, LineTypes
  <2>6. Line(got, back)'
    BY <1>1, <1>2, <1>3, <1>4, <2>1, <2>3, <2>4, <2>5 DEF Line
  <2> QED BY <2>6 DEF OrderInv
<1>6. CASE ~Head(toServer).cut
  <2>1. PICK p \in Pieces(Head(toServer).id) :
           toServer' = Tail(toServer) /\ toClient' = toClient \o p
    BY <1>6 DEF ServerReply
  <2> DEFINE r == Head(toServer)
  <2>2. /\ r \in Sent /\ back <= SentStart[r] /\ SentEnd[r] <= Asked
        /\ InOrder(Tail(toServer), Sent, SentStart, SentEnd, SentEnd[r], Asked)
    <3>1. back \in Int /\ Asked \in Int
      BY <1>3
    <3> QED BY <1>1, <1>3, <3>1, LineTypes, OrderTail
  <2>9. r.id \in Nat /\ SentStart[r] = r.id - 1 /\ SentEnd[r] = r.id
    BY <2>2 DEF Sent, SentStart, SentEnd
  <2>10. PICK id \in Nat : id = r.id
    BY <2>9
  <2>3. /\ id \in Reply /\ id \in Int /\ back <= id - 1 /\ id <= Asked
        /\ InOrder(Tail(toServer), Sent, SentStart, SentEnd, id, Asked)
    BY <2>2, <2>9, <2>10 DEF Reply
  <2>4. p \in Pieces(id)
    BY <2>1, <2>10
  <2> HIDE DEF r
  <2>5. back \in Int /\ got \in Int /\ back <= id /\ got <= id /\ id <= id
    BY <1>3, <2>3
  <2>6. p \in Seq(Unit) /\ InOrder(p, RealPiece, PieceStart, PieceEnd, back, id)
    BY <2>3, <2>4, <2>5, PieceTypes, PiecesInOrder
  <2>7. InOrder(Stream \o p, RealPiece, PieceStart, PieceEnd, got, id)
    BY <1>3, <2>3, <2>5, <2>6, LineTypes, OrderConcat
  <2>8. Line(got, id)'
    BY <1>1, <1>2, <1>4, <2>1, <2>3, <2>5, <2>6, <2>7 DEF Line
  <2> QED BY <2>3, <2>8 DEF OrderInv
<1> QED BY <1>5, <1>6

LEMMA OrderDrops == ASSUME OrderTyped, OrderTyped', OrderInv, Asked <= Asked', LinkDrops PROVE OrderInv'
<1>1. toServer' = <<>> /\ UNCHANGED <<buf, answers>>
  BY DEF LinkDrops, historyVars
<1>2. PICK n \in 0 .. Len(toClient) : toClient' = SubSeq(toClient, 1, n)
  BY DEF LinkDrops
<1> DEFINE t == SubSeq(toClient, n + 1, Len(toClient))
<1>3. /\ buf \in Seq(Unit) /\ toClient \in Seq(Unit) /\ toClient' \in Seq(Unit) /\ t \in Seq(Unit)
      /\ toClient = toClient' \o t
  BY <1>2, Cut DEF OrderTyped
<1> HIDE DEF t
<1>4. Stream = Stream' \o t /\ Stream' \in Seq(Unit)
  <2>1. \A s, u, v \in Seq(Unit) : s \o (u \o v) = (s \o u) \o v
    BY ConcatRegroup
  <2>2. buf \o (toClient' \o t) = (buf \o toClient') \o t
    BY <1>3, <2>1, SMTT(30)
  <2> QED BY <1>1, <1>3, <2>2 DEF Stream, OrderTyped
<1>5. \A lo, hi : InOrder(Stream, RealPiece, PieceStart, PieceEnd, lo, hi)
               => InOrder(Stream', RealPiece, PieceStart, PieceEnd, lo, hi)
  BY <1>3, <1>4, StreamCut
<1> QED BY <1>1, <1>5, OnlyTaken

LEMMA OrderInit == Init => OrderInv
<1> SUFFICES ASSUME Init PROVE Line(0, 0)
  BY DEF OrderInv
<1>1. answers = <<>> /\ Stream = <<>> /\ toServer = <<>>
  BY ConcatEmptySeq DEF Init, Stream
<1>2. Asked = 0
  <2>1. issued = 0 /\ toWrite = <<>> /\ toWrite \in Seq(Nat)
    BY EmptySeq DEF Init
  <2>2. Len(toWrite) = 0
    BY <2>1, EmptySeq
  <2>3. issued = 0
    BY DEF Init
  <2>4. \A n \in Nat : n = 0 => 0 - n = 0
    OBVIOUS
  <2> QED BY <2>2, <2>3, <2>4 DEF Asked
<1> QED BY <1>1, <1>2, OrderEmpty DEF Line

LEMMA OrderNext == TypedInv /\ TypedInv' /\ OrderInv /\ [Next]_vars => OrderInv'
<1> SUFFICES ASSUME TypedInv, TypedInv', OrderInv, [Next]_vars PROVE OrderInv'
  OBVIOUS
<1>1. OrderTyped /\ Asked <= Asked'
  BY OrderTypes, AskedGrows
<1>2. OrderTyped'
  BY OrderTypes, PTL
<1>3. CASE Network
  <2>1. Asked' = Asked
    BY <1>3 DEF Network, ServerReply, LinkDrops, Asked, callVars, historyVars
  <2> QED BY <1>1, <1>2, <1>3, <2>1, OrderReply, OrderDrops DEF Network
<1>4. CASE UNCHANGED vars
  BY <1>1, <1>2, <1>4, StreamKept, OnlyTaken DEF vars, linkVars, historyVars
<1> QED BY <1>1, <1>2, <1>3, <1>4, OrderApp, OrderWrite, OrderRead, OrderParse DEF Next

LEMMA LineOrdersAnswers == OrderTyped /\ OrderInv => AnswersInOrder
<1> SUFFICES ASSUME OrderTyped, OrderInv, NEW i \in DOMAIN answers, NEW j \in DOMAIN answers,
                    i < j, answers[i].reply > Nil, answers[j].reply > Nil
             PROVE  answers[i].reply < answers[j].reply
  BY DEF AnswersInOrder
<1>1. answers[i] \in AnswerRecord /\ answers[j] \in AnswerRecord
  BY LenProperties, ElementOfSeq DEF OrderTyped
<1>2. answers[i] \in RealAnswer /\ answers[j] \in RealAnswer
  BY <1>1 DEF RealAnswer
<1>3. AnswerEnd[answers[i]] <= AnswerStart[answers[j]]
  BY <1>2 DEF OrderInv, Line, InOrder
<1>4. AnswerEnd[answers[i]] = answers[i].reply /\ AnswerStart[answers[j]] = answers[j].reply - 1
  BY <1>1 DEF AnswerStart, AnswerEnd
<1>5. answers[i].reply \in Int /\ answers[j].reply \in Int
  BY <1>1 DEF AnswerRecord, Reply, Garbage
<1> QED BY <1>3, <1>4, <1>5

\* Whatever the application does after failures, and whatever the parser makes of bytes that
\* belong to no reply: no reply is read twice, and replies are read in the order of their
\* requests (redisclientimpl.cpp:454-485).
THEOREM AnswersKeepOrder == Spec => []AnswersInOrder
<1>1. TypedInv /\ OrderInv => AnswersInOrder
  BY OrderTypes, LineOrdersAnswers
<1>2. TypedInv /\ TypedInv' /\ OrderInv /\ [Next]_vars => OrderInv'
  BY OrderNext
<1> QED BY <1>1, <1>2, OrderInit, CallsKept, PTL DEF Spec
=============================================================================
