------------------------ MODULE SyncPrograms_proofs ------------------------
(***************************************************************************)
(* What the synchronous programs of examples/ may rely on, for every size  *)
(* of a pipeline and every length of a run.                                *)
(*                                                                         *)
(* They are applications that discard a client that failed, so all that    *)
(* SyncClient_proofs has of those holds of them (SyncInv); what they do    *)
(* next follows from what their calls returned.                            *)
(***************************************************************************)
EXTENDS SyncPrograms, SyncClient_proofs

\* What a program has done so far, and what its last call has left it to look at.
Looking ==
    /\ at = "result" /\ loop = "none" /\ ~failed => returned # <<>>
    /\ exit \in {"success", "abort"} => loop = "none" /\ ~failed /\ program # "careful"

\* All that was asked for, and not given up with the client, is answered or waited for.
Counted ==
    /\ \A i \in DOMAIN answers : answers[i].reply = answers[i].request
    /\ program # "careful" /\ ~failed => Len(answers) + Len(toRead) = issued

\* Which program it is does not change, and only "careful" is free to call as it likes.
Going ==
    /\ program \in Programs
    /\ at \in {"free", "connect", "call", "result"} /\ round \in Nat
    /\ exit \in {"no", "success", "failure", "exception", "abort"}
    /\ program = "careful" <=> at = "free"

ProgInv == Going /\ Looking /\ Counted

-----------------------------------------------------------------------------
(* The programs as applications of the client.                             *)

LEMMA ProgramRequests ==
    ASSUME Going, at # "free"
    PROVE  /\ program \in DOMAIN Program
           /\ Program[program].requests \in 1 .. MaxPipeline
<1>1. program \in {"sync_set_get", "sync_timeout", "sync_pipeline", "sync_benchmark"}
  BY KnownPrograms DEF Going, Program
<1>2. MaxPipeline \in Nat /\ MaxPipeline >= 1
  BY KnownPrograms, SyncAssumption
<1> QED
  BY <1>1, <1>2 DEF Program, SyncSetGet, SyncTimeout, SyncPipeline, SyncBenchmark

LEMMA StepIsClientStep ==
    ASSUME Going, [ProgNext]_progVars
    PROVE  [Next]_vars
<1>1. CASE MainConnects
  BY <1>1 DEF MainConnects, Next, App
<1>2. CASE MainCalls
  BY <1>2, ProgramRequests DEF MainCalls, Next, App
<1>3. CASE MainLooks
  BY <1>3 DEF MainLooks
<1>4. CASE program = "careful" /\ App
  BY <1>4 DEF Next
<1>5. CASE Write \/ Read \/ Parse \/ Network
  BY <1>5 DEF Next
<1>6. CASE UNCHANGED progVars
  BY <1>6 DEF progVars
<1> QED BY <1>1, <1>2, <1>3, <1>4, <1>5, <1>6 DEF ProgNext, Main

\* What may follow a call.
Ways == {"call", "success", "failure", "abort"}

LEMMA WhatFollows ==
    ASSUME NEW p \in DOMAIN Program, NEW n \in Nat
    PROVE  Following(Program[p].ways, n) \subseteq Ways
<1>1. \A a : Following(<<a>>, n) = a
  BY DEF Following
<1>2. \A a, b : Following(<<a, b>>, n) \in {a, b}
  BY DEF Following
<1>3. CASE p = "sync_set_get"
  BY <1>2, <1>3 DEF Program, SyncSetGet, Ways
<1>4. CASE p = "sync_timeout"
  BY <1>1, <1>4 DEF Program, SyncTimeout, Ways
<1>5. CASE p = "sync_pipeline"
  BY <1>1, <1>5 DEF Program, SyncPipeline, Ways
<1>6. CASE p = "sync_benchmark"
  BY <1>1, <1>6 DEF Program, SyncBenchmark, Ways
<1> QED BY <1>3, <1>4, <1>5, <1>6 DEF Program

LEMMA ReturnedTo ==
    ASSUME Going, at = "result", CallHasReturned
    PROVE  /\ at' \in {"call", "result"} /\ round' \in Nat
           /\ exit' = exit \/ exit' \in Ways \ {"call"}
<1>1. program \in DOMAIN Program /\ round' \in Nat
  BY ProgramRequests DEF CallHasReturned, Going
<1> DEFINE next == Following(Program[program].ways, round')
<1>2. next \subseteq Ways
  BY <1>1, WhatFollows
<1>3. \/ "call" \in next /\ at' = "call" /\ UNCHANGED exit
      \/ \E way \in next \ {"call"} : exit' = way /\ UNCHANGED at
  BY DEF CallHasReturned
<1> HIDE DEF next
<1> QED BY <1>1, <1>2, <1>3

LEMMA GoingKept ==
    ASSUME Going, [ProgNext]_progVars
    PROVE  Going'
<1>1. CASE MainConnects
  BY <1>1 DEF MainConnects, Going
<1>2. CASE MainCalls
  BY <1>2 DEF MainCalls, Going
<1>3. CASE MainLooks
  <2>1. UNCHANGED program /\ at = "result" /\ (CallHasFailed \/ CallHasReturned)
    BY <1>3 DEF MainLooks
  <2>2. CASE CallHasFailed
    BY <2>1, <2>2 DEF CallHasFailed, Going
  <2>3. CASE CallHasReturned
    BY <2>1, <2>3, ReturnedTo DEF Going, Ways
  <2> QED BY <2>1, <2>2, <2>3
<1>4. CASE UNCHANGED programVars
  BY <1>4 DEF programVars, Going
<1>5. CASE UNCHANGED progVars
  BY <1>5 DEF progVars, programVars, Going
<1> QED BY <1>1, <1>2, <1>3, <1>4, <1>5 DEF ProgNext, Main

-----------------------------------------------------------------------------
(* What a program looks at.                                                *)

LEMMA CallEnds ==
    ASSUME SyncInv, Write \/ Read \/ Parse, loop' = "none", ~failed'
    PROVE  returned' # <<>>
<1>1. CASE Write
  BY <1>1 DEF Write, WriteRequest, WriteFails, CallFails
<1>2. CASE Read
  BY <1>2 DEF Read, ReadSome, ReadFails, CallFails, callVars
<1>3. CASE Parse
  <2>1. loop = "read"
    BY <1>3 DEF Parse
  <2>2. PICK value : Response(value)
    BY <1>3, <2>1 DEF Parse, CallFails, callVars
  <2>3. PICK replies : CallReturns(replies)
    BY <2>1, <2>2 DEF Response
  <2> DEFINE record == [requests |-> [i \in DOMAIN replies |-> issued - Len(replies) + i],
                        replies  |-> replies]
  <2>4. returned' = Append(returned, record)
    BY <2>3 DEF CallReturns
  <2>5. returned \in Seq([requests : Seq(Nat), replies : Seq(Reply)])
    BY DEF SyncInv, TypeOK
  <2>6. Len(returned') = Len(returned) + 1 /\ Len(returned) \in Nat
    BY <2>4, <2>5
  <2> QED BY <2>6
<1> QED BY <1>1, <1>2, <1>3

LEMMA LookingKept ==
    ASSUME SyncInv, Going, Looking, [ProgNext]_progVars
    PROVE  Looking'
<1>1. CASE MainConnects
  BY <1>1 DEF MainConnects, Looking
<1>2. CASE MainCalls
  BY <1>2 DEF MainCalls, Call, Looking
<1>3. CASE MainLooks
  <2>1. /\ at = "result" /\ exit = "no" /\ loop = "none"
        /\ CallHasFailed \/ CallHasReturned
        /\ UNCHANGED <<program, loop, failed, returned>>
    BY <1>3 DEF MainLooks, vars, callVars, historyVars
  <2>2. CASE CallHasFailed
    BY <2>1, <2>2 DEF CallHasFailed, Looking
  <2>3. CASE CallHasReturned
    <3>1. ~failed /\ returned # <<>> /\ program # "careful"
      BY <2>1, <2>3 DEF CallHasReturned, Looking, Going
    <3> QED BY <2>1, <3>1 DEF Looking
  <2> QED BY <2>1, <2>2, <2>3
<1>4. CASE program = "careful" /\ App /\ UNCHANGED programVars
  BY <1>4 DEF programVars, Looking, Going
<1>5. CASE (Write \/ Read \/ Parse) /\ UNCHANGED programVars
  <2>1. loop # "none" /\ UNCHANGED <<at, exit, program>>
    BY <1>5 DEF Write, WriteRequest, WriteFails, Read, ReadSome, ReadFails, Parse, programVars
  <2> QED BY <1>5, <2>1, CallEnds DEF Looking
<1>6. CASE Network /\ UNCHANGED programVars
  BY <1>6 DEF Network, ServerReply, LinkDrops, callVars, historyVars, programVars, Looking
<1>7. CASE UNCHANGED progVars
  BY <1>7 DEF progVars, vars, callVars, historyVars, programVars, Looking
<1> QED BY <1>1, <1>2, <1>3, <1>4, <1>5, <1>6, <1>7 DEF ProgNext, Main

-----------------------------------------------------------------------------
(* What a program is owed.                                                 *)

LEMMA CountKept ==
    ASSUME Counted, UNCHANGED <<issued, answers, program>>,
           failed' \/ (~failed /\ UNCHANGED toRead)
    PROVE  Counted'
BY DEF Counted

\* The reply that is read is the one to the request that waits longest.
LEMMA AnswerCounted ==
    ASSUME SyncInv, Counted, loop = "read", Response(Wanted), UNCHANGED <<issued, program>>
    PROVE  Counted'
<1> DEFINE Record == [request : Nat, reply : Reply]
           record == [request |-> Head(toRead), reply |-> Wanted]
<1>1. toRead \in Seq(Nat) /\ toRead # <<>> /\ Len(toRead) \in Nat \ {0} /\ 1 \in DOMAIN toRead
  BY EmptySeq, LenProperties DEF SyncInv, TypeOK
<1>2. Head(toRead) = Wanted
  <2>1. Head(toRead) = toRead[1] /\ toRead[1] = issued - Len(toRead) + 1
    BY <1>1 DEF SyncInv, CallInv, LastOnes
  <2> QED BY <2>1 DEF Wanted
<1>3. answers \in Seq(Record) /\ record \in Record /\ answers' = Append(answers, record)
  BY <1>2, NumberTypes DEF Reply, SyncInv, TypeOK, Response
<1>4. record.request = record.reply
  BY <1>2
<1>5. Len(toRead') = Len(toRead) - 1 /\ UNCHANGED failed
  BY ResponseInStep DEF Response
<1> HIDE DEF Record, record
<1>6. /\ DOMAIN answers' = 1 .. Len(answers) + 1 /\ DOMAIN answers = 1 .. Len(answers)
      /\ Len(answers) \in Nat /\ Len(answers') = Len(answers) + 1
      /\ \A i \in 1 .. Len(answers) : answers'[i] = answers[i]
      /\ answers'[Len(answers) + 1] = record
  BY <1>3, AppendProperties, LenProperties
<1>7. \A i \in 1 .. Len(answers) + 1 : i \in 1 .. Len(answers) \/ i = Len(answers) + 1
  BY <1>6
<1>8. \A i \in DOMAIN answers' : answers'[i].reply = answers'[i].request
  BY <1>4, <1>6, <1>7 DEF Counted
<1>9. program # "careful" /\ ~failed => Len(answers') + Len(toRead') = issued
  BY <1>1, <1>5, <1>6 DEF Counted
<1> QED BY <1>5, <1>8, <1>9 DEF Counted

LEMMA CountedKept ==
    ASSUME SyncInv, Discipline = "discard", Going, Counted, [ProgNext]_progVars
    PROVE  Counted'
<1>1. CASE MainConnects
  BY <1>1, CountKept DEF MainConnects, Connect, ConnectSucceeds, ConnectFails, callVars
<1>2. CASE MainCalls
  <2> DEFINE n == Program[program].requests
             requests == [i \in 1 .. n |-> issued + i]
  <2>1. n \in Nat /\ issued \in Nat
    BY <1>2, ProgramRequests, NumberTypes, SyncAssumption DEF MainCalls
  <2>2. /\ toRead' = requests /\ issued' = issued + n /\ loop = "none"
        /\ UNCHANGED <<answers, failed, program>>
    BY <1>2 DEF MainCalls, Call
  <2> HIDE DEF n
  <2>3. requests \in Seq(Nat) /\ Len(requests) = n
    <3>1. requests \in [1 .. n -> Nat]
      BY <2>1
    <3> QED BY <2>1, <3>1, SequenceOf
  <2>4. toRead = <<>> /\ Len(toRead) = 0
    BY <2>2, EmptySeq DEF SyncInv, TypeOK
  <2>5. Len(answers) \in Nat
    BY LenProperties DEF SyncInv, TypeOK
  <2> HIDE DEF requests
  <2>6. program # "careful" /\ ~failed => Len(answers') + Len(toRead') = issued'
    BY <2>1, <2>2, <2>3, <2>4, <2>5 DEF Counted
  <2> QED BY <2>2, <2>6 DEF Counted
<1>3. CASE MainLooks
  BY <1>3 DEF MainLooks, vars, callVars, historyVars, Counted
<1>4. CASE program = "careful" /\ App /\ UNCHANGED programVars
  <2>1. UNCHANGED <<answers, program>> /\ program = "careful"
    BY <1>4 DEF App, Connect, Disconnect, Discard, Call, CallRefused, programVars
  <2> QED BY <2>1 DEF Counted
<1>5. CASE (Write \/ Read \/ Network) /\ UNCHANGED programVars
  <2>1. UNCHANGED <<issued, answers, program>>
    BY <1>5 DEF Write, WriteRequest, WriteFails, Read, ReadSome, ReadFails, Network, ServerReply,
                LinkDrops, historyVars, programVars
  <2>2. failed' \/ (failed' = failed /\ UNCHANGED toRead)
    BY <1>5 DEF Write, WriteRequest, WriteFails, Read, ReadSome, ReadFails, Network, ServerReply,
                LinkDrops, CallFails, callVars
  <2> QED BY <2>1, <2>2 DEF Counted
<1>6. CASE Parse /\ UNCHANGED programVars
  <2>1. loop = "read" /\ buf # <<>> /\ UNCHANGED <<issued, program>>
    BY <1>6 DEF Parse, programVars
  <2>2. InStep
    BY <2>1 DEF SyncInv, DiscardInv
  <2>3. PICK out \in Outcomes(Head(buf)) :
           \/ out.result = "Completed" /\ Response(out.value)
           \/ out.result = "Incompleted" /\ UNCHANGED <<callVars, ec, failed, answers, returned>>
           \/ out.result = "Error"
    BY <1>6 DEF Parse
  <2>4. out.result = "Incompleted" \/ (out.result = "Completed" /\ out.value = Wanted)
    BY <2>1, <2>2, ParsedInStep
  <2>5. Response(Wanted) \/ UNCHANGED <<toRead, failed, answers>>
    BY <2>3, <2>4 DEF callVars
  <2>6. CASE Response(Wanted)
    BY <2>1, <2>6, AnswerCounted
  <2>7. CASE UNCHANGED <<toRead, failed, answers>>
    BY <2>1, <2>7 DEF Counted
  <2> QED BY <2>5, <2>6, <2>7
<1>7. CASE UNCHANGED progVars
  BY <1>7 DEF progVars, vars, callVars, historyVars, programVars, Counted
<1> QED BY <1>1, <1>2, <1>3, <1>4, <1>5, <1>6, <1>7 DEF ProgNext, Main

-----------------------------------------------------------------------------
(* Theorems.                                                               *)

LEMMA ProgInitHolds ==
    ASSUME ProgInit
    PROVE  SyncInv /\ ProgInv
<1>1. SyncInv
  BY SyncInit DEF ProgInit
<1>2. Going /\ Looking
  BY DEF ProgInit, Init, Going, Looking
<1>3. Counted
  <2>1. answers = <<>> /\ toRead = <<>> /\ issued = 0
    BY DEF ProgInit, Init
  <2>2. Len(answers) = 0 /\ Len(toRead) = 0 /\ DOMAIN answers = {}
    BY <2>1
  <2> QED BY <2>1, <2>2 DEF Counted
<1> QED BY <1>1, <1>2, <1>3 DEF ProgInv

\* The programs of examples/ are applications that discard a client that failed, and go on
\* only as their calls let them.
THEOREM SyncProgramsKept == ASSUME Discipline = "discard" PROVE ProgSpec => [](SyncInv /\ ProgInv)
<1>1. SyncInv /\ ProgInv /\ [ProgNext]_progVars => (SyncInv /\ ProgInv)'
  BY StepIsClientStep, SyncNext, GoingKept, LookingKept, CountedKept DEF ProgInv
<1> QED BY <1>1, ProgInitHolds, PTL DEF ProgSpec

\* A program that exits with success or aborts (sync_benchmark.cpp:52-57) has been answered all
\* it asked for, each request by its own reply, and has left nothing on the connection.
THEOREM VerdictIsEarned == ASSUME Discipline = "discard" PROVE ProgSpec => []VerdictMeansAnswered
<1>1. SyncInv /\ ProgInv => VerdictMeansAnswered
  <2> SUFFICES ASSUME SyncInv, ProgInv, exit \in {"success", "abort"}
               PROVE  /\ Len(answers) = issued /\ toServer = <<>> /\ toClient = <<>>
                      /\ \A i \in DOMAIN answers : answers[i].reply = answers[i].request
    BY DEF VerdictMeansAnswered
  <2>1. loop = "none" /\ ~failed /\ program # "careful"
    BY DEF ProgInv, Looking
  <2>2. toRead = <<>> /\ Len(toRead) = 0
    BY <2>1, EmptySeq DEF SyncInv, TypeOK
  <2>3. Len(answers) \in Nat /\ Len(answers) + Len(toRead) = issued
    BY <2>1, LenProperties DEF SyncInv, TypeOK, ProgInv, Counted
  <2> QED BY <2>1, <2>2, <2>3, Quiet DEF ProgInv, Counted
<1> QED BY <1>1, SyncProgramsKept, PTL

\* What a program remembers of itself keeps its type, and it looks at a result only if its
\* call failed or returned one.
THEOREM SyncProgramsTyped == ASSUME Discipline = "discard" PROVE ProgSpec => []ProgTypeOK
<1>1. ProgInv => ProgTypeOK
  BY DEF ProgInv, Going, Looking, ProgTypeOK
<1> QED BY <1>1, SyncProgramsKept, PTL
============================================================================
