---------------------------- MODULE SyncPrograms ----------------------------
(***************************************************************************)
(* The synchronous programs of examples/, each composed with the client it *)
(* uses: sync_set_get, sync_timeout, sync_pipeline and sync_benchmark.     *)
(*                                                                         *)
(* Each of them connects, then makes calls one after another and looks at  *)
(* what each returns; none goes on after a call has failed.                *)
(***************************************************************************)
EXTENDS SyncClient

CONSTANT Programs   \* the programs of a run

VARIABLES
    program,   \* the program that runs
    at,        \* what it does next: connect, make a call, look at what the call returned
    round,     \* history: how many of its calls have returned
    exit       \* "no", or how the process ended

programVars == <<program, at, round, exit>>
progVars    == <<vars, programVars>>

\* A program: how many requests a call makes, whether it takes an error_code, and what each of
\* its calls (the last one for all that follow) may be followed by when it has returned a reply.
\* What depends on whether the server's reply is an error or a value, or on which value, has two
\* ways to go on, and either may come of a request's own reply.
SyncSetGet ==
    [requests |-> 1, takesEc |-> FALSE,
     ways |-> <<{"call", "failure"}, {"success", "failure"}>>]

SyncTimeout ==
    [requests |-> 1, takesEc |-> TRUE, ways |-> <<{"call", "failure"}>>]

\* finish() gives an array, and an array is no error, whatever its elements are.
SyncPipeline ==
    [requests |-> MaxPipeline, takesEc |-> FALSE, ways |-> <<{"success"}>>]

\* It aborts unless SET, GET and DEL give what they should; the reply to info, which is asked
\* for now and then, is only searched.
SyncBenchmark ==
    [requests |-> 1, takesEc |-> FALSE, ways |-> <<{"call", "abort"}>>]

\* "careful" is none of the examples: it calls the client as Discipline has it.
Program == [sync_set_get |-> SyncSetGet, sync_timeout |-> SyncTimeout,
            sync_pipeline |-> SyncPipeline, sync_benchmark |-> SyncBenchmark]

ASSUME KnownPrograms == Programs \subseteq DOMAIN Program \cup {"careful"} /\ MaxPipeline >= 1

-----------------------------------------------------------------------------
ProgInit ==
    /\ Init
    /\ program \in Programs
    /\ at = (IF program = "careful" THEN "free" ELSE "connect")
    /\ round = 0 /\ exit = "no"

\* main: connect with an error_code, and give up if it is set.
MainConnects ==
    /\ at = "connect" /\ exit = "no"
    /\ Connect
    /\ IF ec' THEN exit' = "failure" /\ UNCHANGED at ELSE at' = "call" /\ UNCHANGED exit
    /\ UNCHANGED <<program, round>>

MainCalls ==
    /\ at = "call" /\ exit = "no"
    /\ Call(Program[program].requests)
    /\ at' = "result"
    /\ UNCHANGED <<program, round, exit>>

\* The error_code, where it is looked at; else an exception, which main does not catch.
CallHasFailed ==
    /\ failed
    /\ exit' = IF Program[program].takesEc /\ ec THEN "failure" ELSE "exception"
    /\ UNCHANGED <<at, round>>

\* What the n-th call is followed by; the last entry holds for all calls after it.
Following(ways, n) == IF n \in DOMAIN ways THEN ways[n] ELSE ways[Len(ways)]

CallHasReturned ==
    /\ ~failed
    /\ round' = round + 1
    /\ LET next == Following(Program[program].ways, round')
       IN  \/ "call" \in next /\ at' = "call" /\ UNCHANGED exit
           \/ \E way \in next \ {"call"} : exit' = way /\ UNCHANGED at

MainLooks ==
    /\ at = "result" /\ exit = "no" /\ loop = "none"
    /\ CallHasFailed \/ CallHasReturned
    /\ UNCHANGED <<vars, program>>

Main == MainConnects \/ MainCalls \/ MainLooks

ProgNext ==
    \/ Main
    \/ program = "careful" /\ App /\ UNCHANGED programVars
    \/ (Write \/ Read \/ Parse \/ Network) /\ UNCHANGED programVars

ProgSpec == ProgInit /\ [][ProgNext]_progVars

\* As in FairSpec; and the process goes on between its calls.
FairProgSpec ==
    /\ ProgSpec
    /\ WF_progVars(Write /\ UNCHANGED programVars) /\ WF_progVars(Read /\ UNCHANGED programVars)
    /\ WF_progVars(Parse /\ UNCHANGED programVars) /\ WF_progVars(MainLooks)

-----------------------------------------------------------------------------
(* Properties.                                                             *)

\* Every variable keeps its type, and a program looks at a result only if its call failed
\* or returned one.
ProgTypeOK ==
    /\ program \in Programs
    /\ at \in {"free", "connect", "call", "result"} /\ round \in Nat
    /\ exit \in {"no", "success", "failure", "exception", "abort"}
    /\ at = "result" /\ loop = "none" /\ ~failed => returned # <<>>

\* A program comes to a verdict only on what the server itself has answered: it exits with
\* success, or aborts (sync_benchmark.cpp:52-57, for a reply other than the one it expects),
\* only when all it asked for has been answered, each request by its own reply, and nothing
\* that a request of its own has caused is left behind.  No delay, timeout or loss of the
\* connection is ever taken for an answer.
VerdictMeansAnswered ==
    exit \in {"success", "abort"} =>
        /\ Len(answers) = issued /\ toServer = <<>> /\ toClient = <<>>
        /\ \A i \in DOMAIN answers : answers[i].reply = answers[i].request

\* The examples end, or call the client for ever: none waits for an answer without end.
EveryResultSeen == at = "result" ~> at = "call" \/ exit # "no"
=============================================================================
