---------------------------- MODULE RequestReply ----------------------------
(***************************************************************************)
(* What a Redis client promises about requests and replies, whatever the   *)
(* transport: every request that was accepted is answered at most once, by *)
(* the reply to that very request, and the replies come in the order of    *)
(* the requests (redisasyncclient.h: "Execute command ..."; pipeline.h:    *)
(* "For every request command will get response value").                   *)
(***************************************************************************)
EXTENDS Naturals, Sequences

VARIABLES
    issued,       \* requests accepted so far; a request is known by its number
    outstanding,  \* those that wait for a reply, oldest first
    answered      \* <<handler, reply>> pairs, in the order they were made

vars == <<issued, outstanding, answered>>

Init == issued = 0 /\ outstanding = <<>> /\ answered = <<>>

\* One request, or those of a pipeline together.
Issue ==
    /\ issued' > issued
    /\ outstanding' = outstanding \o [i \in 1 .. issued' - issued |-> issued + i]
    /\ UNCHANGED answered

Answer ==
    /\ outstanding # <<>>
    /\ answered' = Append(answered, <<Head(outstanding), Head(outstanding)>>)
    /\ outstanding' = Tail(outstanding)
    /\ UNCHANGED issued

\* "disconnect from redis and clear command queue" (redisasyncclient.h:56)
Clear ==
    /\ outstanding' = <<>>
    /\ UNCHANGED <<issued, answered>>

Next == Issue \/ Answer \/ Clear

Spec == Init /\ [][Next]_vars
=============================================================================
