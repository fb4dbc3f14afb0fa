-------------------------- MODULE MCAsyncPrograms --------------------------
(* The programs that the runs put together with the client.                *)
EXTENDS AsyncPrograms

AllPrograms == DOMAIN Program

\* States that differ only in histories that no action and no property of the run reads are
\* explored once: which messages were called with, what reached the wire, whom a message was
\* meant for, and of the replies given all but whether each was the right one.
Apart ==
    <<state, queueVars, pubsubVars, loopVars, issued, turns, ReplyMatching, reported, told,
      linkVars, opVars, Len(published), programVars>>
=============================================================================
