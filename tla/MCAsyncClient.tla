--------------------------- MODULE MCAsyncClient ---------------------------
(* Instances of AsyncClient for TLC: what the application of a run calls.  *)
EXTENDS AsyncClient

\* One or several connections used for commands only.
CommandCalls == {"connect", "disconnect", "command", "publish"}

\* A subscriber as examples/async_pubsub.cpp has it, on one connection.
SubscriberCalls == {"connect", "subscribe", "unsubscribe"}

\* The same with single-shot subscriptions.
SingleShotCalls == SubscriberCalls \cup {"singleShotSubscribe"}

\* Commands and subscriptions on one connection.
MixedCalls == {"connect", "command", "subscribe"}
=============================================================================
