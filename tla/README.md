# A verification of redisclient

TLA+ modules that model [redisclient](../src/README.md), a C++ client for Redis
on boost::asio; TLC configurations that check them on small instances; and
theorems about them that TLAPS proves for every value of the constants. Paths
below are relative to `src/src/redisclient/`; those of the examples, which start
with `examples/`, to `src/`.

## 1. The system

| component | state | operations | modelled by |
|---|---|---|---|
| **Asynchronous client**: `RedisAsyncClient` (`impl/redisasyncclient.cpp`) and the asynchronous half of `RedisClientImpl` (`impl/redisclientimpl.cpp`) | `state`; `handlers`, the queue of reply handlers; `dataQueued`, `dataWrited`; `msgHandlers`, `singleShotMsgHandlers`, `subscribeSeq`; `buf`; the strand; `errorHandler` | the application's `connect`, `disconnect`, `command`, `publish`, `subscribe`, `psubscribe`, `singleShotSubscribe`, `singleShotPSubscribe`, `unsubscribe`, `punsubscribe`; the handlers `doAsyncCommand`, `asyncWrite`, `handleAsyncConnect`, `asyncRead` with `doProcessMessage` | `AsyncClient` |
| **Socket, connection, Redis server** (not in this repository) | the socket, the operations outstanding on it, bytes under way, the server's subscriptions | start and completion of connect, read and write; replies, published messages, loss of the connection | `AsioEnv` |
| **RESP parser** `RedisParser` (`impl/redisparser.cpp`) | `states`, `buf`, `bulkSize`, `arraySizes`, `arrayValues`, `redisValue` | `parse` a chunk, `result` | `RespParser`; its outcomes in the two clients |
| **Synchronous client** `RedisSyncClient`, `doSyncCommand`, `syncReadResponse` | `state`, `buf`, `bufSize`, the parser, the timeouts | `connect`, `disconnect`, `command`, `pipelined` | `SyncClient` |
| **Pipeline** (`impl/pipeline.cpp`) | `commands` | `command`, `finish` | `SyncClient` (a call of several requests) |
| **Serializer** `makeCommand`, `RedisBuffer` | none | `makeCommand` | `RespWire` |
| **RedisValue** (`impl/redisvalue.cpp`) | a variant | constructors, type tests, conversions, `inspect`; what `doProcessMessage` makes of a value | `RespWire` (its kinds), `RedisValue` |
| **Asynchronous examples**: `async_timeout`, `async_set_get`, `async_set_get2`, `async_pubsub`, `benchmark` | `timer`, `connectSubscriberTimer`, `connectPublisherTimer`, `publishTimer`, and what each object is about to do | the functions they give the client and the timers to call | `AsyncPrograms` |
| **Synchronous examples**: `sync_set_get`, `sync_timeout`, `sync_pipeline`, `sync_benchmark` | where `main` is | `main`, `Benchmark::run` | `SyncPrograms` |
| errors, configuration, version, the amalgamated copy, tests, build files | | | not modelled |

How they interact. The application calls a client object. A call of the
asynchronous client checks `state`, then *posts* `doAsyncCommand` to the strand;
that handler queues the reply handler and the request's bytes and, when no write
is outstanding, starts one. `asyncWrite` runs when a write ends and sends
everything queued meanwhile. `handleAsyncConnect` calls the connect handler and
starts the reading loop: `asyncRead` feeds the bytes of `buf` to the parser and
calls `doProcessMessage` for every complete reply, which calls
`handlers.front()` or posts message handlers to the strand; then the next read
is started. Callbacks run inside these handlers and may call the client again. The examples are
such applications: classes whose functions are all called by the client or a timer, on
the one thread that runs the `io_service`.
The synchronous client uses the same `RedisClientImpl`, but only its socket,
`buf`, `bufSize`, the parser and `state`: a call writes its requests in a loop of
`poll` and `send`, then reads as many replies in a loop of `poll`, `recv` and
`parse`, and blocks all the while. A `Pipeline` only collects commands and hands
them over in `finish`.

What is hard.

* *Pairing by position.* A reply carries no id. It belongs to the handler at the
  front of `handlers`, which is right only as long as exactly the requests in
  that queue, in that order, have been sent on this connection.
* *What outlives a connection.* `disconnect` closes the socket, but completions
  that were ready still run, the strand still holds work, and `dataQueued`,
  `dataWrited`, `singleShotMsgHandlers` and (over a local socket) the parser
  keep their contents.
* *Reentrancy.* A reply handler that disconnects empties the queue that
  `doProcessMessage` is about to `pop`; one that connects again may start a
  second reading loop over the one `buf`.
* *Two views of a subscription.* `msgHandlers` changes at the call, the server's
  subscription when the command reaches it, and messages arrive in between.
* *Buffers in use.* `async_write` reads `dataWrited` until it completes.
* *Bytes.* Replies arrive cut anywhere; the parser must go on where it stopped.
* *Several reports of one failure.* A lost connection fails the read and, when the
  application disconnects, aborts the write: the error handler is called twice, and where it
  is the function that connects again, its second call finds the attempt of the first.
* *Timers.* One may run out while the answer it guards against has arrived and waits for
  its handler, and a cancelled wait whose handler is due is not cancelled any more.
* *Failed calls.* A synchronous call that times out leaves its reply on the way,
  or half of it in the parser, and half a pipeline may have been sent.

What would make each component correct: the asynchronous client is a
request/reply channel (each request answered once, by its own reply, in order;
unless the connection is lost, eventually) and a faithful mirror of the
server's subscriptions; the parser returns the same values however its input is
cut; the serializer writes what the parser (and a server) reads back; the
synchronous client and a pipeline return to each command its own reply.
`PROJECT.json` lists under `hazards` every place where this is at risk, with
the properties aimed at it.

## 2. The modules

| module | what it is |
|---|---|
| `AsioEnv` | the environment: socket, outstanding operations, connection, server. External code, modelled from how `redisclientimpl.cpp` uses it |
| `AsyncClient` | the asynchronous client over `AsioEnv`; its specification, properties and refinement mapping |
| `SyncClient` | the synchronous client and `Pipeline`, with their sockets and server |
| `AsyncPrograms` | the asynchronous examples, each composed with `AsyncClient` |
| `SyncPrograms` | the synchronous examples, each composed with `SyncClient` |
| `RequestReply` | the abstract promise of a client: issue, answer in order, clear. Both clients implement it |
| `RespWire` | bytes and values of the protocol: `makeCommand`, replies, and when a sequence of parts is one value |
| `RespParser` | the parser, byte by byte, over `RespWire` |
| `RespGrammar` | RESP, without the parser's states and tests: which bytes are a message, what they stand for, and which no message begins with |
| `RedisValue` | what is made of the values the parser returned: conversions, `inspect`, and the sorting of pushes |
| `MCAsyncClient`, `MCAsyncPrograms`, `MCRespParser` | the applications (sets of calls), programs and conversations that the runs instantiate |
| `SeqLemmas` | lemmas on sequences: of those that ascend, are in the order of a relation, fit end to end, or have an element cut in two |
| `AsyncClient_proofs`, `AsyncSettled_proofs`, `AsyncMessages_proofs`, `AsyncPrograms_proofs`, `RespParser_proofs`, `SyncClient_proofs`, `SyncPrograms_proofs` | the theorems |

### AsioEnv

A request is the order in which it was made (`id`), whether it is a plain
command, SUBSCRIBE or UNSUBSCRIBE, and a channel. Bytes are counted in
replies: a reply arrives `whole` or in two pieces, so that a read may end
inside of one. `connectOps`, `readOps` and `writeOps` are the operations
outstanding; each is pending, or completed and waiting for its handler to run.
Completions are run in any order, all that asio promises of handlers outside a
strand. `CloseSocket` completes what is pending with an error, and *keeps* the
result of what had completed: that is how asio behaves and the cause of most
surprises. Every read fills the same array from its start (`Overwrite`), as
`boost::asio::buffer(buf)` makes it do. A write may be taken by the kernel
piecewise and fail half way; a connection may drop at any time; a server
answers in order and has subscribed the connection to a channel from the moment
it answers.

### AsyncClient

Variables have the names of the members of `RedisClientImpl`; `strand` is the
work posted to it. `frame` says inside which callback a handler is suspended
(`connect`: the connect handler; `handler`: `handlers.front()` before
`handlers.pop()`; `error`: the error handler within `asyncRead`) or that it is
in asyncRead's loop (`parse`, with `rest` the bytes left); outside all of them it
is `none` and asio may run another handler. `undefined` follows `pop` on an empty
queue, and nothing happens after it: `NeverPopsEmpty` says where this cannot occur. Everything else is history that the
properties need.

`Parse` has what the parser makes of one unit of bytes. As long as these continue what it is inside of, that is
the reply, or that it is incomplete. A local socket is connected without a reset of the parser, so that they may
not: the parser was left inside of the reply of an old connection. Then they are `OutOfStep` and may be
taken for anything (`Garbled`): a value, an error, the inside of something longer, and, since in state `Subscribed` values are
told apart by the length of the array and its first word alone, for a confirmation, which calls `handlers.front()`, or
for a message of any channel, which nobody published (number 0) and whose handlers are posted all the same. An interrupted `+O`
in front of an array makes each element a value of its own, so that one unit may complete several, one
after another: what is left of it after one is its `Leftover`, out of step like the unit itself, and
`MaxExtra` bounds how many there are.

| action | code |
|---|---|
| `Connect`, `Disconnect` | `RedisAsyncClient::connect` (both overloads), `disconnect` and `RedisClientImpl::close` |
| `Command`, `Publish` | `command`, `publish`, with `stateValid` |
| `Subscribe`, `SingleShotSubscribe`, `Unsubscribe` | the functions of that name; the `p` variants run the same code with another command word |
| `DoAsyncCommand`, `CallMessageHandler` | the two kinds of work on the strand |
| `AsyncWrite`, `HandleAsyncConnect` + `ConnectHandlerReturns`, `AsyncRead` + `ParseChunk` + `ReadAgain` | the handlers of the three kinds of operation |
| `PostMessage`, `CallFront`, `Refuse` within `ParseChunk`; `HandlerReturns`, `ErrorHandlerReturns` | `doProcessMessage` |

`Discipline` says when the application disconnects and connects: `any` moment,
inside callbacks too; `idle`, outside callbacks, with nothing on the strand, and
connecting only after every old completion has run; `settled`, besides only when
every request has been answered. The code demands none of this; the constant makes it visible
what each property needs. `Throws` says whether the error handler throws (the
default one does). Assertions are taken as in a release build: a call in the
wrong state goes to the error handler.

### AsyncPrograms

A program is a table of its functions, and a function a sequence of the calls it makes:
of the client, of a timer, or `exit`. A function that decides by the reply has one
entry per way to go on; a call that is made only in some states of the client
(`if (subscriber.state() == ...)`) carries these states. `script` is the stack of the
calls still to be made. While it is not empty the thread is inside of the program, so that no handler
runs; a call that calls back at once (`connect` while there is an attempt or a connection, any request
in the wrong state, which calls the error handler) pushes the function called on top
of it. `HandlerRuns` is a handler of `AsyncClient` together with the function of the program that it
calls: `connected`, `refused` or `aborted` for the connect handler, the function a request came with
(`onReply`) for its reply, `error` for the error handler, a timer's function for a wait that has
ended. `Expire` lets time pass; a wait that has ended waits in `due` for its handler, and
cancelling or starting the timer anew no longer stops that one.

The publisher and the subscriber of `async_pubsub` share nothing but the thread and are
programs of their own. `benchmark` has all its workers and the `OpsFetcher` on one connection, as with
one connection on its command line. `listener` is none of the examples: it connects once,
then subscribes to each channel at most once at a time and unsubscribes, at any moment,
which no example does.

### SyncPrograms

A program is how many requests its calls make, whether it passes an error_code, and the `ways`
it may go on after each call. Where it looks at the reply (`isOk`, or `sync_benchmark`'s comparisons) there are
two ways, and a request's own reply may lead to either: Redis may answer SET with an error, and
`sync_benchmark` calls `abort()` then. `at` is where
`main` is (`connect`, `call`, `result`), `exit` how the process ended: an exception
that `main` does not catch is one of the ways, `abort()` in `sync_benchmark` another.
`careful` is none of the examples: it makes calls of every size and discards the client that failed.

### RespParser and RespWire

One step is one turn of `parseChunk`'s loop; `Parse` enters it with a chunk that
may end anywhere, `Completed`, `Incompleted` and `Fail` are its returns. The
variables are the parser's members and the local `state`. A turn that ends a
value goes through the state `"Close"`, which is the code below the `switch`:
`CloseElement` puts the value into the innermost open array, and is repeated
when that array ends with it. Bytes are reduced to those the parser tells
apart: the digits, the five type bytes, CR, LF, and one each of the printable,
control and non-ASCII bytes. The cases of the `switch` that differ only in the
state they go to are one operator (`ReadLine`, `ReadOther`).

A value is the sequence of its *parts*: a leaf is one part, an array its header
followed by its elements. `Missing` counts the values that are still needed;
`OneValue` says that a sequence is exactly one tree. That gives the reference
the parser is compared with and needs no recursion: `PartsOf(sent)` is what was
sent, and the values returned must be its prefix, cut at the borders of trees.

`RespGrammar` says which conversations the theorems are about (`WellSpoken`): each message is one
line or one bulk string of RESP with the value, or the array header, it stands for; or it is
malformed, and then its last byte is the first that fits no message (`IsMessage`). It describes a message as
a whole, by where its first line ends, and says what RESP allows in a line (`LineByte`): anything but CR and LF in a text,
digits after at most one sign in a number. Of the parser it takes only the value of a
number (`BufToLong`). The parser is not that language in two places (`Disputed`):

* in a line of text it refuses control characters and what is not ASCII (`isChar`, `isControl`;
  `impl/redisparser.cpp:96`), which RESP allows. An error message that quotes such a byte of a command is a parser error;
* in a number it takes a minus anywhere, and alone (`impl/redisparser.cpp:119`, `:423`), which RESP does not allow,
  and refuses a plus before an integer, which it does.

What is shown of the parser is therefore shown of conversations without such bytes (`PlainLines`); every other
byte that a message cannot have must be refused where it stands. A number that is out of range (a size below -1) is
malformed with the end of its line. `MCRespParser` checks (`MCMessages`) that the conversations of the
run are of that kind, its commands as a header and as many bulk strings.

### RedisValue

The operators of the class on the values that the parser returned (`results` of `RespParser`), which are
sequences of parts: `Elements` cuts an array into its elements, the conversions give
the default of their type for a value of another one (`castTo`), and `Inspect` is `inspect` with its
cut and overwritten last characters. `Recognised` is what `doProcessMessage` makes of a value in
state `Subscribed`, by the length of the array and its first element alone. Both are compared with a definition
that goes over the parts without recursion, on everything the parser of the run returns.

### SyncClient

A call blocks, so that one step is one turn of its loop: a `WriteRequest` for each
buffer, a `ReadSome` (one `recv`), a `Parse` (one `RedisParser::parse`). Every
`poll` may end in a timeout (`WriteFails`, `ReadFails`) whatever the network does.
`link` is the socket: `closed`; `open` but not connected, as a failed connect leaves
it; `up`; `dropped` by the peer. `Discipline` says what the application does
after a failure: `discard` the object, `reconnect` it, or `any`thing, including
passing an error_code that is still set from an earlier call. `Call(n)` is `command`
for `n = 1` and `Pipeline::finish` for any `n`. A piece that does not continue what the parser is
inside of may be taken for anything here too (`Outcomes`), and after a value or an error what is left of it stays at the
front of `buf` (`Unparsed`), good for at most `MaxExtra` values more.

| action | code |
|---|---|
| `Connect` (`ConnectSucceeds`, `ConnectFails`), `Disconnect`, `Discard` | the overloads of `connect`, `disconnect`, destructor and constructor |
| `Call`, `CallRefused` | `command`, `pipelined`, `stateValid` |
| `WriteRequest`, `WriteFails` | `socketWrite` under both `doSyncCommand` |
| `ReadSome`, `ReadFails` | `socketReadSome` under `syncReadResponse` |
| `Parse`, `Response` | the inner loop of `syncReadResponse`, the loop of `doSyncCommand` |

## 3. The runs

A run's bounds are constants: `MaxCalls` requests, `MaxTurns` calls of connect
and disconnect, `MaxHandles` subscriptions held per channel, `MaxPublished`
messages, `MaxExpiries` times that each timer runs out, `MaxExtra` values that bytes out of step
complete besides one. The interesting cases need few: three
requests make one in flight,
one in `dataWrited` and one in `dataQueued` (a fourth lets the queue grow); two
connections need three turns, with one more pair in `orderly` for a failed
attempt in between. Two extra values pop a handler, then one more, and leave some over. The server publishes in the run
`messages`; in `reconnect` and `programs` (`MaxPublished` 0) messages come of bytes out of step. `programs` has a
VIEW (`Apart`): states that differ only in histories that no action and no property of the run reads are explored once.

| run | application | shows |
|---|---|---|
| `orderly` | commands, discipline `settled`, up to three connections | `ReplyMatching`, `SingleReader`, `ConnectedImpliesOpen`, `NeverPopsEmpty`, `NoSpuriousProtocolError`, the refinement of `RequestReply`, and under fairness `EveryRequestAnswered` and `LossReported` |
| `reconnect` | every call at any moment, in callbacks too, error handler throws, local socket (a parser that is not reset, bytes out of step) | what holds whatever the application does: `TypeOK`, `SingleWriter`, `WireOrder`, `HandlersInOrder` |
| `programs` | each asynchronous example, and `listener` | `ProgTypeOK`, `ReconnectsOnce`, `AssertionsHold`, `NeverStranded`, `SubscribersServed`, `NeverPopsEmpty` |
| `messages` | two subscriptions and single-shot ones on a channel, two messages | `NoMissedMessage`, `MessagesInOrder` |
| `parser` | some 780 conversations: every pair of replies, nested and empty arrays, a malformed message for each place where RESP and `parseChunk` give up, commands written by `MakeCommand`, the pushes of a subscription; chunks cut everywhere | `TypeOK`, `MembersAgree`, `RepliesFaithful`, `RepliesPrompt`, `ErrorsFound`, `InspectFaithful`, `PushesRecognised` |
| `sync_discard` | each synchronous example; and `careful`: commands and pipelines of up to three, after a failure a new client | `TypeOK`, `RepliesMatch`, `QuietBetweenCalls`, `ProgTypeOK`, `VerdictMeansAnswered`, the refinement of `RequestReply`, and under fairness `EveryCallReturns` and `EveryResultSeen` |
| `sync_any` | the client used on after failures, in any way | what remains then: `AnswersInOrder` (no reply is read twice or after a younger one), `ConnectedImpliesSocket` |

What `programs` shows in words. `ReconnectsOnce`: whatever is reported how often, publisher
and subscriber have one attempt to connect under way, and `isConnected` is never true before the
socket is. `AssertionsHold`: in the programs that connect once, the assertion of
`examples/benchmark.cpp:104` (a worker's GET gives what its SET has set, however many share the connection) and
`stateValid` are kept. `NeverStranded`: a program meant to run for ever never comes to rest
with no timer, no attempt and no read to wake it. `SubscribersServed`: after any reconnecting,
subscribing and unsubscribing, what the client hands out and what the server sends agree.

What `VerdictMeansAnswered` says in `sync_discard`: a synchronous example exits with success, or calls `abort()`, only when the
server has answered all it asked for, each request with its own reply. It does not say that `sync_benchmark` never
aborts: an error in reply to SET (out of memory, a read-only replica) is the server's own answer and makes it abort.

In `programs` five turns are two connections and an attempt to make a third (connect,
disconnect, connect, disconnect, connect), four requests a round of two workers and the request
that follows, or two subscriptions on each of two connections; one expiry of each timer meets every phase of the
client, since the timers of a program start anew. In `parser` the conversations bound the model, not
the number of cuts: every
chunk may end after every byte. An array of two with four elements or headers
behind it, drawn from an integer and the headers of arrays of zero, one and two, closes up
to four levels with one value or leaves some open; `MakeCommand` is read back with an empty argument, one of CR LF,
one cut at a NUL, and eleven arguments (two digits); names and payloads of pushes are words of the
protocol where a push could be mistaken for another. In the synchronous runs four requests make a
pipeline of three and one after it; three turns make a connection, its end and
another one.

Five more runs check what the repository says of itself and find it violated;
each is a finding in `PROJECT.json`, quoted there with its line:

| run | finds |
|---|---|
| `stale_reply` | `disconnect` does not "clear command queue": `dataQueued` survives it, is sent on the next connection, and every later reply goes to the wrong handler. Hence `settled` in `orderly` |
| `command_then_subscribe` | the reply to a command in flight is a "Protocol error" once `subscribe` has been called |
| `shared_channel` | giving up one of two subscriptions of a channel silences the other. Hence one per channel at a time for `listener` in `programs` |
| `async_pubsub` | the subscriber of `examples/async_pubsub.cpp` calls `subscribe` on a client that is still connecting, against the assertion at `impl/redisclientimpl.cpp:561`: its connection is lost with a write outstanding, the error handler is called twice, and `connect` during a `connect` reports success at once |
| `sync_reconnect` | the synchronous `connect` does not reset the parser: the first reply of a new connection is taken for the rest of one that a timeout interrupted. Hence `discard` in `sync_discard` |

Deadlock is not checked: an application is free to stop calling, and in every
run it does when its bounds are used up.

Fairness (`FairSpec`, run `orderly`). `io_service::run` runs every handler that
is ready, hence weak fairness of each kind of handler and of the steps inside
`asyncRead`; callbacks return; while the connection is up it moves bytes and
the server answers. Nothing makes the application call, the connection drop or
a connect complete. `EveryRequestAnswered` is therefore "answered, or the
connection is not up"; it is checked with an error handler that returns, since
after one that throws out of `asyncRead` nothing reads any more.

Fairness in `SyncPrograms` (`FairProgSpec`, run `sync_discard`): the process goes on between its
calls (`MainLooks`), and the calling thread runs, so each of
its loops turns, and `poll` returns by its timeout at the latest, hence weak
fairness of reading (some data or the timeout), writing and parsing. Nothing is
assumed of the server and the network, so that `EveryCallReturns` rests on the
timeouts alone.

## 4. The proofs

`AsyncClient_proofs` proves, for every set of channels and calls, every
discipline and every bound:

* `TypeCorrect`: `Spec => []TypeOK`. TypeOK is inductive. One lemma each for the
  application's calls, the client's handlers and the environment.
* `OneWriter`: `Spec => []SingleWriter`. SingleWriter is inductive given TypeOK
  because it says more than "one write": the write in progress is outstanding
  exactly while `dataWrited` is not empty, which is the condition
  `doAsyncCommand` tests, and what it has left is a suffix of `dataWrited`. The lemma `SuffixOfSuffix` keeps
  the latter through partial writes.

* `OrderKept`: `Spec => []OrderInv`, from which `SentInOrder` (`WireOrder`) and
  `CalledInOrder` (`HandlersInOrder`) follow. `WireOrder` and `HandlersInOrder` speak of
  histories and are not inductive: whether the next request written is younger than
  the last one depends on `dataWrited`, whose successor comes from `dataQueued`, which
  is filled from the strand, which is filled by calls. `OrderInv` therefore keeps
  four *watermarks*
  `sent <= written <= queued` and `answered <= queued`: what is on the wire lies at or
  below `sent`, what the write in progress has left above it and up to `written`,
  `dataQueued` up to `queued`, the strand beyond; the handlers called lie at or
  below `answered`, those waiting above it and up to `queued`; and each of these
  is ascending. A step moves requests across a mark and the mark with them; a lost
  connection only takes requests away. Nothing is assumed of what bytes are taken for: a confirmation nobody sent, or several
  values out of one unit, calls the handler at the front and moves the mark as a reply does. `WrittenOut` adds that a write that has ended has nothing left.

`AsyncSettled_proofs` proves for every bound, and for an application that disconnects only from
outside of the callbacks and connects when every completion has run (hypothesis `Discipline #
"any"`, that is `idle` or `settled`):

* `ConnKeptThroughout`: `Spec => []ConnInv`. A second reading loop needs a second
  connect handler, and that a second attempt: no property of the loop alone is inductive. `OnePlace` counts the attempts, the reads
  and the turn of the loop that runs, which together are never more than one; `state = "Connecting"` exactly while there is an
  attempt; an attempt that succeeded has a connected socket. `OneReader` (`SingleReader`), `ConnectedMeansOpen`
  (`ConnectedImpliesOpen`) and `PopsWhatItCalled` (`NeverPopsEmpty`) follow. The run
  `stale_reply`'s application is of this kind too: what these theorems do not say
  is whose reply a handler gets.

and for one that only makes commands, and disconnects when all of them are answered (hypothesis
`CommandsOnly`: discipline `settled`, which the counterexample of `stale_reply` asks for, and no
subscription, which that of `command_then_subscribe` asks for):

* `RepliesPaired` (`ReplyMatching`). A reply carries no number that the client sees: the n-th
  reply is given to the n-th handler, and that they belong together depends on every queue
  between `command` and the parser. The invariant `PairInv` (`PairKept`) numbers the
  requests without a gap from the first one answered to the last one made. `HandlersPaired` says
  so of those answered, of `handlers` and of the strand; `RequestsGoing` of the link, the write
  in progress and `dataQueued`, whose first is the next the server will answer; `RepliesComing`
  of the rest of `buf`, the completed read and the link, whose first piece starts where the
  parser stands (`At`) and whose last ends with the server's last reply. Pieces are counted in
  halves of replies, so that "starts" and "ends" are numbers and the lemmas on `Follow`
  cut, extend and join streams without looking into them. `PlainConn` says that a client that is not connected has nothing
  under way (`NothingLeft`), from which a new connection starts at the same count. When the link
  has dropped, what is left is a beginning. One lemma per action.
* `NeverFindsFault` (`NoSpuriousProtocolError`): under `PairInv` a reply that ends has its handler in the queue, and the
  parser only meets the piece it waits for (`ParseOutcome`).
* `AsyncImplementsRequestReply`: under `PairInv` what the refinement mapping shows of the client
  is fixed by two numbers, how many requests were made and how many answered
  (`AreTwoNumbers`), and a step advances at most one of them, by one (`CountsStep`): an `Issue`, an `Answer` or a stutter.

`AsyncMessages_proofs` proves of published messages, for the same two disciplines, any number of
subscriptions, messages and connections:

* `MessagesGivenInOrder` (`MessagesInOrder`), of published messages; one that nobody published, which bytes out of step were
  taken for (number 0), has no place in any order, but even so a single-shot handler is called once. asyncRead does not call message handlers, it posts them one
  job per message, so that `called` grows from a strand that grows from a stream of pieces of replies. The
  invariant `MsgInv` (`MessagesKept`) has one mark, `at`: the messages called and posted lie at or below
  it and each comes after those before (`GivenInOrder`: not older, and to none of the same handlers
  unless it is newer); those in the stream, each in its place between its predecessor's number and its
  own, lie above (`OnTheirWay`). Cutting a reply in two, losing a part of the stream with its
  connection, and publishing keep that; parsing the end of a message moves the mark. `ShotInv` is why a
  single-shot handler gets one message at most: one that was taken is not among
  `singleShotMsgHandlers` any more, and a new one has a request's number that is new.
* `NothingLeftToParse`: outside of asyncRead's loop nothing of `buf` is left, whatever is called when.
* `NoneIsMissed` (`NoMissedMessage`), under the hypothesis `Resets`: besides the discipline, TCP and
  an error handler that returns. `MissInv` says for every message and every subscription that was there when it was
  published, and still is, that the subscription has been called with it, is in a posted job, or that the end of the message is on its
  way; when all is quiet only the first is left. For a piece on its way to be posted when it is parsed the parser must be in step with the stream
  (`InStep`: it is inside of a reply exactly when the second half of it comes next) and the client
  `Subscribed`. Over several connections both rest on the reset of the parser in `connect`
  (`impl/redisasyncclient.cpp:33`), which the overload for local sockets does not make (:55), and on
  an error handler that does not throw out of the loop: the rest of `buf` would be gone.

`AsyncPrograms_proofs` proves for every program, number of workers, and bound:

* `ProgramsAreApplications`: `ProgSpec => Spec`. Every step of a program is a call, a handler or a step of
  the environment as `AsyncClient` has it, or none of them. So what is proved of the client holds in every example:
  `ProgramsKeepOrder`.
* `ProgramsTyped` (`ProgTypeOK`), and `ScriptsKept`: every call still to be made is of the program's table
  (`Vocabulary`). That one makes the rest possible without a look into the stack: a claim on what a
  program calls, and in which states, is a claim on its table.
* `OneAttemptAtATime` (`ReconnectsOnce`). No discipline is assumed of publisher and subscriber here, and theirs
  is none of `AsyncClient`'s: they disconnect and connect inside of the error handler. What they do keep to
  is in their tables, and gives `OneAttempt`: a `disconnect` is made only of a client that is connected
  (`If({"Connected", ...`), so that no completed attempt is left behind for the next one, and the client is
  `Connecting` exactly while an attempt is under way.
* `AssertionsKept` (`AssertionsHold`). A program that connects once never leaves `ConnInv` and `PairInv`
  (above), which `OnceInv` shows without a hypothesis on the discipline, from what the program has called so
  far: before it is connected it has made no request and set no timer (`NotYet`), so nothing can be
  called back but the connect handler. Any number of workers on one connection are covered.
* `ProgramsPopWhatTheyCalled` (`NeverPopsEmpty`). `disconnect` inside of a reply handler is what empties the
  queue; `PopInv` says that while a reply handler runs, the calls still to be made are requests,
  timers or the end of the program, and that publisher and subscriber, whose requests have no
  handlers, have none to make. A refused request calls the error handler on top of a reply handler, so
  that of each program has to be looked at too.
* `NeverLeftStranded` (`NeverStranded`), of the three programs that are to run for ever. At rest there is
  nothing left to call, so the invariant (`LastInv`) has to say what a program goes on with in the middle of
  any function: not connected, it is about to connect, is trying to, or, publisher and subscriber, has a
  timer to try again (`Onward`); connected, publisher and `async_timeout` have a timer that
  is `Alive`: waiting, expired and not yet reported, or about to be set (`Timed`); and the connected
  subscriber, which has no timer then, has a read that is not aborted, or is about to disconnect
  (`Listening`). That a `disconnect` still to be made has a `connect` after it, and a `cancel` a
  `wait`, is a claim on the order of calls (`Followed`), not on the set of them, and functions are called on top of
  one another; it holds of each function of the three tables and therefore of what is put together
  from them. `async_timeout` may come to rest `Unconnected`: it does not try again when it could not connect.

* `SubscriptionsServed` (`SubscribersServed`): once all is quiet the server has the client subscribed to
  what it has handlers for and to nothing else. Between the two stand the requests under way, in two
  queues: the strand (`Awaiting`) and what `doAsyncCommand` has taken from it (`Sent`). A step passes one on, has the server told
  of one, or loses some, which only happens with the link (`Moved`, with one lemma per handler and
  for the environment), and a call appends one (`Asks`). The invariant `FedInv` says of each kind of program what
  follows. A program that subscribes is told of its link before it has another one (`Reached`). The
  listener, which gives subscriptions up as well, needs the order: told of all requests under way, one after the
  other, the server ends up with the channels listened to (`LeadTo`); before it is connected it has asked for nothing (`Fresh`). The
  subscriber disconnects with requests still under way, and its next connection may be sent what was on the strand
  then, so no such order can be claimed; since it gives nothing up, sets will do: nothing but its two
  channels is asked for (`OnlyWanted`), what it listens to is served or still under way (`AskedFor`),
  and what it does not listen to yet it is about to subscribe to (`WillListen`). The others never subscribe.

`RespParser_proofs` proves for every set of conversations and every way of
cutting them:

* `ParserCorrect`: TypeOK and `MembersAgree` are inductive together;
  `ParserTypeCorrect` and `ParserMembersAgree` are its halves. The type
  of `arraySizes`, `Seq(Nat \ {0})`, carries the argument that the decrement in
  `parseChunk` meets zero; that both stacks have one height makes
  `arrayValues.top()` defined; `bulkSize > 0` in state `Bulk` is the assertion
  of the code.
* `RepliesAreFaithful` (`RepliesFaithful`), `RepliesArePrompt` (`RepliesPrompt`) and
  `ErrorsAreFound` (`ErrorsFound`), for conversations of any number of messages of `RespGrammar`, nested
  as deeply and as long as may be: the hypotheses `WellSpoken` and `PlainLines` stand in the theorems. The
  grammar is RESP's and the states are the parser's: the lemma `MessageIsRead` shows that each message of RESP
  without a disputed byte is one that the parser's tests take to its end or give up at the same byte (`IsRead`), and only after it do
  the states come in. All three speak of the whole
  of what was sent and none is inductive. `ReadingInv` (`ConversationsRead`) says where the parser is: `At(k, r)`, it has read
  `k` messages and `r` bytes of the next. Of the messages read, no part is missing or to spare: the values
  returned, then each open array with the elements it has, then a value that has just ended, are
  `PartsOf` the first `k` (`Read`), where an open array is short of exactly the number on `arraySizes` and everything else is one
  value (`Whole`). Of the message begun, `UnderWay` says what its bytes so far have made of the state,
  `buf` and `bulkSize`, by whether they end in the first line, in its end or in a bulk string. A turn of the loop
  goes on with the message, makes its part of it or gives it up (`Goes`, `GaveLeaf` and the like); one lemma for each
  state of the switch. `HeaderReads`, `LeafReads`, `CloseReads` and `CompletedReads` keep `Read` as the parts move from one
  place to another. Where the induction is over a sequence (`FlattenSeq`, `Missing`), it is one over the set
  of the numbers up to its length (`CountUp`). A number that a `long` does not hold stops the model
  (`MaxLong`), so that nothing is claimed past it.

`SyncClient_proofs` proves for every bound, transport and error handler:

* `SyncTypeCorrect`, whatever the application does after failures. TypeOK needs
  `CallInv`: the requests of a call are the last that were made, those still
  to send are among those still to read, and the writing loop has something to send.
* `CallsAnswered` (`RepliesMatch`), `NothingLeftOver` (`QuietBetweenCalls`) and
  `SyncImplementsRequestReply` (the refinement of `RequestReply`) for an application
  that discards the client after a failure: the hypothesis `Discipline = "discard"`
  stands in the theorems; `sync_reconnect` shows that `RepliesMatch` is false without it.
  A reply carries no id, so that none of them is inductive: that the next bytes
  are the reply to `Head(toRead)` depends on everything ahead of them. The
  invariant `SyncInv` (`SyncKept`) lays out the requests of the call from the oldest to the
  youngest: those answered (`Answers`), the one the parser is inside of, the pieces of replies
  in `buf` and on the wire (`Consecutive`, `StartsWith`), those with the server
  (`ServerInStep`) and those not sent, and says that each stage begins where the
  one before it ends. While the connection is up nothing is missing; once it
  has dropped, what is left of the replies is a beginning (`InStep`). When a
  call is over there is no request left for any stage to hold, which is
  `QuietBetweenCalls`. Under `SyncInv` the parser can only take a
  piece for what it is (`ParsedInStep`): a reply is the answer of `RequestReply`, a
  failure its `Clear`, a call its `Issue`, and every other step stutters.
* `ConnectedMeansSocket` (`ConnectedImpliesSocket`), again whatever the application does.
* `AnswersKeepOrder` (`AnswersInOrder`), whatever the application does. What a reply is given to is
  then no longer known, but replies stay in line: those read, the one the parser is inside of, those in
  `buf`, on the wire and still with the server are in the order of their requests (`OrderInv`), through
  reads cut anywhere, a parser left inside of an old reply, and garbage and what is left of a piece read out of step,
  which hold no place in the line. `AnswersInOrder` says no more than that: that a reply is never younger than the request it is
  given to is false, since a call that fails after it has sent some of a pipeline leaves the replies of those it
  did send to later calls, and a pipeline of three shows it (with pipelines of two nothing does).

`SyncPrograms_proofs` proves for the synchronous examples, with pipelines of any size:

* `SyncProgramsKept`: their steps are steps of a client that is discarded after a failure
  (`StepIsClientStep`), so that `SyncInv` holds; `ProgInv` adds what it leaves to `main`: a
  call that returned was answered by its own replies, and the answers so far and what the running call
  still reads are all that was asked for. `VerdictIsEarned` (`VerdictMeansAnswered`) and `SyncProgramsTyped` (`ProgTypeOK`) follow.

The assumptions are those named in `AsioEnv`, `AsyncClient`, `AsyncPrograms`, `RespParser`,
`SyncClient` and `SyncPrograms`
(`NoChannel` is no channel, conversations consist of bytes, the bounds are naturals,
the enumerations are what they are). The bounds play no part in the proofs.

Only model-checked: the liveness properties (fairness is out of the prover's
reach); `InspectFaithful` and `PushesRecognised`, which compare `RedisValue` with a reference on
the values that the parser returned (`Inspect` and `Elements` are defined by recursion over a value, and the induction
theorems of the library, which take an operator as a parameter, cannot be instantiated); and every
property not named above.

## 5. What is not modelled, and the plan

Not modelled: several threads in `io_service::run` (only `doAsyncCommand` and
the message handlers are on the strand, so the other handlers would race, and a data race has no
defined outcomes to enumerate; the
examples and tests use one thread); the lifetime of the client object; the
text of messages; exceptions thrown by handlers other than the error handler;
signed overflow in `bufToLong`; the narrowing of a timeout to the `int` that `poll` takes
(`impl/redisclientimpl.cpp:77`, `:149`); memory; signals; an empty pipeline, and a second `finish` of
one `Pipeline`. Of the examples: `async_pubsub2`, where a handler of one client calls another one, which takes two
copies of `AsyncClient`, and `benchmark` with a connection per worker (workers that share nothing). Of `RedisValue`: `getByteArray` and
`getArray`, which refer to what the conversions copy, the comparison operators and the
moves. Error helpers, configuration and version hold no state. The amalgamated copy is the same code
in two files, except that `amalgamated/redisclient.cpp:378` sets `SO_RCVTIMEO` where the source
sets `SO_SNDTIMEO`. The unit tests feed the parser and the values fixed inputs, which
`parser` covers.

Three divergences found on the way have no run of their own. The parser refuses bytes that RESP allows in a line of
text, and takes a minus where RESP does not (`Disputed`, section 2). A single-shot subscription
is never given up towards the server (redisasyncclient.h:84-86 says it is unsubscribed
after the call). A connect that had completed before `disconnect` makes the closed
client Connected when its handler runs; `ConnectedImpliesOpen` therefore holds
only where the application waits. All are under `hazards`.

Left, in this order:

1. Two clients on one thread, for `async_pubsub2`.
2. `InspectFaithful` and `PushesRecognised` for every value, by the same numbering of parts as in `ReadingInv`.
