---------------------------- MODULE MCRespParser ----------------------------
(* What RespParser is given in the runs.                                   *)
EXTENDS RedisValue, RespGrammar

\* Replies, among them a bulk that looks like protocol and the empty one, and
\* the headers of arrays whose elements are whatever follows.
Replies == {SimpleString(<<"x">>), ErrorReply(<<"-", "1">>), IntegerReply(-12),
            BulkReply(<<>>), BulkReply(<<"CR", "LF", "$">>), NilBulk, NilArray,
            ArrayHeader(0), ArrayHeader(1), ArrayHeader(2)}

Nesting == {ArrayHeader(0), ArrayHeader(1), ArrayHeader(2), IntegerReply(7)}

\* One malformed message for each place where parseChunk gives up.
Errors == {Malformed(b) : b \in {
    <<"x">>, <<"+", "LF">>, <<"+", "x", "CR", "HI">>, <<"-", "x", "LF">>, <<"-", "CR", "CR">>,
    <<":", "CR">>, <<":", "x">>, <<":", "-", "x">>, <<":", "1", "+">>, <<":", "1", "CR", "1">>,
    <<"$", "CR">>, <<"$", "+">>, <<"$", "1", "CR", "x">>, <<"$", "-", "2", "CR", "LF">>,
    <<"$", "1", "CR", "LF", "x", "x">>, <<"$", "0", "CR", "LF", "CR", "x">>,
    <<"*", "CR">>, <<"*", "x">>, <<"*", "1", "CR", "x">>, <<"*", "-", "2", "CR", "LF">>}}

Commands == {Command(<<<<"x">>>>), Command(<<<<"x", "1">>, <<>>, <<"CR", "LF">>>>),
             Command(<<[i \in 1 .. 11 |-> "LF"], <<"NUL">>>>), Command(<<CString(<<"x", "NUL", "x">>)>>)}

\* Pushes whose names and payloads are words too, and replies a subscriber should not get.
Pushes == {PMessage(<<"x">>, <<Word.message>>, <<Word.subscribe>>),
           PMessage(<<Word.message>>, <<>>, <<"NUL">>),
           MessageOf(<<Word.pmessage>>, <<"CR", "LF", Word.message>>),
           MessageOf(<<Word.subscribe>>, <<>>),
           Confirmation("subscribe", <<Word.message>>, 1),
           Confirmation("punsubscribe", <<"x">>, 0)}
NoPushes == {<<ErrorReply(<<"x">>)>>, Push(<<SimpleString(<<"x">>), NilBulk>>),
             Push(<<SimpleString(<<"x">>), NilArray, IntegerReply(10)>>),
             <<ArrayHeader(3), ArrayHeader(1), ErrorReply(<<"x">>), NilBulk, IntegerReply(10)>>}

AnyTwo     == {<<a, b>> : a, b \in Replies} \cup {<<a, b, d>> : a \in Replies, b, d \in Nesting}
Nested     == {<<ArrayHeader(2), a, b, d, e>> : a, b, d, e \in Nesting}
Broken     == {<<a, b>> : a \in Replies, b \in Errors}
RoundTrip  == {<<a, b>> : a, b \in Commands}
Subscribed == {a \o b : a \in Pushes, b \in Pushes \cup NoPushes}
AllConversations == Subscribed \cup AnyTwo \cup Nested \cup Broken \cup RoundTrip

\* What the proofs ask of conversations (WellSpoken and PlainLines) holds of these, if the
\* commands are taken for what they are to a parser: a header and as many bulk strings.
Pieces(m) == [i \in DOMAIN m.parts |-> IF i = 1 THEN ArrayHeader(Len(m.parts) - 1) ELSE BulkReply(m.parts[i].data)]

ASSUME MCMessages ==
    /\ \A conv \in AllConversations \ RoundTrip : \A i \in DOMAIN conv : 
           conv[i] \in MessageType /\ IsMessage(conv[i]) /\ Undisputed(conv[i])
    /\ \A m \in Commands : /\ m.bytes = BytesOf(Pieces(m)) /\ m.parts = PartsOf(Pieces(m))
                           /\ \A i \in DOMAIN m.parts : IsMessage(Pieces(m)[i]) /\ Undisputed(Pieces(m)[i])
=============================================================================
