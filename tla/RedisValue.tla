----------------------------- MODULE RedisValue -----------------------------
(***************************************************************************)
(* What a program asks of the values that the parser returns (RedisValue), *)
(* and what the client makes of one while it is subscribed                 *)
(* (doProcessMessage): both on the values that the bytes of a connection   *)
(* were parsed to.                                                         *)
(***************************************************************************)
EXTENDS RespParser

\* The type and the error flag; an error has the type of a string.
IsError(v)     == Head(v).kind = "error"
IsNull(v)      == Head(v).kind = "nil"
IsInt(v)       == Head(v).kind = "int"
IsByteArray(v) == Head(v).kind \in {"string", "error"}
IsArray(v)     == Head(v).kind = "array"

\* The parts of an array after its head, cut into its elements.
Elements(parts) ==
    FoldLeft(LAMBDA es, p : LET open == Append(es.open, p)
                            IN  IF OneValue(open)
                                THEN [done |-> Append(es.done, open), open |-> <<>>]
                                ELSE [es EXCEPT !.open = open],
             [done |-> <<>>, open |-> <<>>], parts).done

\* castTo: a value of another type gives the default of the type asked for.
ToByteArray(v) == IF IsByteArray(v) THEN Head(v).data ELSE <<>>
ToInt(v)       == IF IsInt(v) THEN Head(v).n ELSE 0
ToArray(v)     == IF IsArray(v) THEN Elements(Tail(v)) ELSE <<>>

\* inspect().  Every element is followed by a comma and a space, of which the last space is
\* cut off and the last comma replaced.
ClosedLate(text) == [text EXCEPT ![Len(text)] = "]"]
Closed(text)     == LET cut == Front(text) IN [cut EXCEPT ![Len(cut)] = "]"]

Inspect(v) ==
    LET of[u \in Seq(Part)] ==
            CASE IsError(u) -> <<"error: ">> \o ToByteArray(u)
              [] IsNull(u)  -> <<"(null)">>
              [] IsInt(u)   -> Decimal(ToInt(u))
              [] ~IsError(u) /\ IsByteArray(u) -> ToByteArray(u)
              [] IsArray(u) ->
                    LET values == ToArray(u)
                        listed == [i \in DOMAIN values |-> of[values[i]] \o <<",", " ">>]
                    IN  IF values = <<>> THEN <<"[", "]">>
                        ELSE Closed(<<"[">> \o FlattenSeq(listed))
    IN  of[v]

-----------------------------------------------------------------------------
(* doProcessMessage in state Subscribed.  A word of the protocol is one    *)
(* byte here.                                                              *)

Word == [message |-> "0", pmessage |-> "1", subscribe |-> "2", unsubscribe |-> "3",
         psubscribe |-> "4", punsubscribe |-> "5"]
Is(words, bytes) == \E w \in words : bytes = <<Word[w]>>

Confirmations == {"subscribe", "unsubscribe", "psubscribe", "punsubscribe"}

ValueAtThird(n) == 3
ValueAt(n)      == IF n = 3 THEN 3 ELSE 4
QueueNameAt(n)  == IF n = 3 THEN 2 ELSE 3
PatternAt(n)    == IF n = 4 THEN 2 ELSE QueueNameAt(n)

\* What becomes of a value: it is given to the handlers of a channel or pattern, is the
\* reply to a subscription (if one is waited for), or is reported.
ToHandlers(pattern, value) == [to |-> "handlers", pattern |-> pattern, value |-> value]
To(whom)                   == [to |-> whom, pattern |-> <<>>, value |-> <<>>]

Recognised(v) ==
    LET result == ToArray(v)
        n      == Len(result)
        cmd    == ToByteArray(result[1])
    IN  CASE n < 3 -> To("protocol error")
          [] n >= 3 /\ Is({"message", "pmessage"}, cmd) ->
                ToHandlers(ToByteArray(result[PatternAt(n)]), ToByteArray(result[ValueAt(n)]))
          [] n >= 3 /\ Is(Confirmations, cmd) -> To("reply")
          [] n >= 3 /\ ~Is({"message", "pmessage"} \cup Confirmations, cmd) ->
                To("invalid command")

-----------------------------------------------------------------------------
(* What a Redis server sends to a connection that is subscribed.           *)

Push(items)               == <<ArrayHeader(Len(items))>> \o items
PMessage(pattern, ch, b)  == Push(<<BulkReply(<<Word.pmessage>>), BulkReply(pattern), BulkReply(ch),
                                    BulkReply(b)>>)
MessageOf(ch, b)          == Push(<<BulkReply(<<Word.message>>), BulkReply(ch), BulkReply(b)>>)
Confirmation(word, ch, n) == Push(<<BulkReply(<<Word[word]>>), BulkReply(ch), IntegerReply(n)>>)

-----------------------------------------------------------------------------
(* Properties.                                                             *)

\* The text of a value, part by part: an array opens before its elements and is closed after
\* the last of them, and what follows a whole element is set off by a comma.
PartText(p) == CASE p.kind = "nil"    -> <<"(null)">>
                 [] p.kind = "error"  -> <<"error: ">> \o p.data
                 [] p.kind = "string" -> p.data
                 [] p.kind = "int"    -> Decimal(p.n)
                 [] p.kind = "array"  -> <<"[">>

ArraysEndingAt(v, i) == {j \in 1 .. i : v[j].kind = "array" /\ OneValue(SubSeq(v, j, i))}
TextOf(v) ==
    FlattenSeq([i \in DOMAIN v |->
        PartText(v[i])
            \o [k \in 1 .. Cardinality(ArraysEndingAt(v, i)) |-> "]"]
            \o IF i = Len(v) \/ (v[i].kind = "array" /\ v[i].n > 0) THEN <<>> ELSE <<",", " ">>])

\* inspect() of whatever the parser returned, which the client reports as an unexpected
\* message, writes all of it, however deep arrays lie and wherever the bytes were cut.
InspectFaithful == \A i \in DOMAIN results : Inspect(results[i]) = TextOf(results[i])

\* A message for a channel (of three elements) and one for a pattern (of four) are given, each
\* with its own payload, to the handlers of that channel or pattern, also where names and
\* payloads are words of the protocol; the confirmation of a subscription is taken for the
\* reply to a request, and nothing else is, although doProcessMessage looks at no more than
\* the length and the first element.
PushesRecognised ==
    \A i \in DOMAIN results :
        LET v     == results[i]
            texts == [k \in 2 .. Len(v) |-> v[k].data]
        IN  /\ v[1] = Arr(3) /\ Len(v) = 4 /\ v[2] = Str(<<Word.message>>)
                 => Recognised(v) = ToHandlers(texts[3], texts[4])
            /\ v[1] = Arr(4) /\ Len(v) = 5 /\ v[2] = Str(<<Word.pmessage>>)
                 => Recognised(v) = ToHandlers(texts[3], texts[5])
            /\ Recognised(v).to = "reply"
                 <=> /\ v[1] = Arr(3) /\ Len(v) = 4 /\ v[4].kind = "int"
                     /\ Is(Confirmations, texts[2])
=============================================================================
