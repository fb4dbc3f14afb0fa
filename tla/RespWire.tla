------------------------------ MODULE RespWire ------------------------------
(***************************************************************************)
(* Bytes and values of the Redis protocol: what the client writes          *)
(* (makeCommand), what a server answers, and the values both stand for.    *)
(*                                                                         *)
(* A RedisValue is kept as the sequence of its parts, each array in front  *)
(* of its elements and labelled with their number.  That sequence          *)
(* determines the tree, and only some sequences are a tree (OneValue).     *)
(***************************************************************************)
EXTENDS Integers, SequencesExt

\* The bytes that the parser tells apart; "x" is any other printable one, "NUL" a
\* control character and "HI" one outside ASCII, negative as a char.
Digits == <<"0", "1", "2", "3", "4", "5", "6", "7", "8", "9">>
Digit  == {Digits[i] : i \in 1 .. 10}
Byte   == Digit \cup {"+", "-", ":", "$", "*", "x", "CR", "LF", "NUL", "HI"}
CRLF   == <<"CR", "LF">>

\* Parts of values.
Part    == [kind : {"nil", "string", "error", "int", "array"}, data : Seq(Byte), n : Int]
Nil     == [kind |-> "nil",    data |-> <<>>, n |-> 0]
Str(b)  == [kind |-> "string", data |-> b,    n |-> 0]
Err(b)  == [kind |-> "error",  data |-> b,    n |-> 0]
Num(i)  == [kind |-> "int",    data |-> <<>>, n |-> i]
Arr(n)  == [kind |-> "array",  data |-> <<>>, n |-> n]

\* How many more values the first k of the parts ps need until they are one value.
Members(p)  == IF p.kind = "array" THEN p.n ELSE 0
Missing(ps) ==
    LET after[k \in 0 .. Len(ps)] == IF k = 0 THEN 1 ELSE after[k - 1] - 1 + Members(ps[k])
    IN  after

PartOfValue(ps) == \A k \in 0 .. Len(ps) : Missing(ps)[k] > 0
OneValue(ps)    == /\ ps # <<>> /\ Missing(ps)[Len(ps)] = 0
                   /\ \A k \in 0 .. Len(ps) - 1 : Missing(ps)[k] > 0

\* std::to_string
Decimal(i) ==
    LET of[k \in Nat] == IF k < 10 THEN <<Digits[k + 1]>>
                         ELSE Append(of[k \div 10], Digits[(k % 10) + 1])
    IN  IF i < 0 THEN <<"-">> \o of[-i] ELSE of[i]

\* An argument of a command (RedisBuffer) is bytes of any value; the argument that is made
\* of a const char * ends before the first NUL.
CString(bytes) ==
    LET before == {k \in 0 .. Len(bytes) : \A i \in 1 .. k : bytes[i] # "NUL"}
    IN  SubSeq(bytes, 1, Max(before))

\* A command on the wire: an array of bulk strings.
MakeBulk(item) == <<"$">> \o Decimal(Len(item)) \o CRLF \o item \o CRLF

MakeCommand(items) ==
    <<"*">> \o Decimal(Len(items)) \o CRLF
        \o FlattenSeq([i \in DOMAIN items |-> MakeBulk(items[i])])

-----------------------------------------------------------------------------
(* Messages: bytes and the parts they stand for.  The last byte of a       *)
(* malformed one is the first that no reply can have there.                *)

Message(bytes, parts) == [bytes |-> bytes, parts |-> parts, bad |-> FALSE]
Malformed(bytes)      == [bytes |-> bytes, parts |-> <<>>, bad |-> TRUE]

Command(items) == Message(MakeCommand(items),
                          <<Arr(Len(items))>> \o [i \in DOMAIN items |-> Str(items[i])])

SimpleString(b) == Message(<<"+">> \o b \o CRLF, <<Str(b)>>)
ErrorReply(b)   == Message(<<"-">> \o b \o CRLF, <<Err(b)>>)
IntegerReply(i) == Message(<<":">> \o Decimal(i) \o CRLF, <<Num(i)>>)
BulkReply(b)    == Message(MakeBulk(b), <<Str(b)>>)
NilBulk         == Message(<<"$", "-", "1">> \o CRLF, <<Nil>>)
NilArray        == Message(<<"*", "-", "1">> \o CRLF, <<Nil>>)
ArrayHeader(n)  == Message(<<"*">> \o Decimal(n) \o CRLF, <<Arr(n)>>)

BytesOf(ms) == FlattenSeq([i \in DOMAIN ms |-> ms[i].bytes])
PartsOf(ms) == FlattenSeq([i \in DOMAIN ms |-> ms[i].parts])
=============================================================================
