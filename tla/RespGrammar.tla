---------------------------- MODULE RespGrammar ----------------------------
(***************************************************************************)
(* RESP, the language that RedisParser reads: which bytes are one message  *)
(* of a server and what they stand for, and which are the shortest that no *)
(* message begins with.  Nothing here has the parser's states or its tests *)
(* of characters: a message is described as a whole, by where its first    *)
(* line ends.                                                              *)
(***************************************************************************)
EXTENDS RespParser

Types    == {"+", "-", ":", "$", "*"}
Numbers  == {":", "$", "*"}   \* the types whose first line is a number
\* What a first line of type t may have as the i-th byte of the message: a text anything
\* but the bytes that end a line; a number digits, and a sign in front of them.
Sign(t)        == IF t = ":" THEN {"-", "+"} ELSE {"-"}
LineByte(t, i) == IF t \notin Numbers THEN Byte \ {"CR", "LF"}
                  ELSE IF i = 2 THEN Digit \cup Sign(t) ELSE Digit

\* The message m has n bytes and stands for one part, or nothing can begin with them.
Means(m, n, part) == ~m.bad /\ Len(m.bytes) = n /\ m.parts = <<part>>
Breaks(m, n)      == m.bad /\ Len(m.bytes) = n /\ m.parts = <<>>

\* The first e bytes of m are its type and its first line without the end.
Begins(m, e) == /\ m.bytes[1] \in Types
                /\ \A i \in 2 .. e : m.bytes[i] \in LineByte(m.bytes[1], i)
Text(m, e)   == SubSeq(m.bytes, 2, e)
MayEnd(m, e) == m.bytes[1] \in Numbers => m.bytes[e] \in Digit

\* The n bytes of a bulk string after a first line of e, and their end.
Bulk(m, e, n) ==
    /\ Len(m.bytes) >= e + n + 3
    /\ \/ Breaks(m, e + n + 3) /\ m.bytes[e + n + 3] # "CR"
       \/ /\ m.bytes[e + n + 3] = "CR"
          /\ \/ Breaks(m, e + n + 4) /\ m.bytes[e + n + 4] # "LF"
             \/ /\ Means(m, e + n + 4, Str(SubSeq(m.bytes, e + 3, e + n + 2)))
                /\ m.bytes[e + n + 4] = "LF"

\* What a first line of e bytes and its end stand for, or announce.
Announces(m, e) ==
    LET type == m.bytes[1]
        n    == BufToLong(IF e > 1 /\ m.bytes[2] = "+" THEN SubSeq(m.bytes, 3, e) ELSE Text(m, e))
    IN  /\ type = "+" => Means(m, e + 2, Str(Text(m, e)))
        /\ type = "-" => Means(m, e + 2, Err(Text(m, e)))
        /\ type = ":" => Means(m, e + 2, Num(n))
        /\ type \in {"$", "*"} => /\ n < -1 => Breaks(m, e + 2)
                                  /\ n = -1 => Means(m, e + 2, Nil)
        /\ type = "*" /\ n >= 0 => Means(m, e + 2, Arr(n))
        /\ type = "$" /\ n >= 0 => Bulk(m, e, n)

\* After e bytes of the first line comes one that the line cannot have, or its end.  A
\* number that is out of range is malformed with the end of its line.
GoesOn(m, e) ==
    \/ /\ Breaks(m, e + 1) /\ m.bytes[e + 1] \notin LineByte(m.bytes[1], e + 1)
       /\ MayEnd(m, e) => m.bytes[e + 1] # "CR"
    \/ /\ MayEnd(m, e) /\ m.bytes[e + 1] = "CR" /\ Len(m.bytes) >= e + 2
       /\ \/ Breaks(m, e + 2) /\ m.bytes[e + 2] # "LF"
          \/ m.bytes[e + 2] = "LF" /\ Announces(m, e)

MessageType  == [bytes : Seq(Byte), parts : Seq(Part), bad : BOOLEAN]
IsMessage(m) ==
    \/ Breaks(m, 1) /\ m.bytes[1] \notin Types
    \/ \E e \in 1 .. Len(m.bytes) - 1 : Begins(m, e) /\ GoesOn(m, e)

\* The server sends such messages and nothing else.
WellSpoken ==
    \A conv \in Conversations :
        conv \in Seq(MessageType) /\ \A i \in DOMAIN conv : IsMessage(conv[i])

-----------------------------------------------------------------------------
(* Where the parser and RESP part.  In a text the parser refuses control   *)
(* characters and what is not ASCII; in a number it takes a minus anywhere *)
(* and alone, and refuses a plus.                                          *)

Disputed(m, e) ==
    LET next == m.bytes[e + 1]
    IN  IF m.bytes[1] \notin Numbers THEN next \in {"NUL", "HI"}
        ELSE \/ e = 1 /\ next = "+" /\ m.bytes[1] = ":"
             \/ e > 1 /\ next = "-"
             \/ e > 1 /\ next = "CR" /\ m.bytes[e] = "-"

Undisputed(m) == \A e \in 1 .. Len(m.bytes) - 1 : Begins(m, e) => ~Disputed(m, e)

\* The server sends nothing of that.
PlainLines == \A conv \in Conversations : \A i \in DOMAIN conv : Undisputed(conv[i])
=============================================================================
