----------------------------- MODULE RespParser -----------------------------
(***************************************************************************)
(* RedisParser: parse() is given the bytes of a connection in chunks cut   *)
(* anywhere, returns Completed at the end of each value, Incompleted at    *)
(* the end of a chunk and Error at the first byte that cannot be.          *)
(*                                                                         *)
(* One step is one turn of parseChunk's loop.  Between calls the parser    *)
(* has only its members; `state` is parseChunk's local variable.           *)
(***************************************************************************)
EXTENDS RespWire

CONSTANTS
    Conversations,  \* what the server may send: sequences of messages
    MaxLong         \* bound: the greatest value of a long

ASSUME ParserAssumption ==
    /\ \A conv \in Conversations : BytesOf(conv) \in Seq(Byte)
    /\ MaxLong \in Nat

VARIABLES
    states, bulkSize, buf, redisValue, arraySizes, arrayValues,  \* members
    state,     \* local to parseChunk: "none" between calls, "Close" in the inner loop
    sent,      \* the messages of this connection
    position,  \* how many of their bytes have been read
    size,      \* where the chunk that parse was given ends
    outcome,   \* what parse returned last
    results    \* history: the values that were completed

memberVars == <<states, bulkSize, buf, redisValue, arraySizes, arrayValues>>
vars == <<memberVars, state, sent, position, size, outcome, results>>

InLine   == {"String", "ErrorString", "Integer", "BulkSize", "ArraySize"}
Numeric  == {"Integer", "BulkSize", "ArraySize"}
LineFeed == [String |-> "StringLF", ErrorString |-> "ErrorLF", Integer |-> "IntegerLF",
             BulkSize |-> "BulkSizeLF", ArraySize |-> "ArraySizeLF"]
State    == {"Start", "StartArray", "Bulk", "BulkCR", "BulkLF"} \cup InLine
                \cup {LineFeed[s] : s \in InLine}
Open     == [count : Nat, parts : Seq(Part)]   \* an array with the elements it has so far

stream == BytesOf(sent)

\* Digits that overflow a long are undefined behaviour in the code; no conversation has
\* them.
Long == -MaxLong .. MaxLong

\* Every variable keeps its type; in particular an array is on the stack only as long
\* as elements of it are missing, which the count down to zero in parseChunk rests on.
TypeOK ==
    /\ states \in Seq(State) /\ state \in State \cup {"none", "Close"}
    /\ bulkSize \in Int /\ buf \in Seq(Byte) /\ redisValue \in Seq(Part)
    /\ arraySizes \in Seq(Nat \ {0}) /\ arrayValues \in Seq(Open)
    /\ stream \in Seq(Byte) /\ position \in Nat /\ size \in Nat
    /\ outcome \in {"none", "Completed", "Incompleted", "Error"}
    /\ results \in Seq(Seq(Part))

Init ==
    /\ states = <<>> /\ bulkSize = 0 /\ buf = <<>> /\ redisValue = <<Nil>>
    /\ arraySizes = <<>> /\ arrayValues = <<>>
    /\ state = "none" /\ sent \in Conversations /\ position = 0 /\ size = 0
    /\ outcome = "none" /\ results = <<>>

-----------------------------------------------------------------------------
(* The call and its returns.                                               *)

\* The next call continues with the rest of a chunk that ended a value early, or
\* with the next chunk.  After an error asyncRead does not call again.
Parse ==
    /\ state = "none" /\ outcome # "Error" /\ position < Len(stream)
    /\ size' \in IF position < size THEN {size} ELSE position + 1 .. Len(stream)
    /\ IF states = <<>> THEN state' = "Start" /\ UNCHANGED states
                        ELSE state' = Last(states) /\ states' = Front(states)
    /\ UNCHANGED <<bulkSize, buf, redisValue, arraySizes, arrayValues, sent, position,
                   outcome, results>>

IncompletedStart ==
    /\ state \in State /\ position = size
    /\ states' = <<>> /\ state' = "none" /\ outcome' = "Incompleted"
    /\ UNCHANGED <<bulkSize, buf, redisValue, arraySizes, arrayValues, sent, position, size,
                   results>>

Incompleted ==
    /\ state \in State /\ position = size
    /\ states' = Append(states, state) /\ state' = "none" /\ outcome' = "Incompleted"
    /\ UNCHANGED <<bulkSize, buf, redisValue, arraySizes, arrayValues, sent, position, size,
                   results>>

-----------------------------------------------------------------------------
(* One byte.  Each case of the switch says where it goes and what becomes  *)
(* of buf, bulkSize and position.                                          *)

Reading(s) == state = s /\ position < size
c          == stream[position + 1]
Skip       == position' = position + 1

InState(s)  == state' = s /\ UNCHANGED <<states, redisValue, arraySizes, arrayValues, outcome>>
Fail        == /\ state' = "none" /\ outcome' = "Error" /\ states' = <<>>
               /\ UNCHANGED <<redisValue, arraySizes, arrayValues>>
Finished(v) == /\ state' = "Close" /\ redisValue' = v
               /\ UNCHANGED <<states, arraySizes, arrayValues, outcome>>

FirstByte == {"+", "-", ":", "$", "*"}
AfterFirst(b) == CASE b = "+" -> "String"    [] b = "-" -> "ErrorString"
                   [] b = ":" -> "Integer"   [] b = "$" -> "BulkSize"
                   [] b = "*" -> "ArraySize"

ReadStart ==
    /\ Reading("Start") \/ Reading("StartArray")
    /\ buf' = <<>> /\ Skip
    /\ IF c \in FirstByte THEN InState(AfterFirst(c)) ELSE Fail
    /\ bulkSize' = IF c = "$" THEN 0 ELSE bulkSize

\* isChar and not isControl, or a digit or a minus
AnyChar(s) == IF s \in Numeric THEN Digit \cup {"-"} ELSE Byte \ {"HI"}
Allowed(s) == IF s \in Numeric THEN Digit \cup {"-"}
              ELSE Byte \ {"CR", "LF", "NUL", "HI"}

ReadLine(s) ==
    /\ Reading(s) /\ Skip /\ UNCHANGED bulkSize
    /\ LET ends == c = "CR" /\ (s \in Numeric => buf # <<>>)
       IN  \/ ends /\ InState(LineFeed[s]) /\ UNCHANGED buf
           \/ ~ends /\ c \in Allowed(s) /\ InState(s) /\ buf' = Append(buf, c)
           \/ ~ends /\ c \notin Allowed(s) /\ Fail /\ UNCHANGED buf

\* bufToLong: a minus anywhere but in front counts as the digit '-' - '0'.
DigitValue(b) == IF b = "-" THEN -3 ELSE CHOOSE d \in 0 .. 9 : Digits[d + 1] = b
BufToLong(s) ==
    LET minus  == s # <<>> /\ Head(s) = "-"
        digits == IF minus THEN Tail(s) ELSE s
        value  == FoldLeft(LAMBDA v, b : 10 * v + DigitValue(b), 0, digits)
    IN  IF minus THEN -value ELSE value

\* The end of a line that is expected; a long where the line is a number.
ReadLF(s) == Reading(s) /\ c = "LF"

ReadStringLF == ReadLF("StringLF") /\ Skip /\ Finished(<<Str(buf)>>) /\ UNCHANGED <<bulkSize, buf>>
ReadErrorLF  == ReadLF("ErrorLF")  /\ Skip /\ Finished(<<Err(buf)>>) /\ UNCHANGED <<bulkSize, buf>>
ReadIntegerLF ==
    /\ ReadLF("IntegerLF") /\ BufToLong(buf) \in Long
    /\ Skip /\ Finished(<<Num(BufToLong(buf))>>) /\ buf' = <<>> /\ UNCHANGED bulkSize

\* The bytes of a bulk that the chunk has after position p.
Available(p, wanted) == IF size - p < wanted THEN size - p ELSE wanted

\* Does the bulk go on when `left` of its bytes are still to come?
AfterBulkLate(left) == IF left >= 0 THEN "Bulk" ELSE "BulkCR"
AfterBulk(left)     == IF left > 0 THEN "Bulk" ELSE "BulkCR"

BulkOfSize(n) ==
    \/ n = -1 /\ Skip /\ buf' = <<>> /\ bulkSize' = n /\ Finished(<<Nil>>)
    \/ n < -1 /\ Skip /\ buf' = <<>> /\ bulkSize' = n /\ Fail
    \/ /\ n >= 0
       /\ LET canRead == Available(position + 1, n)
          IN  /\ position' = position + 1 + canRead
              /\ buf' = SubSeq(stream, position + 2, position + 1 + canRead)
              /\ bulkSize' = n - canRead
              /\ InState(AfterBulk(n - canRead))

ReadBulkSizeLF ==
    /\ ReadLF("BulkSizeLF") /\ BufToLong(buf) \in Long
    /\ BulkOfSize(BufToLong(buf))

ReadBulk ==
    LET canRead == Available(position, bulkSize)
    IN  /\ Reading("Bulk")
        /\ position' = position + canRead
        /\ buf' = buf \o SubSeq(stream, position + 1, position + canRead)
        /\ bulkSize' = bulkSize - canRead
        /\ InState(AfterBulk(bulkSize - canRead))

ReadBulkCR == /\ Reading("BulkCR") /\ c = "CR" /\ Skip
              /\ InState("BulkLF") /\ UNCHANGED <<bulkSize, buf>>
ReadBulkLF == ReadLF("BulkLF") /\ Skip /\ Finished(<<Str(buf)>>) /\ UNCHANGED <<bulkSize, buf>>

NeverEmpty(n) == FALSE
Empty(n)      == n = 0

ArrayOfSize(n) ==
    \/ n = -1 /\ Finished(<<Nil>>)
    \/ n < -1 /\ Fail
    \/ Empty(n) /\ Finished(<<Arr(0)>>)
    \/ /\ n >= 0 /\ ~Empty(n)
       /\ arraySizes' = Append(arraySizes, n)
       /\ arrayValues' = Append(arrayValues, [count |-> 0, parts |-> <<>>])
       /\ state' = "StartArray" /\ UNCHANGED <<states, redisValue, outcome>>

ReadArraySizeLF ==
    /\ ReadLF("ArraySizeLF") /\ BufToLong(buf) \in Long
    /\ Skip /\ UNCHANGED <<bulkSize, buf>>
    /\ ArrayOfSize(BufToLong(buf))

\* Where one byte only will do, any other is an error.
Expected(s) == IF s = "BulkCR" THEN "CR" ELSE "LF"
ReadOther ==
    /\ \E s \in {"BulkCR", "BulkLF"} \cup {LineFeed[l] : l \in InLine} :
          Reading(s) /\ c # Expected(s)
    /\ Skip /\ Fail /\ UNCHANGED <<bulkSize, buf>>

ReadByte ==
    /\ \/ ReadStart \/ (\E s \in InLine : ReadLine(s))
       \/ ReadStringLF \/ ReadErrorLF \/ ReadIntegerLF
       \/ ReadBulkSizeLF \/ ReadBulk \/ ReadBulkCR \/ ReadBulkLF
       \/ ReadArraySizeLF \/ ReadOther
    /\ UNCHANGED <<sent, size, results>>

-----------------------------------------------------------------------------
(* A value has ended.  It is an element of the innermost open array, which *)
(* may end with it; outside of all arrays it is a result.                  *)

Completed ==
    /\ state = "Close" /\ arraySizes = <<>>
    /\ state' = "none" /\ outcome' = "Completed" /\ results' = Append(results, redisValue)
    /\ UNCHANGED <<memberVars, sent, position, size>>

PastElement == Last(arraySizes) = 0
LastElement == Last(arraySizes) = 1

CloseElement ==
    LET top  == Last(arrayValues)
        more == [count |-> top.count + 1, parts |-> top.parts \o redisValue]
    IN  /\ state = "Close" /\ arraySizes # <<>>
        /\ IF LastElement
           THEN /\ arraySizes' = Front(arraySizes) /\ arrayValues' = Front(arrayValues)
                /\ redisValue' = <<Arr(more.count)>> \o more.parts
                /\ UNCHANGED state
           ELSE /\ arraySizes' = Append(Front(arraySizes), Last(arraySizes) - 1)
                /\ arrayValues' = Append(Front(arrayValues), more)
                /\ state' = "Start" /\ UNCHANGED redisValue
        /\ UNCHANGED <<states, bulkSize, buf, sent, position, size, outcome, results>>

Next == Parse \/ ReadByte \/ CloseElement \/ Completed \/ Incompleted

Spec == Init /\ [][Next]_vars
-----------------------------------------------------------------------------
(* Properties.                                                             *)

\* The two stacks grow and shrink together (arrayValues.top() is looked at when
\* arraySizes is not empty), a bulk that is being read has bytes to come (the
\* assertion at redisparser.cpp:206), at most one state is kept between calls, and
\* the parser stays within the chunk it was given.
Current == IF state # "none" THEN state ELSE IF states # <<>> THEN Last(states) ELSE "Start"
MembersAgree ==
    /\ Len(arraySizes) = Len(arrayValues)
    /\ Current = "Bulk" => bulkSize > 0
    /\ Len(states) <= 1 /\ (state # "none" => states = <<>>)
    /\ position <= size /\ size <= Len(stream)

\* The messages that have been read to their end.
EndOf(i)  == Len(BytesOf(SubSeq(sent, 1, i)))
ReadSoFar == CHOOSE k \in 0 .. Len(sent) :
                EndOf(k) <= position /\ (k < Len(sent) => position < EndOf(k + 1))

\* However the bytes are cut, parse returns the values that were sent, whole and in order.
RepliesFaithful ==
    /\ \A i \in DOMAIN results : OneValue(results[i])
    /\ IsPrefix(FlattenSeq(results), PartsOf(sent))

\* A value is returned by the call that reads its last byte: what has been read and not
\* returned is less than a value, so that no reader waits for bytes that will not come.
RepliesPrompt ==
    LET parts == PartsOf(SubSeq(sent, 1, ReadSoFar))
    IN  state = "none" =>
           PartOfValue(SubSeq(parts, Len(FlattenSeq(results)) + 1, Len(parts)))

\* Error is returned at the byte with which a message stops being RESP, as the messages say
\* that do (RespGrammar, with the bytes excepted that parseChunk judges otherwise), and
\* never else: asyncRead gives the connection up for it.
ErrorsFound == outcome = "Error" <=> \E i \in 1 .. ReadSoFar : sent[i].bad
=============================================================================
