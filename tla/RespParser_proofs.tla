-------------------------- MODULE RespParser_proofs --------------------------
(***************************************************************************)
(* The parser keeps its members consistent whatever bytes it is given and  *)
(* however they are cut: its stacks agree, it never looks at the top of an *)
(* empty one, and it never reads past its chunk.  In a conversation of     *)
(* well-formed messages it returns the values that were sent, each by the  *)
(* call that reads its last byte, and an error at the first byte that no   *)
(* message has there: the invariant says which messages have been read,    *)
(* and what the members hold of the one that has not.                      *)
(***************************************************************************)
EXTENDS RespGrammar, SeqLemmas

\* The first part, the last element and the rest of a sequence.
LEMMA FrontLast ==
    ASSUME NEW S, NEW s \in Seq(S), s # <<>>
    PROVE  /\ Front(s) \in Seq(S) /\ Len(Front(s)) = Len(s) - 1
           /\ Last(s) \in S /\ Len(s) \in Nat \ {0}
<1>1. Len(s) \in Nat \ {0}
  BY EmptySeq, LenProperties
<1>2. Len(s) - 1 \in 0 .. Len(s) /\ Len(s) \in 1 .. Len(s)
  BY <1>1
<1> QED BY <1>1, <1>2, PrefixProperties, ElementOfSeq DEF Front, Last

\* A piece of the stream is made of bytes, and has as many as asked for.
LEMMA Piece ==
    ASSUME NEW s \in Seq(Byte), NEW i \in Nat \ {0}, NEW j \in Nat, j <= Len(s)
    PROVE  SubSeq(s, i, j) \in Seq(Byte)
<1>1. Len(s) \in Nat
  BY LenProperties
<1>2. CASE i <= j
  <2>1. \A k \in i .. j : s[k] \in Byte
    BY <1>1, ElementOfSeq
  <2> QED BY <1>1, <1>2, <2>1, SubSeqProperties
<1>3. CASE j < i
  <2>1. SubSeq(s, i, j) = <<>>
    BY <1>1, <1>3, SubSeqEmpty
  <2> QED BY <2>1, EmptySeq
<1> QED BY <1>1, <1>2, <1>3

\* TypeOK and MembersAgree hold together or not at all: stream[position + 1] is a byte
\* because the parser stays within the chunk.
ParserInv == TypeOK /\ MembersAgree

LEMMA StreamType ==
    ASSUME ParserInv
    PROVE  /\ stream \in Seq(Byte) /\ Len(stream) \in Nat
           /\ position < size => c \in Byte
<1>1. stream \in Seq(Byte)
  BY DEF ParserInv, TypeOK
<1>2. Len(stream) \in Nat
  BY <1>1, LenProperties
<1>3. ASSUME position < size PROVE c \in Byte
  <2>1. position + 1 \in 1 .. Len(stream)
    BY <1>2, <1>3 DEF ParserInv, TypeOK, MembersAgree
  <2> QED BY <1>1, <2>1, ElementOfSeq DEF c
<1> QED BY <1>1, <1>2, <1>3

\* Parts of values have their type.
LEMMA PartTypes ==
    /\ Nil \in Part /\ Arr(0) \in Part
    /\ \A b \in Seq(Byte) : Str(b) \in Part /\ Err(b) \in Part
    /\ \A n \in Int : Num(n) \in Part /\ Arr(n) \in Part
BY EmptySeq DEF Nil, Str, Err, Num, Arr, Part

LEMMA OnePart == ASSUME NEW p \in Part PROVE <<p>> \in Seq(Part)
OBVIOUS

LEMMA ParserInit == Init => ParserInv
<1> SUFFICES ASSUME Init PROVE ParserInv
  OBVIOUS
<1>1. stream \in Seq(Byte) /\ Len(stream) \in Nat
  BY ParserAssumption, LenProperties DEF Init, stream
<1>2. <<Nil>> \in Seq(Part)
  BY PartTypes, OnePart
<1> QED BY <1>1, <1>2, EmptySeq DEF Init, ParserInv, TypeOK, MembersAgree, Current

-----------------------------------------------------------------------------
(* The three ways a turn of the loop goes on.                              *)

\* What every turn of the loop leaves alone, and where it may move to.
Turn == /\ state \in State /\ position < size
        /\ position' \in Nat /\ position' <= size
        /\ buf' \in Seq(Byte) /\ bulkSize' \in Int
        /\ UNCHANGED <<sent, size, results>>

LEMMA TurnGoesOn ==
    ASSUME ParserInv, Turn, NEW s \in State, InState(s), s = "Bulk" => bulkSize' > 0
    PROVE  ParserInv'
<1>1. stream' = stream
  BY DEF Turn, stream
<1>2. state # "none" /\ s # "none" /\ states = <<>> /\ Len(states) <= 1
  BY DEF Turn, State, InLine, LineFeed, ParserInv, MembersAgree
<1>3. TypeOK'
  BY <1>1 DEF Turn, InState, ParserInv, TypeOK
<1>4. MembersAgree'
  BY <1>1, <1>2 DEF Turn, InState, ParserInv, MembersAgree, Current
<1> QED BY <1>3, <1>4 DEF ParserInv

LEMMA TurnFails == ASSUME ParserInv, Turn, Fail PROVE ParserInv'
<1>1. stream' = stream /\ <<>> \in Seq(State) /\ Len(<<>>) = 0
  BY EmptySeq DEF Turn, stream
<1>2. TypeOK'
  BY <1>1 DEF Turn, Fail, ParserInv, TypeOK
<1>3. MembersAgree'
  BY <1>1 DEF Turn, Fail, ParserInv, MembersAgree, Current
<1> QED BY <1>2, <1>3 DEF ParserInv

LEMMA TurnFinishes ==
    ASSUME ParserInv, Turn, NEW v \in Seq(Part), Finished(v)
    PROVE  ParserInv'
<1>1. stream' = stream
  BY DEF Turn, stream
<1>2. state # "none" /\ states = <<>> /\ Len(states) <= 1
  BY DEF Turn, State, InLine, LineFeed, ParserInv, MembersAgree
<1>3. TypeOK'
  BY <1>1 DEF Turn, Finished, ParserInv, TypeOK
<1>4. MembersAgree'
  BY <1>1, <1>2 DEF Turn, Finished, ParserInv, MembersAgree, Current
<1> QED BY <1>3, <1>4 DEF ParserInv

\* A turn that reads one byte.
LEMMA OneByte ==
    ASSUME ParserInv, NEW s \in State, Reading(s), Skip, buf' \in Seq(Byte), bulkSize' \in Int,
           UNCHANGED <<sent, size, results>>
    PROVE  Turn
BY DEF ParserInv, TypeOK, Reading, Skip, Turn

-----------------------------------------------------------------------------
(* The cases of the switch.                                                *)

LEMMA StartStep ==
    ASSUME ParserInv, ReadStart, UNCHANGED <<sent, size, results>> PROVE ParserInv'
<1>1. buf' \in Seq(Byte) /\ bulkSize' \in Int
  BY EmptySeq DEF ReadStart, ParserInv, TypeOK
<1>2. Turn
  BY <1>1, OneByte DEF ReadStart, State
<1>3. CASE c \in FirstByte
  <2>1. AfterFirst(c) \in InLine /\ InState(AfterFirst(c))
    BY <1>3 DEF ReadStart, FirstByte, AfterFirst, InLine
  <2>2. AfterFirst(c) \in State /\ AfterFirst(c) # "Bulk"
    BY <2>1 DEF State, InLine
  <2> QED BY <1>2, <2>1, <2>2, TurnGoesOn
<1>4. CASE c \notin FirstByte
  BY <1>2, <1>4, TurnFails DEF ReadStart
<1> QED BY <1>3, <1>4

LEMMA LineStep ==
    ASSUME ParserInv, NEW s \in InLine, ReadLine(s), UNCHANGED <<sent, size, results>>
    PROVE  ParserInv'
<1>1. s \in State /\ LineFeed[s] \in State /\ s # "Bulk" /\ LineFeed[s] # "Bulk"
  BY DEF State, InLine, LineFeed
<1>2. c \in Byte
  BY StreamType DEF ReadLine, Reading
<1>3. buf' \in Seq(Byte) /\ bulkSize' \in Int
  <2>1. (buf' = buf \/ buf' = Append(buf, c)) /\ bulkSize' = bulkSize
    BY DEF ReadLine
  <2>2. buf \in Seq(Byte) /\ bulkSize \in Int
    BY DEF ParserInv, TypeOK
  <2> QED BY <1>2, <2>1, <2>2, AppendProperties
<1>4. Turn
  BY <1>1, <1>3, OneByte DEF ReadLine
<1>5. CASE InState(LineFeed[s])
  BY <1>1, <1>4, <1>5, TurnGoesOn
<1>6. CASE InState(s)
  BY <1>1, <1>4, <1>6, TurnGoesOn
<1>7. CASE Fail
  BY <1>4, <1>7, TurnFails
<1> QED BY <1>5, <1>6, <1>7 DEF ReadLine

LEMMA ValueStep ==
    ASSUME ParserInv, ReadStringLF \/ ReadErrorLF \/ ReadIntegerLF \/ ReadBulkLF,
           UNCHANGED <<sent, size, results>>
    PROVE  ParserInv'
<1>1. buf \in Seq(Byte) /\ <<>> \in Seq(Byte) /\ bulkSize \in Int
  BY EmptySeq DEF ParserInv, TypeOK
<1>2. \A s \in {"StringLF", "ErrorLF", "IntegerLF", "BulkLF"} : s \in State
  BY DEF State, InLine, LineFeed
<1>3. CASE ReadStringLF \/ ReadBulkLF
  <2>1. Turn
    BY <1>1, <1>2, <1>3, OneByte DEF ReadStringLF, ReadBulkLF, ReadLF
  <2> QED BY <1>1, <1>3, <2>1, PartTypes, OnePart, TurnFinishes DEF ReadStringLF, ReadBulkLF
<1>4. CASE ReadErrorLF
  <2>1. Turn
    BY <1>1, <1>2, <1>4, OneByte DEF ReadErrorLF, ReadLF
  <2> QED BY <1>1, <1>4, <2>1, PartTypes, OnePart, TurnFinishes DEF ReadErrorLF
<1>5. CASE ReadIntegerLF
  <2>1. Turn
    BY <1>1, <1>2, <1>5, OneByte DEF ReadIntegerLF, ReadLF
  <2>2. BufToLong(buf) \in Int
    BY <1>5 DEF ReadIntegerLF, Long
  <2> QED BY <1>5, <2>1, <2>2, PartTypes, OnePart, TurnFinishes DEF ReadIntegerLF
<1> QED BY <1>3, <1>4, <1>5

LEMMA BulkSizeStep ==
    ASSUME ParserInv, ReadBulkSizeLF, UNCHANGED <<sent, size, results>> PROVE ParserInv'
<1> DEFINE n == BufToLong(buf)
           canRead == Available(position + 1, n)
<1>1. n \in Int /\ state = "BulkSizeLF" /\ position < size /\ BulkOfSize(n)
  BY DEF ReadBulkSizeLF, ReadLF, Reading, Long
<1>2. "BulkSizeLF" \in State /\ "Bulk" \in State /\ "BulkCR" \in State /\ Reading("BulkSizeLF")
  BY <1>1 DEF State, InLine, LineFeed, Reading
<1> HIDE DEF n
<1>3. CASE n < 0
  <2>1. Skip /\ buf' \in Seq(Byte) /\ bulkSize' \in Int /\ (Fail \/ Finished(<<Nil>>))
    <3>1. \/ n = -1 /\ Skip /\ buf' = <<>> /\ bulkSize' = n /\ Finished(<<Nil>>)
          \/ n < -1 /\ Skip /\ buf' = <<>> /\ bulkSize' = n /\ Fail
      BY <1>1, <1>3 DEF BulkOfSize
    <3> QED BY <1>1, <3>1, EmptySeq
  <2>2. Turn
    BY <1>2, <2>1, OneByte
  <2> QED BY <2>1, <2>2, PartTypes, OnePart, TurnFails, TurnFinishes
<1>4. CASE n >= 0
  <2>1. position \in Nat /\ size \in Nat /\ size <= Len(stream)
    BY DEF ParserInv, TypeOK, MembersAgree
  <2>2. canRead \in Nat /\ canRead <= n /\ position + 1 + canRead <= size
    BY <1>1, <1>4, <2>1 DEF Available
  <2> HIDE DEF canRead
  <2>3. /\ position' = position + 1 + canRead
        /\ buf' = SubSeq(stream, position + 2, position + 1 + canRead)
        /\ bulkSize' = n - canRead /\ InState(AfterBulk(n - canRead))
    BY <1>1, <1>4 DEF BulkOfSize, canRead
  <2>4. buf' \in Seq(Byte)
    BY <2>1, <2>2, <2>3, StreamType, Piece
  <2>5. Turn
    BY <1>1, <1>2, <2>1, <2>2, <2>3, <2>4 DEF Turn
  <2>6. /\ AfterBulk(n - canRead) \in State
        /\ AfterBulk(n - canRead) = "Bulk" => bulkSize' > 0
    BY <1>1, <1>2, <2>2, <2>3 DEF AfterBulk
  <2> QED BY <2>3, <2>5, <2>6, TurnGoesOn
<1> QED BY <1>1, <1>3, <1>4

LEMMA BulkStep ==
    ASSUME ParserInv, ReadBulk, UNCHANGED <<sent, size, results>> PROVE ParserInv'
<1> DEFINE canRead == Available(position, bulkSize)
<1>1. /\ state = "Bulk" /\ position < size /\ "Bulk" \in State /\ "BulkCR" \in State
      /\ position' = position + canRead
      /\ buf' = buf \o SubSeq(stream, position + 1, position + canRead)
      /\ bulkSize' = bulkSize - canRead /\ InState(AfterBulk(bulkSize - canRead))
  BY DEF ReadBulk, Reading, State
<1>2. /\ position \in Nat /\ size \in Nat /\ size <= Len(stream) /\ bulkSize \in Int
      /\ bulkSize > 0 /\ buf \in Seq(Byte)
  BY <1>1 DEF ParserInv, TypeOK, MembersAgree, Current
<1>3. canRead \in Nat /\ canRead <= bulkSize /\ position + canRead <= size
  BY <1>1, <1>2 DEF Available
<1> HIDE DEF canRead
<1>4. buf' \in Seq(Byte)
  <2>1. SubSeq(stream, position + 1, position + canRead) \in Seq(Byte)
    BY <1>2, <1>3, StreamType, Piece
  <2> QED BY <1>1, <1>2, <2>1, ConcatProperties
<1>5. Turn
  BY <1>1, <1>2, <1>3, <1>4 DEF Turn
<1>6. /\ AfterBulk(bulkSize - canRead) \in State
      /\ AfterBulk(bulkSize - canRead) = "Bulk" => bulkSize' > 0
  BY <1>1, <1>2, <1>3 DEF AfterBulk
<1> QED BY <1>1, <1>5, <1>6, TurnGoesOn

LEMMA ArraySizeStep ==
    ASSUME ParserInv, ReadArraySizeLF, UNCHANGED <<sent, size, results>> PROVE ParserInv'
<1> DEFINE n == BufToLong(buf)
<1>1. /\ n \in Int /\ state = "ArraySizeLF" /\ ArrayOfSize(n)
      /\ Reading("ArraySizeLF") /\ Skip /\ buf' = buf /\ bulkSize' = bulkSize
  BY DEF ReadArraySizeLF, ReadLF, Reading, Long
<1> HIDE DEF n
<1>2. Turn
  <2>1. "ArraySizeLF" \in State
    BY DEF State, InLine, LineFeed
  <2> QED BY <1>1, <2>1, OneByte DEF ParserInv, TypeOK
<1>3. CASE n <= 0
  <2>1. Fail \/ Finished(<<Nil>>) \/ Finished(<<Arr(0)>>)
    BY <1>1, <1>3 DEF ArrayOfSize, Empty
  <2> QED BY <1>2, <2>1, PartTypes, OnePart, TurnFails, TurnFinishes
<1>4. CASE n > 0
  <2> DEFINE new == [count |-> 0, parts |-> <<>>]
  <2>1. /\ arraySizes' = Append(arraySizes, n) /\ arrayValues' = Append(arrayValues, new)
        /\ state' = "StartArray" /\ UNCHANGED <<states, redisValue, outcome>>
    BY <1>1, <1>4 DEF ArrayOfSize, Empty
  <2>2. new \in Open /\ n \in Nat \ {0} /\ "StartArray" \in State
    BY <1>1, <1>4, EmptySeq DEF Open, State
  <2> HIDE DEF new
  <2>3. arraySizes \in Seq(Nat \ {0}) /\ arrayValues \in Seq(Open)
    BY DEF ParserInv, TypeOK
  <2>4. /\ arraySizes' \in Seq(Nat \ {0}) /\ Len(arraySizes') = Len(arraySizes) + 1
        /\ arrayValues' \in Seq(Open) /\ Len(arrayValues') = Len(arrayValues) + 1
    BY <2>1, <2>2, <2>3, AppendProperties
  <2>5. stream' = stream /\ states = <<>>
    BY <1>1, <1>2 DEF Turn, stream, ParserInv, MembersAgree
  <2>6. TypeOK'
    BY <1>2, <2>1, <2>2, <2>4, <2>5 DEF Turn, ParserInv, TypeOK
  <2>7. MembersAgree'
    BY <1>2, <2>1, <2>4, <2>5 DEF Turn, ParserInv, MembersAgree, Current
  <2> QED BY <2>6, <2>7 DEF ParserInv
<1> QED BY <1>1, <1>3, <1>4

LEMMA OtherStep ==
    ASSUME ParserInv, ReadBulkCR \/ ReadOther, UNCHANGED <<sent, size, results>>
    PROVE  ParserInv'
<1>1. buf' = buf /\ bulkSize' = bulkSize /\ Skip /\ (InState("BulkLF") \/ Fail)
  BY DEF ReadBulkCR, ReadOther
<1>2. PICK s \in State : Reading(s)
  BY DEF ReadBulkCR, ReadOther, State
<1>3. Turn
  BY <1>1, <1>2, OneByte DEF ParserInv, TypeOK
<1>4. "BulkLF" \in State
  BY DEF State
<1> QED BY <1>1, <1>3, <1>4, TurnGoesOn, TurnFails

LEMMA ByteStep == ASSUME ParserInv, ReadByte PROVE ParserInv'
<1>1. UNCHANGED <<sent, size, results>>
  BY DEF ReadByte
<1> QED BY <1>1, StartStep, LineStep, ValueStep, BulkSizeStep, BulkStep, ArraySizeStep, OtherStep
        DEF ReadByte

-----------------------------------------------------------------------------
(* Calls, returns and ends of values.                                      *)

LEMMA ParseStep == ASSUME ParserInv, Parse PROVE ParserInv'
<1>1. /\ states \in Seq(State) /\ position \in Nat /\ size \in Nat /\ position < Len(stream)
      /\ position <= size /\ size <= Len(stream) /\ Len(states) <= 1
      /\ UNCHANGED <<bulkSize, buf, redisValue, arraySizes, arrayValues, sent, position,
                     outcome, results>>
  BY DEF Parse, ParserInv, TypeOK, MembersAgree
<1>2. stream' = stream
  BY <1>1 DEF stream
<1>3. size' \in Nat /\ position <= size' /\ size' <= Len(stream)
  BY <1>1, StreamType DEF Parse
<1>4. state' \in State /\ states' = <<>> /\ (state' = "Bulk" => bulkSize > 0)
  <2>1. CASE states = <<>>
    BY <2>1 DEF Parse, State
  <2>2. CASE states # <<>>
    <3>1. Last(states) \in State /\ Front(states) \in Seq(State) /\ Len(Front(states)) = 0
      BY <1>1, <2>2, FrontLast
    <3>2. Front(states) = <<>>
      BY <3>1, EmptySeq
    <3>3. state = "none"
      BY DEF Parse
    <3> QED BY <2>2, <3>1, <3>2, <3>3 DEF Parse, ParserInv, MembersAgree, Current
  <2> QED BY <2>1, <2>2
<1>5. TypeOK'
  BY <1>1, <1>2, <1>3, <1>4, EmptySeq DEF ParserInv, TypeOK
<1>6. MembersAgree'
  <2>1. state' # "none" /\ Len(states') = 0
    BY <1>4, EmptySeq DEF State, InLine, LineFeed
  <2> QED BY <1>1, <1>2, <1>3, <1>4, <2>1 DEF ParserInv, MembersAgree, Current
<1> QED BY <1>5, <1>6 DEF ParserInv

LEMMA ReturnStep == ASSUME ParserInv, Incompleted \/ Completed PROVE ParserInv'
<1>1. stream' = stream
  BY DEF Incompleted, Completed, stream
<1>2. CASE Incompleted
  <2>1. state \in State /\ state # "none" /\ states = <<>>
    BY <1>2 DEF Incompleted, State, InLine, LineFeed, ParserInv, MembersAgree
  <2>2. states' = <<state>> /\ states' \in Seq(State) /\ Len(states') = 1 /\ Last(states') = state
    BY <1>2, <2>1 DEF Incompleted, Last
  <2>3. TypeOK'
    BY <1>1, <1>2, <2>2 DEF Incompleted, ParserInv, TypeOK
  <2>4. MembersAgree'
    BY <1>1, <1>2, <2>1, <2>2 DEF Incompleted, ParserInv, MembersAgree, Current
  <2> QED BY <2>3, <2>4 DEF ParserInv
<1>3. CASE Completed
  <2>1. results' \in Seq(Seq(Part))
    BY <1>3, AppendProperties DEF Completed, ParserInv, TypeOK
  <2>2. TypeOK'
    BY <1>1, <1>3, <2>1 DEF Completed, memberVars, ParserInv, TypeOK
  <2>3. states = <<>>
    BY <1>3 DEF Completed, ParserInv, MembersAgree
  <2>4. MembersAgree'
    BY <1>1, <1>3, <2>3 DEF Completed, memberVars, ParserInv, MembersAgree, Current
  <2> QED BY <2>2, <2>4 DEF ParserInv
<1> QED BY <1>2, <1>3

LEMMA CloseStep == ASSUME ParserInv, CloseElement PROVE ParserInv'
<1> DEFINE top  == Last(arrayValues)
           more == [count |-> top.count + 1, parts |-> top.parts \o redisValue]
<1>1. /\ state = "Close" /\ arraySizes # <<>> /\ states = <<>>
      /\ UNCHANGED <<states, bulkSize, buf, sent, position, size, outcome, results>>
  BY DEF CloseElement, ParserInv, MembersAgree
<1>2. /\ arraySizes \in Seq(Nat \ {0}) /\ arrayValues \in Seq(Open) /\ redisValue \in Seq(Part)
      /\ Len(arraySizes) = Len(arrayValues)
  BY DEF ParserInv, TypeOK, MembersAgree
<1>3. /\ Front(arraySizes) \in Seq(Nat \ {0}) /\ Len(Front(arraySizes)) = Len(arraySizes) - 1
      /\ Last(arraySizes) \in Nat \ {0} /\ Len(arraySizes) \in Nat \ {0}
  BY <1>1, <1>2, FrontLast
<1>4. /\ Front(arrayValues) \in Seq(Open) /\ Len(Front(arrayValues)) = Len(arrayValues) - 1
      /\ top \in Open
  <2>1. arrayValues # <<>>
    BY <1>2, <1>3, EmptySeq
  <2> QED BY <1>2, <2>1, FrontLast
<1> HIDE DEF top
<1>5. more \in Open
  BY <1>2, <1>4, ConcatProperties DEF Open
<1>6. more.count \in Int /\ more.parts \in Seq(Part)
  BY <1>5 DEF Open
<1>7. CASE LastElement
  <2>1. /\ arraySizes' = Front(arraySizes) /\ arrayValues' = Front(arrayValues)
        /\ redisValue' = <<Arr(more.count)>> \o more.parts /\ UNCHANGED state
    BY <1>7 DEF CloseElement, top
  <2>2. redisValue' \in Seq(Part)
    BY <1>6, <2>1, PartTypes, OnePart, ConcatProperties
  <2> HIDE DEF more
  <2>3. stream' = stream
    BY <1>1 DEF stream
  <2>4. TypeOK'
    BY <1>1, <1>3, <1>4, <2>1, <2>2, <2>3 DEF ParserInv, TypeOK
  <2>5. MembersAgree'
    BY <1>1, <1>2, <1>3, <1>4, <2>1, <2>3 DEF ParserInv, MembersAgree, Current
  <2> QED BY <2>4, <2>5 DEF ParserInv
<1>8. CASE ~LastElement
  <2>1. /\ arraySizes' = Append(Front(arraySizes), Last(arraySizes) - 1)
        /\ arrayValues' = Append(Front(arrayValues), more)
        /\ state' = "Start" /\ UNCHANGED redisValue
    BY <1>8 DEF CloseElement, top
  <2> HIDE DEF more
  <2>2. Last(arraySizes) - 1 \in Nat \ {0}
    BY <1>3, <1>8 DEF LastElement
  <2>3. /\ arraySizes' \in Seq(Nat \ {0}) /\ Len(arraySizes') = Len(arraySizes)
        /\ arrayValues' \in Seq(Open) /\ Len(arrayValues') = Len(arrayValues)
    BY <1>2, <1>3, <1>4, <1>5, <2>1, <2>2, AppendProperties
  <2>4. stream' = stream
    BY <1>1 DEF stream
  <2>5. TypeOK'
    BY <1>1, <2>1, <2>3, <2>4 DEF ParserInv, TypeOK, State
  <2>6. MembersAgree'
    BY <1>1, <2>1, <2>3, <2>4 DEF ParserInv, MembersAgree, Current
  <2> QED BY <2>5, <2>6 DEF ParserInv
<1> QED BY <1>7, <1>8

-----------------------------------------------------------------------------
LEMMA ParserNext == ParserInv /\ [Next]_vars => ParserInv'
<1> SUFFICES ASSUME ParserInv, [Next]_vars PROVE ParserInv'
  OBVIOUS
<1>1. CASE UNCHANGED vars
  BY <1>1 DEF vars, memberVars, ParserInv, TypeOK, MembersAgree, Current, stream
<1> QED BY <1>1, ParseStep, ByteStep, CloseStep, ReturnStep DEF Next

\* Both together are inductive: each turn of the loop, each call and each return keeps them.
THEOREM ParserCorrect == Spec => []ParserInv
BY ParserInit, ParserNext, PTL DEF Spec

\* Every variable of the parser keeps its type (redisparser.h:72-80); in particular no
\* array on the stack is complete, whatever the bytes and the chunks.
THEOREM ParserTypeCorrect == Spec => []TypeOK
<1>1. ParserInv => TypeOK
  BY DEF ParserInv
<1> QED BY <1>1, ParserCorrect, PTL

\* The stacks agree, the assertion of case Bulk (redisparser.cpp:206) holds and nothing
\* outside of the chunk is read, for every conversation and every way of cutting it.
THEOREM ParserMembersAgree == Spec => []MembersAgree
<1>1. ParserInv => MembersAgree
  BY DEF ParserInv
<1> QED BY <1>1, ParserCorrect, PTL

-----------------------------------------------------------------------------
(* How many values a sequence of parts still needs.  The induction over    *)
(* the parts is one over a set of numbers (CountUp).                       *)

\* m counts what is missing after each of the first n parts.
Counts(m, ps, n) ==
    /\ m = [k \in 0 .. n |-> m[k]] /\ m[0] = 1
    /\ \A k \in 0 .. n : k # n => m[k + 1] = m[k] - 1 + Members(ps[k + 1])

\* An array needs as many values as it has elements, any other part none.
LEMMA MembersType == ASSUME NEW p \in Part PROVE Members(p) \in Int
BY DEF Part, Members

\* The numbers that the definition of Missing goes through exist.
LEMMA CountsExist ==
    ASSUME NEW ps \in Seq(Part)
    PROVE  \E m : Counts(m, ps, Len(ps))
<1> DEFINE T == {n \in 0 .. Len(ps) : \E m : Counts(m, ps, n)}
<1>1. Len(ps) \in Nat
  BY LenProperties
<1>2. 0 \in T
  <2> DEFINE g == [k \in 0 .. 0 |-> 1]
  <2>1. Counts(g, ps, 0)
    BY DEF Counts
  <2> HIDE DEF g
  <2> QED BY <1>1, <2>1
<1>3. ASSUME NEW n \in 0 .. Len(ps), n # Len(ps), n \in T PROVE n + 1 \in T
  <2>1. PICK f : Counts(f, ps, n)
    BY <1>3
  <2> DEFINE g == [k \in 0 .. n + 1 |-> IF k = n + 1 THEN f[n] - 1 + Members(ps[n + 1]) ELSE f[k]]
  <2>2. \A k \in 0 .. n + 1 : g[k] = IF k = n + 1 THEN f[n] - 1 + Members(ps[n + 1]) ELSE f[k]
    OBVIOUS
  <2>3. g = [k \in 0 .. n + 1 |-> g[k]]
    OBVIOUS
  <2> HIDE DEF g
  <2>4. g[0] = 1
    <3>1. 0 \in 0 .. n + 1 /\ 0 # n + 1
      BY <1>1
    <3> QED BY <2>1, <2>2, <3>1 DEF Counts
  <2>5. ASSUME NEW k \in 0 .. n + 1, k # n + 1 PROVE g[k + 1] = g[k] - 1 + Members(ps[k + 1])
    <3>1. k \in 0 .. n /\ k + 1 \in 0 .. n + 1 /\ (k + 1 = n + 1 <=> k = n)
      BY <1>1, <2>5
    <3>2. g[k] = f[k]
      BY <2>2, <2>5
    <3>3. CASE k = n
      BY <2>2, <3>1, <3>2, <3>3
    <3>4. CASE k # n
      <4>1. f[k + 1] = f[k] - 1 + Members(ps[k + 1])
        BY <2>1, <3>1, <3>4 DEF Counts
      <4> QED BY <2>2, <3>1, <3>2, <3>4, <4>1
    <3> QED BY <3>3, <3>4
  <2>6. Counts(g, ps, n + 1)
    BY <2>3, <2>4, <2>5 DEF Counts
  <2>7. n + 1 \in 0 .. Len(ps)
    BY <1>1, <1>3
  <2> QED BY <2>6, <2>7
<1>4. Len(ps) \in T
  <2> HIDE DEF T
  <2>1. \A i \in 0 .. Len(ps) : i \in T
    BY <1>1, <1>2, <1>3, CountUp
  <2> QED BY <1>1, <2>1
<1> QED BY <1>4

\* What Missing counts, part by part.
LEMMA MissingCounts ==
    ASSUME NEW ps \in Seq(Part)
    PROVE  Counts(Missing(ps), ps, Len(ps))
<1> DEFINE n == Len(ps)
           Sums(g) == g = [k \in 0 .. n |-> IF k = 0 THEN 1 ELSE g[k - 1] - 1 + Members(ps[k])]
           h == CHOOSE g : Sums(g)
<1>1. n \in Nat
  BY LenProperties
<1>2. PICK m : Counts(m, ps, n)
  BY CountsExist
<1>3. Sums(m)
  <2>1. ASSUME NEW k \in 0 .. n
        PROVE  m[k] = IF k = 0 THEN 1 ELSE m[k - 1] - 1 + Members(ps[k])
    <3>1. CASE k = 0
      BY <1>2, <3>1 DEF Counts
    <3>2. CASE k # 0
      <4>1. k - 1 \in 0 .. n /\ k - 1 # n /\ (k - 1) + 1 = k
        BY <1>1, <3>2
      <4>2. m[(k - 1) + 1] = m[k - 1] - 1 + Members(ps[(k - 1) + 1])
        BY <1>2, <4>1 DEF Counts
      <4> QED BY <3>2, <4>1, <4>2
    <3> QED BY <3>1, <3>2
  <2>2. m = [k \in 0 .. n |-> m[k]]
    BY <1>2 DEF Counts
  <2> QED BY <2>1, <2>2
<1>4. Sums(h)
  <2> HIDE DEF Sums
  <2> QED BY <1>3
<1>5. Missing(ps) = h
  BY DEF Missing
<1>6. \A k \in 0 .. n : h[k] = IF k = 0 THEN 1 ELSE h[k - 1] - 1 + Members(ps[k])
  <2> HIDE DEF h
  <2> QED BY <1>4
<1>7. h = [k \in 0 .. n |-> h[k]]
  <2> HIDE DEF h
  <2> QED BY <1>4
<1> HIDE DEF h, n
<1>8. h[0] = 1
  BY <1>1, <1>6
<1>9. ASSUME NEW k \in 0 .. n, k # n PROVE h[k + 1] = h[k] - 1 + Members(ps[k + 1])
  <2>1. k + 1 \in 0 .. n /\ k + 1 # 0 /\ (k + 1) - 1 = k
    BY <1>1, <1>9
  <2> QED BY <1>6, <2>1
<1> QED BY <1>5, <1>7, <1>8, <1>9 DEF Counts, n

LEMMA MissingType ==
    ASSUME NEW ps \in Seq(Part)
    PROVE  Len(ps) \in Nat /\ \A k \in 0 .. Len(ps) : Missing(ps)[k] \in Int
<1> DEFINE M == Missing(ps)
           T == {k \in 0 .. Len(ps) : M[k] \in Int}
<1>1. Len(ps) \in Nat /\ Counts(M, ps, Len(ps)) /\ \A k \in 1 .. Len(ps) : ps[k] \in Part
  BY LenProperties, MissingCounts, ElementOfSeq
<1> HIDE DEF M
<1>2. 0 \in T
  BY <1>1 DEF Counts
<1>3. ASSUME NEW k \in 0 .. Len(ps), k # Len(ps), k \in T PROVE k + 1 \in T
  <2>1. k + 1 \in 0 .. Len(ps) /\ k + 1 \in 1 .. Len(ps)
    BY <1>1, <1>3
  <2>2. M[k + 1] = M[k] - 1 + Members(ps[k + 1])
    BY <1>1, <1>3 DEF Counts
  <2>3. Members(ps[k + 1]) \in Int
    BY <1>1, <2>1, MembersType
  <2> QED BY <1>3, <2>1, <2>2, <2>3
<1>4. \A k \in 0 .. Len(ps) : k \in T
  <2> HIDE DEF T
  <2> QED BY <1>1, <1>2, <1>3, CountUp
<1> QED BY <1>1, <1>4 DEF M

\* Of two sequences of parts, the second goes on from what the first leaves missing.
LEMMA MissingConcat ==
    ASSUME NEW p \in Seq(Part), NEW q \in Seq(Part)
    PROVE  /\ \A k \in 0 .. Len(p) : Missing(p \o q)[k] = Missing(p)[k]
           /\ \A k \in 0 .. Len(q) : Missing(p \o q)[Len(p) + k] = Missing(p)[Len(p)] + Missing(q)[k] - 1
<1> DEFINE n == Len(p)
           l == Len(q)
           M == Missing(p \o q)
           P == Missing(p)
           Q == Missing(q)
           T == {k \in 0 .. n : M[k] = P[k]}
           U == {k \in 0 .. l : M[n + k] = P[n] + Q[k] - 1}
<1>1. /\ p \o q \in Seq(Part) /\ Len(p \o q) = n + l /\ n \in Nat /\ l \in Nat
      /\ \A i \in 1 .. n + l : (p \o q)[i] = IF i <= n THEN p[i] ELSE q[i - n]
  BY ConcatProperties, LenProperties
<1>2. /\ Counts(M, p \o q, n + l) /\ Counts(P, p, n) /\ Counts(Q, q, l)
      /\ (\A k \in 0 .. n : P[k] \in Int) /\ (\A k \in 0 .. l : Q[k] \in Int)
  BY <1>1, MissingCounts, MissingType
<1>3. \A k \in 1 .. l : Members(q[k]) \in Int
  BY ElementOfSeq, MembersType
<1> HIDE DEF M, P, Q, n, l
<1>4. 0 \in T
  BY <1>1, <1>2 DEF Counts
<1>5. ASSUME NEW k \in 0 .. n, k # n, k \in T PROVE k + 1 \in T
  <2>1. k + 1 \in 0 .. n /\ k \in 0 .. n + l /\ k # n + l /\ k + 1 \in 1 .. n + l /\ k + 1 <= n
    BY <1>1, <1>5
  <2>2. (p \o q)[k + 1] = p[k + 1]
    BY <1>1, <2>1
  <2>3. M[k + 1] = M[k] - 1 + Members((p \o q)[k + 1]) /\ P[k + 1] = P[k] - 1 + Members(p[k + 1])
    BY <1>2, <1>5, <2>1 DEF Counts
  <2> QED BY <1>5, <2>1, <2>2, <2>3
<1>6. \A k \in 0 .. n : k \in T
  <2> HIDE DEF T
  <2> QED BY <1>1, <1>4, <1>5, CountUp
<1>7. 0 \in U
  <2>1. n \in 0 .. n /\ n + 0 = n /\ 0 \in 0 .. l
    BY <1>1
  <2>2. n \in T
    BY <1>6, <2>1
  <2>3. Q[0] = 1 /\ P[n] \in Int
    BY <1>2, <2>1 DEF Counts
  <2>4. P[n] + Q[0] - 1 = P[n]
    BY <2>3
  <2> QED BY <2>1, <2>2, <2>4
<1>8. ASSUME NEW k \in 0 .. l, k # l, k \in U PROVE k + 1 \in U
  <2>1. /\ k + 1 \in 0 .. l /\ n + k \in 0 .. n + l /\ n + k # n + l /\ n + (k + 1) = (n + k) + 1
        /\ (n + k) + 1 \in 1 .. n + l /\ ~((n + k) + 1 <= n) /\ ((n + k) + 1) - n = k + 1
        /\ k + 1 \in 1 .. l
    BY <1>1, <1>8
  <2>2. (p \o q)[(n + k) + 1] = q[k + 1]
    BY <1>1, <2>1
  <2>3. M[(n + k) + 1] = M[n + k] - 1 + Members(q[k + 1])
    BY <1>2, <2>1, <2>2 DEF Counts
  <2>4. Q[k + 1] = Q[k] - 1 + Members(q[k + 1])
    BY <1>2, <1>8 DEF Counts
  <2>5. M[n + k] = P[n] + Q[k] - 1
    BY <1>8
  <2>6. P[n] \in Int /\ Q[k] \in Int /\ Members(q[k + 1]) \in Int
    BY <1>1, <1>2, <1>3, <2>1
  <2>7. M[(n + k) + 1] = P[n] + Q[k + 1] - 1
    <3> DEFINE a == P[n]
               b == Q[k]
               d == Members(q[k + 1])
    <3>1. a \in Int /\ b \in Int /\ d \in Int
      BY <2>6
    <3> HIDE DEF a, b, d
    <3>2. (a + b - 1) - 1 + d = a + (b - 1 + d) - 1
      BY <3>1
    <3> QED BY <2>3, <2>4, <2>5, <3>2 DEF a, b, d
  <2> QED BY <2>1, <2>7
<1>9. \A k \in 0 .. l : k \in U
  <2> HIDE DEF U
  <2> QED BY <1>1, <1>7, <1>8, CountUp
<1> QED BY <1>6, <1>9 DEF M, P, Q, n, l

\* Nothing is part of a value, and a part that is not an array is one.
LEMMA NothingPart == PartOfValue(<<>>)
<1>1. <<>> \in Seq(Part) /\ Len(<<>>) = 0
  BY EmptySeq
<1>2. Missing(<<>>)[0] = 1
  BY <1>1, MissingCounts DEF Counts
<1> QED BY <1>1, <1>2 DEF PartOfValue

\* One part alone.
LEMMA MissingOne ==
    ASSUME NEW p \in Part
    PROVE  /\ <<p>> \in Seq(Part) /\ Len(<<p>>) = 1
           /\ Missing(<<p>>)[0] = 1 /\ Missing(<<p>>)[1] = Members(p)
<1>1. <<p>> \in Seq(Part) /\ Len(<<p>>) = 1 /\ <<p>>[1] = p
  OBVIOUS
<1>2. Counts(Missing(<<p>>), <<p>>, 1)
  BY <1>1, MissingCounts
<1>3. Missing(<<p>>)[0] = 1 /\ Missing(<<p>>)[0 + 1] = Missing(<<p>>)[0] - 1 + Members(<<p>>[0 + 1])
  BY <1>2 DEF Counts
<1>4. Members(p) \in Int
  BY MembersType
<1> QED BY <1>1, <1>3, <1>4

LEMMA OneLeaf == ASSUME NEW p \in Part, Members(p) = 0 PROVE OneValue(<<p>>)
<1>1. /\ Len(<<p>>) = 1 /\ Missing(<<p>>)[0] = 1 /\ Missing(<<p>>)[1] = 0 /\ <<p>> # <<>>
  BY MissingOne
<1>2. \A k \in 0 .. 1 - 1 : k = 0
  OBVIOUS
<1> QED BY <1>1, <1>2 DEF OneValue

LEMMA OneHeader ==
    ASSUME NEW n \in Nat \ {0}
    PROVE  /\ <<Arr(n)>> \in Seq(Part) /\ Len(<<Arr(n)>>) = 1
           /\ PartOfValue(<<Arr(n)>>) /\ Missing(<<Arr(n)>>)[1] = n
<1>1. Arr(n) \in Part /\ Members(Arr(n)) = n
  BY EmptySeq DEF Arr, Part, Members
<1> DEFINE p == Arr(n)
<1> HIDE DEF p
<1>2. <<p>> \in Seq(Part) /\ Len(<<p>>) = 1 /\ Missing(<<p>>)[0] = 1 /\ Missing(<<p>>)[1] = n
  <2>1. p \in Part /\ Members(p) = n
    BY <1>1 DEF p
  <2> QED BY <2>1, MissingOne
<1>3. \A k \in 0 .. 1 : k = 0 \/ k = 1
  OBVIOUS
<1>4. PartOfValue(<<p>>)
  BY <1>2, <1>3 DEF PartOfValue
<1> QED BY <1>2, <1>4 DEF p

\* Where an index of a concatenation lies.
LEMMA EitherSide ==
    ASSUME NEW n \in Nat, NEW l \in Nat, NEW k \in 0 .. n + l
    PROVE  k \in 0 .. n \/ (k - n \in 0 .. l /\ k - n # 0 /\ n + (k - n) = k)
OBVIOUS

\* Parts of values one behind the other are part of a value, of one inside the other.
LEMMA MoreParts ==
    ASSUME NEW p \in Seq(Part), NEW q \in Seq(Part), PartOfValue(p), PartOfValue(q)
    PROVE  PartOfValue(p \o q)
<1>1. /\ p \o q \in Seq(Part) /\ Len(p \o q) = Len(p) + Len(q) /\ Len(p) \in Nat /\ Len(q) \in Nat
  BY ConcatProperties, LenProperties
<1> SUFFICES ASSUME NEW k \in 0 .. Len(p) + Len(q) PROVE Missing(p \o q)[k] > 0
  BY <1>1 DEF PartOfValue
<1>2. CASE k \in 0 .. Len(p)
  BY <1>2, MissingConcat DEF PartOfValue
<1>3. CASE k - Len(p) \in 0 .. Len(q) /\ Len(p) + (k - Len(p)) = k
  <2> DEFINE j == k - Len(p)
             a == Missing(p)[Len(p)]
             b == Missing(q)[j]
  <2>1. Missing(p \o q)[k] = a + b - 1
    BY <1>3, MissingConcat
  <2>2. a > 0 /\ b > 0 /\ a \in Int /\ b \in Int
    BY <1>1, <1>3, MissingType DEF PartOfValue
  <2> HIDE DEF a, b
  <2> QED BY <2>1, <2>2
<1> QED BY <1>1, <1>2, <1>3, EitherSide

\* A value more: what the parts miss is one less, and they are a value when nothing is missed.
LEMMA MoreValues ==
    ASSUME NEW p \in Seq(Part), NEW v \in Seq(Part), PartOfValue(p), OneValue(v)
    PROVE  /\ p \o v \in Seq(Part)
           /\ Missing(p \o v)[Len(p \o v)] = Missing(p)[Len(p)] - 1
           /\ Missing(p)[Len(p)] = 1 => OneValue(p \o v)
           /\ Missing(p)[Len(p)] # 1 => PartOfValue(p \o v)
<1> DEFINE w == p \o v
           a == Missing(p)[Len(p)]
           n == Len(p)
           l == Len(v)
<1>1. w \in Seq(Part) /\ Len(w) = n + l /\ n \in Nat /\ l \in Nat \ {0} /\ w # <<>>
  <2>1. w \in Seq(Part) /\ Len(w) = n + l /\ n \in Nat /\ l \in Nat
    BY ConcatProperties, LenProperties
  <2>2. l # 0
    BY EmptySeq DEF OneValue
  <2>3. Len(w) # 0
    BY <2>1, <2>2
  <2> QED BY <2>1, <2>2, <2>3, EmptySeq
<1>2. a \in Int /\ a > 0 /\ \A k \in 0 .. l : Missing(v)[k] \in Int
  BY <1>1, MissingType DEF PartOfValue
<1>3. \A k \in 0 .. n : Missing(w)[k] = Missing(p)[k] /\ Missing(p)[k] > 0
  BY MissingConcat DEF PartOfValue
<1>4. \A k \in 0 .. l : Missing(w)[n + k] = a + Missing(v)[k] - 1
  BY MissingConcat
<1>5. Missing(v)[l] = 0 /\ \A k \in 0 .. l - 1 : Missing(v)[k] > 0
  BY DEF OneValue
<1> HIDE DEF w, a, n, l
<1>6. Missing(w)[n + l] = a - 1
  <2>1. l \in 0 .. l
    BY <1>1
  <2> QED BY <1>2, <1>4, <1>5, <2>1
<1>7. ASSUME NEW k \in 0 .. n + l, k # n + l PROVE Missing(w)[k] > 0
  <2>1. CASE k \in 0 .. n
    BY <1>3, <2>1
  <2>2. CASE k - n \in 0 .. l /\ n + (k - n) = k
    <3>1. k - n \in 0 .. l - 1
      BY <1>1, <1>7, <2>2
    <3>2. Missing(w)[k] = a + Missing(v)[k - n] - 1 /\ Missing(v)[k - n] > 0 /\ Missing(v)[k - n] \in Int
      BY <1>2, <1>4, <1>5, <2>2, <3>1
    <3> QED BY <1>2, <3>2
  <2> QED BY <1>1, <1>7, <2>1, <2>2, EitherSide
<1>8. a = 1 => OneValue(w)
  <2>1. \A k \in 0 .. n + l - 1 : k \in 0 .. n + l /\ k # n + l
    BY <1>1
  <2> QED BY <1>1, <1>6, <1>7, <2>1 DEF OneValue
<1>9. a # 1 => PartOfValue(w)
  BY <1>1, <1>2, <1>6, <1>7 DEF PartOfValue
<1> QED BY <1>1, <1>6, <1>8, <1>9 DEF w, a, n, l

LEMMA AllParts ==
    ASSUME NEW ss \in Seq(Seq(Part)), \A i \in 1 .. Len(ss) : PartOfValue(ss[i])
    PROVE  PartOfValue(FlattenSeq(ss))
<1> DEFINE T == {j \in 0 .. Len(ss) : PartOfValue(FlattenSeq(SubSeq(ss, 1, j)))}
<1>1. Len(ss) \in Nat /\ \A i \in 0 .. Len(ss) : i # Len(ss) => i + 1 \in 1 .. Len(ss) /\ ss[i + 1] \in Seq(Part)
  BY SeqOfSeqs
<1>2. 0 \in T
  <2>1. SubSeq(ss, 1, 0) = <<>>
    BY SubSeqEmpty
  <2>2. PartOfValue(FlattenSeq(<<>>))
    BY FlattenNone, NothingPart, Zenon
  <2>3. PartOfValue(FlattenSeq(SubSeq(ss, 1, 0)))
    BY <2>1, <2>2, Zenon
  <2> QED BY <1>1, <2>3
<1>3. ASSUME NEW j \in 0 .. Len(ss), j # Len(ss), j \in T PROVE j + 1 \in T
  <2> DEFINE f == FlattenSeq(SubSeq(ss, 1, j))
  <2>1. SubSeq(ss, 1, j) \in Seq(Seq(Part)) /\ j + 1 \in 0 .. Len(ss)
    BY <1>1, <1>3, PrefixProperties
  <2>2. f \in Seq(Part) /\ ss[j + 1] \in Seq(Part) /\ PartOfValue(f) /\ PartOfValue(ss[j + 1])
    BY <1>1, <1>3, <2>1, FlattenType
  <2>3. FlattenSeq(SubSeq(ss, 1, j + 1)) = f \o ss[j + 1]
    BY <1>3, FlattenStep
  <2> HIDE DEF f
  <2>4. PartOfValue(f \o ss[j + 1])
    BY <2>2, MoreParts
  <2> QED BY <2>1, <2>3, <2>4
<1>4. Len(ss) \in T
  <2> HIDE DEF T
  <2>1. \A i \in 0 .. Len(ss) : i \in T
    BY <1>1, <1>2, <1>3, CountUp
  <2> QED BY <1>1, <2>1
<1>5. SubSeq(ss, 1, Len(ss)) = ss
  BY SubSeqFull
<1> QED BY <1>4, <1>5

LEMMA FlattenFront ==
    ASSUME NEW S, NEW ss \in Seq(Seq(S)), ss # <<>>
    PROVE  /\ Front(ss) \in Seq(Seq(S)) /\ Last(ss) \in Seq(S)
           /\ FlattenSeq(ss) = FlattenSeq(Front(ss)) \o Last(ss)
<1>1. Front(ss) \in Seq(Seq(S)) /\ Last(ss) \in Seq(S) /\ Len(ss) \in Nat \ {0}
  BY FrontLast
<1> DEFINE j == Len(ss) - 1
<1>2. j \in 0 .. Len(ss) /\ j # Len(ss) /\ j + 1 = Len(ss)
  BY <1>1
<1>3. FlattenSeq(SubSeq(ss, 1, j + 1)) = FlattenSeq(SubSeq(ss, 1, j)) \o ss[j + 1]
  <2> HIDE DEF j
  <2> QED BY <1>2, FlattenStep
<1>4. SubSeq(ss, 1, Len(ss)) = ss
  BY SubSeqFull
<1> QED BY <1>1, <1>2, <1>3, <1>4 DEF Front, Last

\* x is s and then t, all of them sequences of parts.
Joins(x, s, t) == s \in Seq(Part) /\ t \in Seq(Part) /\ x \in Seq(Part) /\ x = s \o t

\* Two sequences of parts can be joined, in one way.
LEMMA JoinTwo ==
    /\ \A s, t \in Seq(Part) : Joins(s \o t, s, t)
    /\ \A s, t, x, y : Joins(x, s, t) /\ Joins(y, s, t) => x = y
<1>1. \A s, t \in Seq(Part) : s \o t \in Seq(Part)
  BY ConcatProperties
<1> QED BY <1>1 DEF Joins

\* Three make one, whichever two are joined first.
LEMMA Regroup ==
    \A s, t, u, x, y, z : Joins(x, s, t) /\ Joins(y, t, u) => (Joins(z, x, u) <=> Joins(z, s, y))
<1> SUFFICES ASSUME NEW s, NEW t, NEW u, NEW x, NEW y, NEW z, Joins(x, s, t), Joins(y, t, u)
             PROVE  Joins(z, x, u) <=> Joins(z, s, y)
  OBVIOUS
<1>1. /\ s \in Seq(Part) /\ t \in Seq(Part) /\ u \in Seq(Part) /\ x \in Seq(Part) /\ y \in Seq(Part)
      /\ x = s \o t /\ y = t \o u
  BY DEF Joins
<1>2. (s \o t) \o u = s \o (t \o u)
  BY <1>1, ConcatAssociative
<1>3. x \o u = s \o y
  BY <1>1, <1>2
<1> QED BY <1>1, <1>3 DEF Joins

\* Joining nothing changes nothing.
LEMMA JoinNothing == \A s, x : Joins(x, s, <<>>) => x = s
<1> SUFFICES ASSUME NEW s, NEW x, Joins(x, s, <<>>) PROVE x = s
  OBVIOUS
<1>1. s \in Seq(Part) /\ x = s \o <<>>
  BY DEF Joins
<1> QED BY <1>1, ConcatEmptySeq

-----------------------------------------------------------------------------
(* What has been read: the values that were returned, then each open       *)
(* array with the elements it has so far, then the value that ends.        *)

OpenOf(a, n) == <<Arr(a.count + n)>> \o a.parts
Opened       == [i \in DOMAIN arrayValues |-> OpenOf(arrayValues[i], arraySizes[i])]
Value        == IF Current = "Close" THEN redisValue ELSE <<>>
Read         == (FlattenSeq(results) \o FlattenSeq(Opened)) \o Value

\* What was returned is whole, and an open array misses as many values as arraySizes counts.
Whole ==
    /\ \A i \in DOMAIN results : OneValue(results[i])
    /\ Current = "Close" => OneValue(redisValue)
    /\ \A i \in DOMAIN Opened : /\ PartOfValue(Opened[i])
                                /\ Missing(Opened[i])[Len(Opened[i])] = arraySizes[i]

LEMMA OpenOfType ==
    ASSUME NEW a \in Open, NEW n \in Nat
    PROVE  OpenOf(a, n) \in Seq(Part)
<1>1. a.count + n \in Int /\ a.parts \in Seq(Part)
  BY DEF Open
<1>2. <<Arr(a.count + n)>> \in Seq(Part)
  BY <1>1, PartTypes, OnePart
<1> QED BY <1>1, <1>2, ConcatProperties DEF OpenOf

LEMMA ReadType ==
    ASSUME ParserInv
    PROVE  /\ Opened \in Seq(Seq(Part)) /\ Len(Opened) = Len(arrayValues)
           /\ DOMAIN Opened = 1 .. Len(Opened) /\ Len(arraySizes) = Len(Opened)
           /\ \A i \in 1 .. Len(Opened) : Opened[i] = OpenOf(arrayValues[i], arraySizes[i])
           /\ results \in Seq(Seq(Part)) /\ FlattenSeq(results) \in Seq(Part)
           /\ FlattenSeq(Opened) \in Seq(Part) /\ Value \in Seq(Part)
<1>1. /\ arraySizes \in Seq(Nat \ {0}) /\ arrayValues \in Seq(Open) /\ results \in Seq(Seq(Part))
      /\ redisValue \in Seq(Part) /\ Len(arraySizes) = Len(arrayValues)
  BY DEF ParserInv, TypeOK, MembersAgree
<1>2. /\ DOMAIN arrayValues = 1 .. Len(arrayValues)
      /\ \A i \in 1 .. Len(arrayValues) : arrayValues[i] \in Open /\ arraySizes[i] \in Nat
  BY <1>1, LenProperties, ElementOfSeq
<1>3. Opened \in [DOMAIN arrayValues -> Seq(Part)]
  BY <1>2, OpenOfType DEF Opened
<1>4. Opened \in Seq(Seq(Part)) /\ Len(Opened) = Len(arrayValues) /\ DOMAIN Opened = DOMAIN arrayValues
  <2>1. Opened \in [1 .. Len(arrayValues) -> Seq(Part)] /\ Len(arrayValues) \in Nat
    BY <1>1, <1>2, <1>3, LenProperties
  <2>2. Opened \in Seq(Seq(Part)) /\ Len(Opened) = Len(arrayValues)
    BY <2>1, SequenceOf
  <2> QED BY <1>2, <2>1, <2>2
<1>5. \A i \in DOMAIN arrayValues : Opened[i] = OpenOf(arrayValues[i], arraySizes[i])
  BY DEF Opened
<1>6. Value \in Seq(Part)
  BY <1>1, EmptySeq DEF Value
<1> QED BY <1>1, <1>2, <1>4, <1>5, <1>6, FlattenType

LEMMA ReadTypeNext ==
    ParserInv' =>
           (/\ Opened \in Seq(Seq(Part)) /\ Len(Opened) = Len(arrayValues)
            /\ DOMAIN Opened = 1 .. Len(Opened) /\ Len(arraySizes) = Len(Opened)
            /\ \A i \in 1 .. Len(Opened) : Opened[i] = OpenOf(arrayValues[i], arraySizes[i])
            /\ results \in Seq(Seq(Part)) /\ FlattenSeq(results) \in Seq(Part)
            /\ FlattenSeq(Opened) \in Seq(Part) /\ Value \in Seq(Part))'
BY ReadType, PTL

\* Neither a value that ends nor a change of the arrays: nothing is read.
Same == UNCHANGED <<results, arraySizes, arrayValues>>

LEMMA QuietReads ==
    ASSUME Same, Current # "Close", Current' # "Close"
    PROVE  Read' = Read /\ (Whole => Whole')
<1>1. Opened' = Opened /\ Value' = Value /\ results' = results /\ arraySizes' = arraySizes
  BY DEF Same, Opened, Value
<1> QED BY <1>1 DEF Read, Whole

\* A value of one part ends.
LEMMA LeafReads ==
    ASSUME ParserInv, Same, Current # "Close", Current' = "Close",
           NEW p \in Part, Members(p) = 0, redisValue' = <<p>>
    PROVE  Read' = Read \o <<p>> /\ (Whole => Whole')
<1>1. Opened' = Opened /\ Value = <<>> /\ Value' = <<p>> /\ results' = results /\ arraySizes' = arraySizes
  BY DEF Same, Opened, Value
<1>2. FlattenSeq(results) \o FlattenSeq(Opened) \in Seq(Part)
  BY ReadType, ConcatProperties
<1>3. Read = FlattenSeq(results) \o FlattenSeq(Opened)
  BY <1>1, <1>2, ConcatEmptySeq DEF Read
<1>4. OneValue(<<p>>)
  BY OneLeaf
<1> QED BY <1>1, <1>3, <1>4 DEF Read, Whole

\* An array that has elements begins.
LEMMA HeaderReads ==
    ASSUME ParserInv, ParserInv', NEW n \in Nat \ {0}, results' = results,
           Current # "Close", Current' # "Close",
           arraySizes' = Append(arraySizes, n),
           arrayValues' = Append(arrayValues, [count |-> 0, parts |-> <<>>])
    PROVE  Read' = Read \o <<Arr(n)>> /\ (Whole => Whole')
<1> DEFINE h == <<Arr(n)>>
           O == Opened
           l == Len(O)
           N == Opened'
<1>1. /\ O \in Seq(Seq(Part)) /\ l = Len(arrayValues) /\ l = Len(arraySizes) /\ l \in Nat
      /\ \A i \in 1 .. l : O[i] = OpenOf(arrayValues[i], arraySizes[i])
      /\ FlattenSeq(results) \in Seq(Part) /\ FlattenSeq(O) \in Seq(Part)
  BY ReadType, LenProperties
<1>2. /\ N \in Seq(Seq(Part)) /\ Len(N) = Len(arrayValues') /\ DOMAIN N = 1 .. Len(N)
      /\ \A i \in 1 .. Len(N) : N[i] = OpenOf(arrayValues'[i], arraySizes'[i])
  BY ReadTypeNext
<1>3. arraySizes \in Seq(Nat \ {0}) /\ arrayValues \in Seq(Open) /\ [count |-> 0, parts |-> <<>>] \in Open
  BY EmptySeq DEF ParserInv, TypeOK, Open
<1>4. /\ Len(arrayValues') = l + 1 /\ arrayValues'[l + 1] = [count |-> 0, parts |-> <<>>]
      /\ arraySizes'[l + 1] = n
      /\ \A i \in 1 .. l : arrayValues'[i] = arrayValues[i] /\ arraySizes'[i] = arraySizes[i]
  <2> DEFINE e == [count |-> 0, parts |-> <<>>]
  <2>1. e \in Open /\ n \in Nat \ {0} /\ arrayValues' = Append(arrayValues, e)
    BY <1>3
  <2> HIDE DEF e
  <2>2. /\ Len(arrayValues') = Len(arrayValues) + 1 /\ arrayValues'[Len(arrayValues) + 1] = e
        /\ \A i \in 1 .. Len(arrayValues) : arrayValues'[i] = arrayValues[i]
    BY <1>3, <2>1, AppendProperties
  <2>3. /\ arraySizes'[Len(arraySizes) + 1] = n
        /\ \A i \in 1 .. Len(arraySizes) : arraySizes'[i] = arraySizes[i]
    BY <1>3, <2>1, AppendProperties
  <2> QED BY <1>1, <2>2, <2>3 DEF e
<1>5. h \in Seq(Part) /\ Len(h) = 1 /\ PartOfValue(h) /\ Missing(h)[1] = n
  BY OneHeader
<1>6. OpenOf([count |-> 0, parts |-> <<>>], n) = h
  <2>1. OpenOf([count |-> 0, parts |-> <<>>], n) = h \o <<>>
    BY DEF OpenOf
  <2> QED BY <1>5, <2>1, ConcatEmptySeq
<1> HIDE DEF h, O, N, l
<1>7. Len(N) = l + 1 /\ N[l + 1] = h /\ \A i \in 1 .. l : N[i] = O[i]
  <2>1. l + 1 \in 1 .. l + 1 /\ \A i \in 1 .. l : i \in 1 .. l + 1
    BY <1>1
  <2>2. Len(N) = l + 1
    BY <1>2, <1>4
  <2>3. N[l + 1] = h
    BY <1>2, <1>4, <1>6, <2>1, <2>2
  <2>4. \A i \in 1 .. l : N[i] = O[i]
    BY <1>1, <1>2, <1>4, <2>1, <2>2
  <2> QED BY <2>2, <2>3, <2>4
<1>8. N = Append(O, h)
  <2> DEFINE S == Seq(Part)
  <2>1. O \in Seq(S) /\ N \in Seq(S) /\ h \in S /\ l \in Nat /\ l = Len(O)
    BY <1>1, <1>2, <1>5 DEF l
  <2> HIDE DEF S
  <2> QED BY <1>7, <2>1, EqualsAppend
<1>9. FlattenSeq(N) = FlattenSeq(O) \o h
  BY <1>1, <1>5, <1>8, FlattenAppend
<1>10. Read' = Read \o h
  <2> DEFINE R == FlattenSeq(results)
             F == FlattenSeq(O)
  <2>1. Read' = (R \o (F \o h)) \o <<>> /\ Read = (R \o F) \o <<>>
    BY <1>9 DEF Read, Value, N, O
  <2>2. R \in Seq(Part) /\ F \in Seq(Part) /\ h \in Seq(Part)
    BY <1>1, <1>5
  <2> DEFINE x == R \o F
             y == F \o h
             z == R \o y
             p == x \o <<>>
             q == z \o <<>>
             w == p \o h
  <2>3. p = Read /\ q = Read' /\ w = Read \o h
    BY <2>1
  <2>4. Joins(x, R, F) /\ Joins(y, F, h)
    BY <2>2, JoinTwo
  <2>5. Joins(z, R, y)
    <3>1. y \in Seq(Part)
      BY <2>4 DEF Joins
    <3> HIDE DEF y
    <3> QED BY <2>2, <3>1, JoinTwo
  <2> HIDE DEF x, y, z
  <2>6. Joins(p, x, <<>>) /\ Joins(q, z, <<>>)
    <3>1. x \in Seq(Part) /\ z \in Seq(Part) /\ <<>> \in Seq(Part)
      BY <2>4, <2>5, EmptySeq DEF Joins
    <3> QED BY <3>1, JoinTwo
  <2> HIDE DEF p, q
  <2>7. p = x /\ q = z
    BY <2>6, JoinNothing
  <2>8. Joins(w, p, h)
    <3>1. p \in Seq(Part)
      BY <2>6 DEF Joins
    <3> QED BY <2>2, <3>1, JoinTwo
  <2> HIDE DEF w
  <2>9. Joins(z, x, h)
    BY <2>4, <2>5, Regroup
  <2>10. z = w
    BY <2>7, <2>8, <2>9, JoinTwo
  <2> QED BY <2>3, <2>7, <2>10
<1>11. ASSUME Whole PROVE Whole'
  <2>1. DOMAIN O = 1 .. l /\ \A i \in 1 .. l : PartOfValue(O[i]) /\ Missing(O[i])[Len(O[i])] = arraySizes[i]
    BY <1>11, ReadType DEF Whole, O, l
  <2>2. ASSUME NEW i \in 1 .. l + 1
        PROVE  PartOfValue(N[i]) /\ Missing(N[i])[Len(N[i])] = arraySizes'[i]
    <3>1. i = l + 1 \/ i \in 1 .. l
      <4>1. l \in Nat
        BY <1>1
      <4> QED BY <4>1
    <3>2. CASE i = l + 1
      <4>1. N[i] = h /\ arraySizes'[i] = n
        BY <1>4, <1>7, <3>2
      <4> QED BY <1>5, <4>1
    <3>3. CASE i \in 1 .. l
      <4>1. N[i] = O[i] /\ arraySizes'[i] = arraySizes[i]
        BY <1>4, <1>7, <3>3
      <4> QED BY <2>1, <3>3, <4>1
    <3> QED BY <3>1, <3>2, <3>3
  <2> QED BY <1>2, <1>7, <1>11, <2>2 DEF Whole, N
<1> QED BY <1>10, <1>11 DEF h

\* A value that is returned was the value that ended.
LEMMA CompletedReads ==
    ASSUME ParserInv, Completed
    PROVE  /\ Read' = Read /\ (Whole => Whole')
           /\ Current = "Close" /\ Current' = "Start"
<1>1. /\ state = "Close" /\ states = <<>> /\ arraySizes = <<>> /\ state' = "none"
      /\ results' = Append(results, redisValue)
      /\ UNCHANGED memberVars
  BY DEF Completed, ParserInv, MembersAgree
<1>2. Current = "Close" /\ Current' = "Start" /\ Value = redisValue /\ Value' = <<>> /\ Opened' = Opened
  BY <1>1 DEF Current, memberVars, Value, Opened
<1> DEFINE R == FlattenSeq(results)
           v == redisValue
<1>3. R \in Seq(Part) /\ v \in Seq(Part) /\ results \in Seq(Seq(Part))
  BY ReadType DEF ParserInv, TypeOK
<1>4. Opened = <<>> /\ DOMAIN Opened = {}
  <2>1. Len(Opened) = 0 /\ Opened \in Seq(Seq(Part)) /\ DOMAIN Opened = 1 .. Len(Opened)
    BY <1>1, ReadType, EmptySeq
  <2> QED BY <2>1, EmptySeq
<1>5. FlattenSeq(Opened) = <<>>
  BY <1>4, FlattenNone
<1>6. FlattenSeq(results') = R \o v
  BY <1>1, <1>3, FlattenAppend
<1>7. Read = (R \o <<>>) \o v /\ Read' = ((R \o v) \o <<>>) \o <<>>
  BY <1>2, <1>5, <1>6 DEF Read
<1> HIDE DEF R, v
<1>8. R \o <<>> = R /\ (R \o v) \o <<>> = R \o v
  BY <1>3, ConcatProperties, ConcatEmptySeq
<1>9. ASSUME Whole PROVE Whole'
  <2>1. OneValue(v) /\ \A i \in 1 .. Len(results) : OneValue(results[i])
    BY <1>2, <1>3, <1>9, LenProperties DEF Whole, v
  <2>2. /\ results' \in Seq(Seq(Part)) /\ Len(results') = Len(results) + 1 /\ results'[Len(results) + 1] = v
        /\ \A i \in 1 .. Len(results) : results'[i] = results[i]
    BY <1>1, <1>3, AppendProperties DEF v
  <2>3. \A i \in 1 .. Len(results) + 1 : i = Len(results) + 1 \/ i \in 1 .. Len(results)
    BY <1>3, LenProperties
  <2>4. \A i \in 1 .. Len(results') : OneValue(results'[i])
    BY <2>1, <2>2, <2>3
  <2>5. DOMAIN results' = 1 .. Len(results')
    BY <2>2, LenProperties
  <2> QED BY <1>2, <1>4, <2>4, <2>5 DEF Whole
<1> QED BY <1>2, <1>7, <1>8, <1>9

\* The value that ended becomes an element, and the array ends with it or goes on.
LEMMA CloseReads ==
    ASSUME ParserInv, ParserInv', CloseElement, Whole
    PROVE  /\ Read' = Read /\ Whole'
           /\ Current' \in {"Close", "Start"} /\ Current = "Close"
<1> DEFINE top  == Last(arrayValues)
           more == [count |-> top.count + 1, parts |-> top.parts \o redisValue]
           n    == Last(arraySizes)
           v    == redisValue
           R    == FlattenSeq(results)
           O    == Opened
           h    == OpenOf(top, n)
           F    == FlattenSeq(Front(O))
           l    == Len(O)
<1>1. /\ state = "Close" /\ arraySizes # <<>> /\ Current = "Close" /\ Value = v
      /\ results' = results /\ states' = states /\ states = <<>>
  BY DEF CloseElement, Current, Value, ParserInv, MembersAgree
<1>2. /\ arraySizes \in Seq(Nat \ {0}) /\ arrayValues \in Seq(Open) /\ v \in Seq(Part)
      /\ Len(arraySizes) = Len(arrayValues)
  BY DEF ParserInv, TypeOK, MembersAgree
<1>3. /\ l = Len(arrayValues) /\ l = Len(arraySizes) /\ l \in Nat \ {0} /\ O \in Seq(Seq(Part)) /\ R \in Seq(Part)
      /\ \A i \in 1 .. l : O[i] = OpenOf(arrayValues[i], arraySizes[i])
      /\ DOMAIN O = 1 .. l
  BY <1>1, <1>2, ReadType, EmptySeq, LenProperties
<1>4. O # <<>> /\ arrayValues # <<>>
  BY <1>2, <1>3, EmptySeq
<1>5. top \in Open /\ n \in Nat \ {0} /\ h \in Seq(Part) /\ Last(O) = h
  <2>1. top \in Open /\ n \in Nat \ {0}
    BY <1>1, <1>2, <1>4, FrontLast
  <2>2. Last(O) = h
    BY <1>3 DEF Last
  <2> QED BY <2>1, <2>2, OpenOfType
<1>6. Front(O) \in Seq(Seq(Part)) /\ F \in Seq(Part) /\ FlattenSeq(O) = F \o h /\ Len(Front(O)) = l - 1
  <2>1. Front(O) \in Seq(Seq(Part)) /\ FlattenSeq(O) = FlattenSeq(Front(O)) \o Last(O)
    BY <1>3, <1>4, FlattenFront
  <2>2. Len(Front(O)) = l - 1
    BY <1>3, <1>4, FrontLast
  <2> QED BY <1>5, <2>1, <2>2, FlattenType
<1>7. Read = (R \o (F \o h)) \o v
  BY <1>1, <1>6 DEF Read
<1>8. /\ \A i \in 1 .. l : PartOfValue(O[i]) /\ Missing(O[i])[Len(O[i])] = arraySizes[i]
      /\ OneValue(v) /\ \A i \in DOMAIN results : OneValue(results[i])
  BY <1>1, <1>3 DEF Whole
<1>9. PartOfValue(h) /\ Missing(h)[Len(h)] = n
  <2>1. l \in 1 .. l /\ O[l] = h /\ arraySizes[l] = n
    <3>1. l \in 1 .. l /\ arraySizes[l] = n
      BY <1>3 DEF Last
    <3>2. O[l] = Last(O)
      BY DEF Last
    <3> QED BY <1>5, <3>1, <3>2
  <2> QED BY <1>8, <2>1
<1>10. \A m \in Nat : m + 1 = n => OpenOf(more, m) = h \o v
  <2> SUFFICES ASSUME NEW m \in Nat, m + 1 = n PROVE OpenOf(more, m) = h \o v
    OBVIOUS
  <2>1. top.count \in Nat /\ top.parts \in Seq(Part)
    BY <1>5 DEF Open
  <2>2. (top.count + 1) + m = top.count + n
    BY <1>5, <2>1
  <2> DEFINE a == <<Arr(top.count + n)>>
             b == top.parts
  <2>3. OpenOf(more, m) = a \o (b \o v) /\ h = a \o b
    BY <2>2 DEF OpenOf
  <2>4. a \in Seq(Part) /\ b \in Seq(Part)
    <3>1. top.count + n \in Int
      BY <1>5, <2>1
    <3> QED BY <2>1, <3>1, PartTypes, OnePart
  <2> DEFINE w == b \o v
             y == h \o v
             z == OpenOf(more, m)
  <2>5. Joins(h, a, b) /\ Joins(w, b, v)
    <3>1. Joins(a \o b, a, b) /\ Joins(b \o v, b, v)
      BY <1>2, <2>4, JoinTwo
    <3> QED BY <2>3, <3>1
  <2>6. Joins(z, a, w)
    <3>1. w \in Seq(Part) /\ z = a \o w
      BY <2>3, <2>5 DEF Joins
    <3> HIDE DEF w, z
    <3> QED BY <2>4, <3>1, JoinTwo
  <2>7. Joins(y, h, v)
    BY <1>2, <1>5, JoinTwo
  <2> HIDE DEF a, b, h, v, more, w, y, z
  <2>8. Joins(y, a, w)
    BY <2>5, <2>7, Regroup
  <2>9. z = y
    BY <2>6, <2>8, JoinTwo
  <2> QED BY <2>9 DEF y, z
<1>11. /\ h \o v \in Seq(Part) /\ Missing(h \o v)[Len(h \o v)] = n - 1
       /\ n = 1 => OneValue(h \o v)
       /\ n # 1 => PartOfValue(h \o v)
  <2> HIDE DEF h, v, n
  <2> QED BY <1>2, <1>5, <1>8, <1>9, MoreValues
<1>12. /\ Opened' \in Seq(Seq(Part)) /\ DOMAIN Opened' = 1 .. Len(Opened') /\ Len(Opened') = Len(arrayValues')
       /\ \A i \in 1 .. Len(Opened') : Opened'[i] = OpenOf(arrayValues'[i], arraySizes'[i])
  BY ReadTypeNext
<1>13. /\ \A i \in 1 .. l - 1 : Front(O)[i] = O[i]
       /\ \A i \in 1 .. l - 1 : Front(arrayValues)[i] = arrayValues[i] /\ Front(arraySizes)[i] = arraySizes[i]
       /\ Front(arrayValues) \in Seq(Open) /\ Front(arraySizes) \in Seq(Nat \ {0})
       /\ Len(Front(arrayValues)) = l - 1 /\ Len(Front(arraySizes)) = l - 1
  <2>1. l - 1 \in 0 .. Len(O) /\ l - 1 \in 0 .. Len(arrayValues) /\ l - 1 \in 0 .. Len(arraySizes)
    BY <1>3
  <2> QED BY <1>2, <1>3, <2>1, PrefixProperties DEF Front
<1> HIDE DEF top, more, n, v, R, O, h, F, l
<1>14. R \in Seq(Part) /\ F \in Seq(Part) /\ h \in Seq(Part) /\ v \in Seq(Part)
  BY <1>2, <1>3, <1>5, <1>6
<1>15. \A a, w : Joins(a, R, F) /\ Joins(w, h, v) => Joins(Read, a, w)
  <2> DEFINE b == F \o h
             d == R \o b
             z == d \o v
  <2>1. Joins(b, F, h) /\ z = Read
    BY <1>7, <1>14, JoinTwo
  <2>2. Joins(d, R, b)
    <3>1. b \in Seq(Part)
      BY <2>1 DEF Joins
    <3> HIDE DEF b
    <3> QED BY <1>14, <3>1, JoinTwo
  <2> HIDE DEF b
  <2>3. Joins(z, d, v)
    <3>1. d \in Seq(Part)
      BY <2>2 DEF Joins
    <3> HIDE DEF d
    <3> QED BY <1>14, <3>1, JoinTwo
  <2> HIDE DEF d, z
  <2>4. ASSUME NEW a, NEW w, Joins(a, R, F), Joins(w, h, v) PROVE Joins(z, a, w)
    <3>1. Joins(d, a, h)
      BY <2>1, <2>2, <2>4, Regroup
    <3> QED BY <2>3, <2>4, <3>1, Regroup
  <2> QED BY <2>1, <2>4
<1>16. CASE LastElement
  <2>1. /\ n = 1 /\ arraySizes' = Front(arraySizes) /\ arrayValues' = Front(arrayValues)
        /\ redisValue' = OpenOf(more, 0) /\ state' = "Close"
    <3>1. /\ n = 1 /\ arraySizes' = Front(arraySizes) /\ arrayValues' = Front(arrayValues)
          /\ redisValue' = <<Arr(more.count)>> \o more.parts /\ state' = state
      BY <1>16 DEF CloseElement, LastElement, top, more, n
    <3>2. OpenOf(more, 0) = <<Arr(more.count)>> \o more.parts
      <4>1. more.count \in Nat
        BY <1>5 DEF more, Open
      <4>2. more.count + 0 = more.count
        BY <4>1
      <4> QED BY <4>2 DEF OpenOf
    <3> QED BY <1>1, <3>1, <3>2
  <2>2. redisValue' = h \o v /\ Current' = "Close" /\ Value' = h \o v
    BY <1>10, <2>1 DEF Current, Value
  <2>3. Opened' = Front(O)
    <3>1. Len(Opened') = l - 1 /\ Len(Front(O)) = l - 1 /\ l - 1 \in Nat
      BY <1>3, <1>6, <1>12, <1>13, <2>1
    <3>2. \A i \in 1 .. l - 1 : i \in 1 .. l
      BY <1>3
    <3>3. \A i \in 1 .. l - 1 : Opened'[i] = Front(O)[i]
      BY <1>3, <1>12, <1>13, <2>1, <3>1, <3>2
    <3> QED BY <1>6, <1>12, <3>1, <3>3, SeqEqual
  <2>4. Read' = (R \o F) \o (h \o v)
    BY <1>1, <2>2, <2>3 DEF Read, R, F
  <2>5. Read' = Read
    <3> DEFINE w == h \o v
               a == R \o F
               z == a \o w
    <3>1. Joins(w, h, v) /\ Joins(a, R, F) /\ z = Read'
      BY <1>14, <2>4, JoinTwo
    <3>2. Joins(z, a, w)
      <4>1. a \in Seq(Part) /\ w \in Seq(Part)
        BY <3>1 DEF Joins
      <4> HIDE DEF a, w
      <4> QED BY <4>1, JoinTwo
    <3> HIDE DEF w, a, z
    <3> QED BY <1>15, <3>1, <3>2, Regroup, JoinTwo
  <2>6. Whole'
    <3>1. \A i \in 1 .. l - 1 : PartOfValue(Opened'[i]) /\ Missing(Opened'[i])[Len(Opened'[i])] = arraySizes'[i]
      <4>1. \A i \in 1 .. l - 1 : i \in 1 .. l
        BY <1>3
      <4> QED BY <1>8, <1>13, <2>1, <2>3, <4>1
    <3>2. DOMAIN Opened' = 1 .. l - 1
      BY <1>6, <1>12, <2>3
    <3> QED BY <1>1, <1>8, <1>11, <2>1, <2>2, <3>1, <3>2 DEF Whole
  <2> QED BY <1>1, <2>2, <2>5, <2>6
<1>17. CASE ~LastElement
  <2> DEFINE m == n - 1
  <2>1. /\ n # 1 /\ m \in Nat \ {0} /\ m + 1 = n
        /\ arraySizes' = Append(Front(arraySizes), m)
        /\ arrayValues' = Append(Front(arrayValues), more)
        /\ state' = "Start"
    <3>1. /\ arraySizes' = Append(Front(arraySizes), n - 1)
          /\ arrayValues' = Append(Front(arrayValues), more)
          /\ state' = "Start"
      BY <1>17 DEF CloseElement, top, more, n
    <3>2. n # 1
      BY <1>17 DEF LastElement, n
    <3>3. m \in Nat \ {0} /\ m + 1 = n
      BY <1>5, <3>2
    <3> QED BY <3>1, <3>2, <3>3
  <2> HIDE DEF m
  <2>2. Current' = "Start" /\ Value' = <<>>
    BY <2>1 DEF Current, Value
  <2>3. more \in Open
    BY <1>2, <1>5, ConcatProperties DEF more, v, Open
  <2>4. /\ Len(arrayValues') = l /\ arrayValues'[l] = more /\ arraySizes'[l] = m
        /\ \A i \in 1 .. l - 1 : arrayValues'[i] = arrayValues[i] /\ arraySizes'[i] = arraySizes[i]
    <3>1. (l - 1) + 1 = l
      BY <1>3
    <3>2. /\ Len(arrayValues') = Len(Front(arrayValues)) + 1 /\ arrayValues'[Len(Front(arrayValues)) + 1] = more
          /\ \A i \in 1 .. Len(Front(arrayValues)) : arrayValues'[i] = Front(arrayValues)[i]
      BY <1>13, <2>1, <2>3, AppendProperties
    <3>3. /\ arraySizes'[Len(Front(arraySizes)) + 1] = m
          /\ \A i \in 1 .. Len(Front(arraySizes)) : arraySizes'[i] = Front(arraySizes)[i]
      BY <1>13, <2>1, AppendProperties
    <3> QED BY <1>13, <3>1, <3>2, <3>3
  <2>5. Len(Opened') = l /\ Opened'[l] = h \o v /\ \A i \in 1 .. l - 1 : Opened'[i] = O[i]
    <3>1. l \in 1 .. l /\ \A i \in 1 .. l - 1 : i \in 1 .. l
      BY <1>3
    <3>2. OpenOf(more, m) = h \o v
      BY <1>10, <2>1
    <3> QED BY <1>3, <1>12, <2>4, <3>1, <3>2
  <2>6. Opened' = Append(Front(O), h \o v)
    <3> DEFINE S == Seq(Part)
               w == h \o v
               s == Front(O)
               p == Opened'
               k == l - 1
    <3>1. s \in Seq(S) /\ p \in Seq(S) /\ w \in S /\ k \in Nat /\ k = Len(s) /\ k + 1 = l
      BY <1>3, <1>6, <1>11, <1>12
    <3>2. Len(p) = k + 1 /\ p[k + 1] = w /\ \A i \in 1 .. k : p[i] = s[i]
      BY <1>13, <2>5, <3>1
    <3> HIDE DEF S, w, s, p, k
    <3>3. p = Append(s, w)
      BY <3>1, <3>2, EqualsAppend
    <3> QED BY <3>3 DEF p, s, w
  <2>7. FlattenSeq(Opened') = F \o (h \o v)
    <3> DEFINE w == h \o v
    <3>1. w \in Seq(Part)
      BY <1>11
    <3> HIDE DEF w
    <3>2. FlattenSeq(Append(Front(O), w)) = FlattenSeq(Front(O)) \o w
      BY <1>6, <3>1, FlattenAppend
    <3> QED BY <2>6, <3>2 DEF w, F
  <2>8. Read' = (R \o (F \o (h \o v))) \o <<>>
    BY <1>1, <2>2, <2>7 DEF Read, R
  <2>9. Read' = Read
    <3> DEFINE w == h \o v
               e == F \o w
               g == R \o e
               z == g \o <<>>
    <3>1. Joins(w, h, v) /\ z = Read'
      BY <1>14, <2>8, JoinTwo
    <3>2. Joins(e, F, w)
      <4>1. w \in Seq(Part)
        BY <3>1 DEF Joins
      <4> HIDE DEF w
      <4> QED BY <1>14, <4>1, JoinTwo
    <3> HIDE DEF w
    <3>3. Joins(g, R, e)
      <4>1. e \in Seq(Part)
        BY <3>2 DEF Joins
      <4> HIDE DEF e
      <4> QED BY <1>14, <4>1, JoinTwo
    <3> HIDE DEF e
    <3>4. Joins(z, g, <<>>)
      <4>1. g \in Seq(Part) /\ <<>> \in Seq(Part)
        BY <3>3, EmptySeq DEF Joins
      <4> HIDE DEF g
      <4> QED BY <4>1, JoinTwo
    <3> HIDE DEF g, z
    <3>5. z = g
      BY <3>4, JoinNothing
    <3>6. PICK a : Joins(a, R, F)
      BY <1>14, JoinTwo
    <3>7. Joins(g, a, w)
      BY <3>2, <3>3, <3>6, Regroup
    <3> QED BY <1>15, <3>1, <3>5, <3>6, <3>7, Regroup, JoinTwo
  <2>10. Whole'
    <3>1. \A i \in 1 .. l : PartOfValue(Opened'[i]) /\ Missing(Opened'[i])[Len(Opened'[i])] = arraySizes'[i]
      <4>1. \A i \in 1 .. l : i = l \/ (i \in 1 .. l - 1 /\ i \in 1 .. l)
        BY <1>3
      <4>2. n - 1 = m
        BY DEF m
      <4> QED BY <1>8, <1>11, <2>1, <2>4, <2>5, <4>1, <4>2
    <3> QED BY <1>1, <1>8, <1>12, <2>2, <2>5, <3>1 DEF Whole
  <2> QED BY <1>1, <2>2, <2>9, <2>10
<1> QED BY <1>16, <1>17

-----------------------------------------------------------------------------
(* The messages of a conversation, end to end in the stream.               *)

\* The fields of a sequence of messages.
Fields(ms) == /\ [i \in DOMAIN ms |-> ms[i].bytes] \in Seq(Seq(Byte))
              /\ [i \in DOMAIN ms |-> ms[i].parts] \in Seq(Seq(Part))
              /\ Len([i \in DOMAIN ms |-> ms[i].bytes]) = Len(ms)
              /\ Len([i \in DOMAIN ms |-> ms[i].parts]) = Len(ms)

\* The fields of messages are sequences of their type.
LEMMA FieldsType == ASSUME NEW ms \in Seq(MessageType) PROVE Fields(ms) /\ Len(ms) \in Nat /\ DOMAIN ms = 1 .. Len(ms)
<1>1. Len(ms) \in Nat /\ DOMAIN ms = 1 .. Len(ms) /\ \A i \in 1 .. Len(ms) : ms[i] \in MessageType
  BY LenProperties, ElementOfSeq
<1>2. [i \in DOMAIN ms |-> ms[i].bytes] \in [1 .. Len(ms) -> Seq(Byte)]
  BY <1>1 DEF MessageType
<1>3. [i \in DOMAIN ms |-> ms[i].parts] \in [1 .. Len(ms) -> Seq(Part)]
  BY <1>1 DEF MessageType
<1>4. [i \in DOMAIN ms |-> ms[i].bytes] \in Seq(Seq(Byte)) /\ Len([i \in DOMAIN ms |-> ms[i].bytes]) = Len(ms)
  BY <1>1, <1>2, SequenceOf
<1>5. [i \in DOMAIN ms |-> ms[i].parts] \in Seq(Seq(Part)) /\ Len([i \in DOMAIN ms |-> ms[i].parts]) = Len(ms)
  BY <1>1, <1>3, SequenceOf
<1> QED BY <1>1, <1>4, <1>5 DEF Fields

\* The first k messages have the first k fields.
LEMMA FirstFields ==
    ASSUME NEW ms \in Seq(MessageType), NEW k \in 0 .. Len(ms)
    PROVE  /\ BytesOf(SubSeq(ms, 1, k)) = FlattenSeq(SubSeq([i \in DOMAIN ms |-> ms[i].bytes], 1, k))
           /\ PartsOf(SubSeq(ms, 1, k)) = FlattenSeq(SubSeq([i \in DOMAIN ms |-> ms[i].parts], 1, k))
<1> DEFINE p  == SubSeq(ms, 1, k)
           bs == [i \in DOMAIN ms |-> ms[i].bytes]
           ps == [i \in DOMAIN ms |-> ms[i].parts]
           pb == [i \in DOMAIN p |-> p[i].bytes]
           pp == [i \in DOMAIN p |-> p[i].parts]
<1>1. /\ p \in Seq(MessageType) /\ Len(p) = k /\ \A i \in 1 .. k : p[i] = ms[i]
  BY PrefixProperties
<1>2. /\ bs \in Seq(Seq(Byte)) /\ ps \in Seq(Seq(Part)) /\ Len(bs) = Len(ms) /\ Len(ps) = Len(ms)
      /\ DOMAIN ms = 1 .. Len(ms) /\ Len(ms) \in Nat
  BY FieldsType DEF Fields
<1> HIDE DEF p
<1>3. pb \in Seq(Seq(Byte)) /\ pp \in Seq(Seq(Part)) /\ Len(pb) = k /\ Len(pp) = k /\ DOMAIN p = 1 .. k
  BY <1>1, FieldsType DEF Fields
<1>4. \A i \in 1 .. k : i \in 1 .. Len(ms)
  BY <1>2
<1>5. \A i \in 1 .. k : pb[i] = ms[i].bytes /\ pp[i] = ms[i].parts
  BY <1>1, <1>3
<1>6. \A i \in 1 .. k : bs[i] = ms[i].bytes /\ ps[i] = ms[i].parts
  BY <1>2, <1>4
<1> HIDE DEF bs, ps, pb, pp
<1>7. k \in 0 .. Len(bs) /\ k \in 0 .. Len(ps)
  BY <1>2
<1>8. pb = SubSeq(bs, 1, k)
  <2> DEFINE S == Seq(Byte)
  <2>1. bs \in Seq(S) /\ pb \in Seq(S) /\ \A i \in 1 .. k : pb[i] = bs[i]
    BY <1>2, <1>3, <1>5, <1>6
  <2> HIDE DEF S
  <2> QED BY <1>3, <1>7, <2>1, SamePrefix
<1>9. pp = SubSeq(ps, 1, k)
  <2> DEFINE S == Seq(Part)
  <2>1. ps \in Seq(S) /\ pp \in Seq(S) /\ \A i \in 1 .. k : pp[i] = ps[i]
    BY <1>2, <1>3, <1>5, <1>6
  <2> HIDE DEF S
  <2> QED BY <1>3, <1>7, <2>1, SamePrefix
<1> QED BY <1>8, <1>9 DEF BytesOf, PartsOf, pb, pp, p, bs, ps

\* One message more, and the beginning of all.
LEMMA OneMessage ==
    ASSUME NEW ms \in Seq(MessageType), NEW k \in 0 .. Len(ms)
    PROVE  /\ BytesOf(SubSeq(ms, 1, k)) \in Seq(Byte) /\ PartsOf(SubSeq(ms, 1, k)) \in Seq(Part)
           /\ k # Len(ms) =>
                 /\ k + 1 \in 0 .. Len(ms) /\ ms[k + 1] \in MessageType
                 /\ BytesOf(SubSeq(ms, 1, k + 1)) = BytesOf(SubSeq(ms, 1, k)) \o ms[k + 1].bytes
                 /\ PartsOf(SubSeq(ms, 1, k + 1)) = PartsOf(SubSeq(ms, 1, k)) \o ms[k + 1].parts
           /\ \E t \in Seq(Byte) : BytesOf(ms) = BytesOf(SubSeq(ms, 1, k)) \o t
           /\ \E t \in Seq(Part) : PartsOf(ms) = PartsOf(SubSeq(ms, 1, k)) \o t
<1> DEFINE bs == [i \in DOMAIN ms |-> ms[i].bytes]
           ps == [i \in DOMAIN ms |-> ms[i].parts]
<1>1. /\ bs \in Seq(Seq(Byte)) /\ ps \in Seq(Seq(Part)) /\ Len(bs) = Len(ms) /\ Len(ps) = Len(ms)
      /\ DOMAIN ms = 1 .. Len(ms) /\ Len(ms) \in Nat
  BY FieldsType DEF Fields
<1>2. \A i \in 1 .. Len(ms) : bs[i] = ms[i].bytes /\ ps[i] = ms[i].parts
  BY <1>1
<1>3. \A j \in 0 .. Len(ms) : /\ BytesOf(SubSeq(ms, 1, j)) = FlattenSeq(SubSeq(bs, 1, j))
                              /\ PartsOf(SubSeq(ms, 1, j)) = FlattenSeq(SubSeq(ps, 1, j))
  BY FirstFields
<1>4. BytesOf(ms) = FlattenSeq(bs) /\ PartsOf(ms) = FlattenSeq(ps)
  BY DEF BytesOf, PartsOf
<1> HIDE DEF bs, ps
<1>5. k \in 0 .. Len(bs) /\ k \in 0 .. Len(ps)
  BY <1>1
<1>6. FlattenSeq(SubSeq(bs, 1, k)) \in Seq(Byte) /\ FlattenSeq(SubSeq(ps, 1, k)) \in Seq(Part)
  <2>1. SubSeq(bs, 1, k) \in Seq(Seq(Byte)) /\ SubSeq(ps, 1, k) \in Seq(Seq(Part))
    BY <1>1, <1>5, PrefixProperties
  <2> QED BY <2>1, FlattenType
<1>7. ASSUME k # Len(ms)
      PROVE  /\ k + 1 \in 0 .. Len(ms) /\ ms[k + 1] \in MessageType
             /\ BytesOf(SubSeq(ms, 1, k + 1)) = BytesOf(SubSeq(ms, 1, k)) \o ms[k + 1].bytes
             /\ PartsOf(SubSeq(ms, 1, k + 1)) = PartsOf(SubSeq(ms, 1, k)) \o ms[k + 1].parts
  <2>1. k + 1 \in 0 .. Len(ms) /\ k + 1 \in 1 .. Len(ms) /\ k # Len(bs) /\ k # Len(ps)
    BY <1>1, <1>7
  <2>2. FlattenSeq(SubSeq(bs, 1, k + 1)) = FlattenSeq(SubSeq(bs, 1, k)) \o bs[k + 1]
    BY <1>1, <1>5, <2>1, FlattenStep
  <2>3. FlattenSeq(SubSeq(ps, 1, k + 1)) = FlattenSeq(SubSeq(ps, 1, k)) \o ps[k + 1]
    BY <1>1, <1>5, <2>1, FlattenStep
  <2>4. ms[k + 1] \in MessageType
    BY <2>1, ElementOfSeq
  <2> QED BY <1>2, <1>3, <2>1, <2>2, <2>3, <2>4
<1>8. \E t \in Seq(Byte) : FlattenSeq(bs) = FlattenSeq(SubSeq(bs, 1, k)) \o t
  BY <1>1, <1>5, FlattenPrefix
<1>9. \E t \in Seq(Part) : FlattenSeq(ps) = FlattenSeq(SubSeq(ps, 1, k)) \o t
  BY <1>1, <1>5, FlattenPrefix
<1> QED BY <1>3, <1>4, <1>6, <1>7, <1>8, <1>9

LEMMA NoMessage ==
    ASSUME NEW ms \in Seq(MessageType)
    PROVE  /\ BytesOf(SubSeq(ms, 1, 0)) = <<>> /\ PartsOf(SubSeq(ms, 1, 0)) = <<>>
           /\ BytesOf(SubSeq(ms, 1, Len(ms))) = BytesOf(ms)
<1>1. 0 \in 0 .. Len(ms)
  BY LenProperties
<1>2. SubSeq(ms, 1, Len(ms)) = ms
  BY SubSeqFull
<1>3. \A s : SubSeq(s, 1, 0) = <<>>
  BY SubSeqEmpty
<1>4. FlattenSeq(SubSeq([i \in DOMAIN ms |-> ms[i].bytes], 1, 0)) = <<>>
  BY <1>3, FlattenNone
<1>5. FlattenSeq(SubSeq([i \in DOMAIN ms |-> ms[i].parts], 1, 0)) = <<>>
  BY <1>3, FlattenNone
<1> QED BY <1>1, <1>2, <1>4, <1>5, FirstFields

\* Where the messages lie in the stream.
LEMMA EndsType ==
    ASSUME sent \in Seq(MessageType), NEW k \in 0 .. Len(sent)
    PROVE  EndOf(k) \in Nat
<1>1. BytesOf(SubSeq(sent, 1, k)) \in Seq(Byte)
  BY OneMessage
<1> QED BY <1>1, LenProperties DEF EndOf

LEMMA EndsNext ==
    ASSUME sent \in Seq(MessageType), NEW k \in 0 .. Len(sent), k # Len(sent)
    PROVE  /\ sent[k + 1] \in MessageType /\ Len(sent[k + 1].bytes) \in Nat
           /\ EndOf(k + 1) = EndOf(k) + Len(sent[k + 1].bytes)
           /\ EndOf(k + 1) <= Len(stream)
           /\ \A i \in 1 .. Len(sent[k + 1].bytes) : stream[EndOf(k) + i] = sent[k + 1].bytes[i]
<1> DEFINE P == BytesOf(SubSeq(sent, 1, k))
           b == sent[k + 1].bytes
           Q == BytesOf(SubSeq(sent, 1, k + 1))
<1>1. /\ k + 1 \in 0 .. Len(sent) /\ sent[k + 1] \in MessageType
      /\ P \in Seq(Byte) /\ Q = P \o b
  BY OneMessage
<1>2. b \in Seq(Byte)
  BY <1>1 DEF MessageType
<1>3. PICK t \in Seq(Byte) : BytesOf(sent) = Q \o t
  BY <1>1, OneMessage
<1>4. EndOf(k) = Len(P) /\ EndOf(k + 1) = Len(Q) /\ stream = Q \o t
  BY <1>3 DEF EndOf, stream
<1> HIDE DEF P, b, Q
<1>5. /\ Q \in Seq(Byte) /\ Len(Q) = Len(P) + Len(b) /\ Len(P) \in Nat /\ Len(b) \in Nat /\ Len(t) \in Nat
      /\ \A i \in 1 .. Len(P) + Len(b) : Q[i] = IF i <= Len(P) THEN P[i] ELSE b[i - Len(P)]
  <2>1. /\ P \o b \in Seq(Byte) /\ Len(P \o b) = Len(P) + Len(b)
        /\ \A i \in 1 .. Len(P) + Len(b) : (P \o b)[i] = IF i <= Len(P) THEN P[i] ELSE b[i - Len(P)]
    BY <1>1, <1>2, ConcatProperties
  <2>2. Len(P) \in Nat /\ Len(b) \in Nat /\ Len(t) \in Nat
    BY <1>1, <1>2, LenProperties
  <2> QED BY <1>1, <2>1, <2>2
<1>6. /\ Len(stream) = Len(Q) + Len(t)
      /\ \A i \in 1 .. Len(Q) + Len(t) : stream[i] = IF i <= Len(Q) THEN Q[i] ELSE t[i - Len(Q)]
  BY <1>4, <1>5, ConcatProperties
<1>7. ASSUME NEW i \in 1 .. Len(b) PROVE stream[Len(P) + i] = b[i]
  <2>1. /\ Len(P) + i \in 1 .. Len(P) + Len(b) /\ Len(P) + i \in 1 .. Len(Q) + Len(t)
        /\ Len(P) + i <= Len(Q) /\ ~(Len(P) + i <= Len(P)) /\ (Len(P) + i) - Len(P) = i
    BY <1>5
  <2>2. stream[Len(P) + i] = Q[Len(P) + i]
    BY <1>6, <2>1
  <2>3. Q[Len(P) + i] = b[(Len(P) + i) - Len(P)]
    BY <1>5, <2>1
  <2> QED BY <2>1, <2>2, <2>3
<1>8. Len(Q) <= Len(stream)
  BY <1>5, <1>6
<1> QED BY <1>1, <1>4, <1>5, <1>7, <1>8 DEF b

LEMMA EndsBorder ==
    ASSUME sent \in Seq(MessageType)
    PROVE  EndOf(0) = 0 /\ EndOf(Len(sent)) = Len(stream) /\ Len(sent) \in Nat /\ stream \in Seq(Byte)
<1>1. BytesOf(SubSeq(sent, 1, 0)) = <<>> /\ BytesOf(SubSeq(sent, 1, Len(sent))) = BytesOf(sent)
  BY NoMessage
<1>2. Len(sent) \in Nat
  BY LenProperties
<1>3. stream \in Seq(Byte)
  <2>1. Len(sent) \in 0 .. Len(sent)
    BY <1>2
  <2> QED BY <1>1, <2>1, OneMessage DEF stream
<1>4. Len(<<>>) = 0
  BY EmptySeq
<1> QED BY <1>1, <1>2, <1>3, <1>4 DEF EndOf, stream

\* No message is empty, so that each ends later than the ones before it.
LEMMA EndsGrow ==
    ASSUME sent \in Seq(MessageType), \A i \in 1 .. Len(sent) : Len(sent[i].bytes) > 0,
           NEW j \in 0 .. Len(sent), NEW k \in 0 .. Len(sent), j < k
    PROVE  EndOf(j) < EndOf(k)
<1> DEFINE T == {i \in 0 .. Len(sent) : j < i => EndOf(j) < EndOf(i)}
<1>1. Len(sent) \in Nat /\ \A i \in 0 .. Len(sent) : EndOf(i) \in Nat
  BY EndsBorder, EndsType
<1>2. 0 \in T
  BY <1>1
<1>3. ASSUME NEW i \in 0 .. Len(sent), i # Len(sent), i \in T PROVE i + 1 \in T
  <2>1. EndOf(i + 1) = EndOf(i) + Len(sent[i + 1].bytes) /\ Len(sent[i + 1].bytes) \in Nat
    BY <1>3, EndsNext
  <2>2. i + 1 \in 1 .. Len(sent) /\ i + 1 \in 0 .. Len(sent)
    BY <1>1, <1>3
  <2>3. Len(sent[i + 1].bytes) > 0
    BY <2>2
  <2>4. EndOf(i) < EndOf(i + 1)
    BY <1>1, <2>1, <2>3
  <2>5. j < i + 1 => j < i \/ j = i
    BY <1>1
  <2>6. EndOf(j) \in Nat /\ EndOf(i) \in Nat /\ EndOf(i + 1) \in Nat
    BY <1>1, <2>2
  <2> QED BY <1>3, <2>2, <2>4, <2>5, <2>6
<1>4. k \in T
  <2> HIDE DEF T
  <2> QED BY <1>1, <1>2, <1>3, CountUp
<1> QED BY <1>4

LEMMA ReadSoFarIs ==
    ASSUME sent \in Seq(MessageType), \A i \in 1 .. Len(sent) : Len(sent[i].bytes) > 0,
           position \in Nat, NEW k \in 0 .. Len(sent),
           EndOf(k) <= position, k # Len(sent) => position < EndOf(k + 1)
    PROVE  ReadSoFar = k
<1> DEFINE Is(j) == EndOf(j) <= position /\ (j < Len(sent) => position < EndOf(j + 1))
<1>1. Len(sent) \in Nat /\ \A i \in 0 .. Len(sent) : EndOf(i) \in Nat
  BY EndsBorder, EndsType
<1>2. Is(k)
  BY <1>1
<1>3. ASSUME NEW j \in 0 .. Len(sent), Is(j), j # k PROVE FALSE
  <2>1. CASE j < k
    <3>1. j + 1 \in 0 .. Len(sent) /\ j < Len(sent) /\ (j + 1 < k \/ j + 1 = k)
      BY <1>1, <2>1
    <3>2. EndOf(j + 1) <= EndOf(k)
      BY <1>1, <3>1, EndsGrow
    <3> QED BY <1>1, <1>3, <3>1, <3>2
  <2>2. CASE k < j
    <3>1. k + 1 \in 0 .. Len(sent) /\ k # Len(sent) /\ (k + 1 < j \/ k + 1 = j)
      BY <1>1, <2>2
    <3>2. EndOf(k + 1) <= EndOf(j)
      BY <1>1, <3>1, EndsGrow
    <3> QED BY <1>1, <1>3, <3>1, <3>2
  <2> QED BY <1>1, <1>3, <2>1, <2>2
<1>4. ReadSoFar = CHOOSE j \in 0 .. Len(sent) : Is(j)
  BY DEF ReadSoFar
<1> HIDE DEF Is
<1> QED BY <1>2, <1>3, <1>4

-----------------------------------------------------------------------------
(* The messages as the parser takes them, by the characters that           *)
(* parseChunk tests for, and that the undisputed messages of RESP are      *)
(* among them.                                                             *)

Takeable(t) == IF t \in Numbers THEN Digit \cup {"-"} ELSE Byte \ {"CR", "LF", "NUL", "HI"}
Takes(m, e) == m.bytes[1] \in Types /\ \A i \in 2 .. e : m.bytes[i] \in Takeable(m.bytes[1])
Offers(m, e) ==
    LET type == m.bytes[1]
        n    == BufToLong(Text(m, e))
    IN  /\ type = "+" => Means(m, e + 2, Str(Text(m, e)))
        /\ type = "-" => Means(m, e + 2, Err(Text(m, e)))
        /\ type = ":" => Means(m, e + 2, Num(n))
        /\ type \in {"$", "*"} => /\ n < -1 => Breaks(m, e + 2)
                                  /\ n = -1 => Means(m, e + 2, Nil)
        /\ type = "*" /\ n >= 0 => Means(m, e + 2, Arr(n))
        /\ type = "$" /\ n >= 0 => Bulk(m, e, n)
TakesOn(m, e) ==
    LET mayEnd == m.bytes[1] \in Numbers => e > 1
    IN  \/ /\ Breaks(m, e + 1) /\ m.bytes[e + 1] \notin Takeable(m.bytes[1])
           /\ mayEnd => m.bytes[e + 1] # "CR"
        \/ /\ mayEnd /\ m.bytes[e + 1] = "CR" /\ Len(m.bytes) >= e + 2
           /\ \/ Breaks(m, e + 2) /\ m.bytes[e + 2] # "LF"
              \/ m.bytes[e + 2] = "LF" /\ Offers(m, e)
IsRead(m) ==
    \/ Breaks(m, 1) /\ m.bytes[1] \notin Types
    \/ \E e \in 1 .. Len(m.bytes) - 1 : Takes(m, e) /\ TakesOn(m, e)

\* A byte of a first line is one that the parser takes there: no control character or
\* byte outside ASCII in a text, no plus in a number.
LEMMA LineIsTaken ==
    ASSUME NEW m \in MessageType, Undisputed(m), NEW e \in 1 .. Len(m.bytes) - 1, Begins(m, e)
    PROVE  Takes(m, e) /\ (m.bytes[1] \in Numbers /\ e > 1 => m.bytes[2] # "+")
<1> DEFINE b == m.bytes
           t == b[1]
<1>1. b \in Seq(Byte) /\ Len(b) \in Nat /\ t \in Types
  BY LenProperties DEF MessageType, Begins
<1>2. ASSUME NEW i \in 2 .. e
      PROVE  /\ i \in Nat /\ i - 1 \in 1 .. Len(b) - 1 /\ b[(i - 1) + 1] = b[i] /\ b[i] \in Byte
             /\ b[i] \in LineByte(t, i) /\ ~Disputed(m, i - 1)
  <2>1. i \in 1 .. Len(b) /\ i \in Nat /\ i - 1 \in 1 .. Len(b) - 1 /\ (i - 1) + 1 = i
    BY <1>1
  <2>2. \A j \in 2 .. i - 1 : j \in 2 .. e
    BY <1>1, <2>1
  <2>3. Begins(m, i - 1)
    BY <2>2 DEF Begins
  <2>4. ~Disputed(m, i - 1)
    BY <2>1, <2>3 DEF Undisputed
  <2>5. b[i] \in Byte
    BY <1>1, <2>1, ElementOfSeq
  <2>6. b[i] \in LineByte(t, i)
    BY DEF Begins
  <2> QED BY <2>1, <2>4, <2>5, <2>6
<1>3. ASSUME e > 1, t \in Numbers PROVE b[2] # "+"
  <2>1. 2 \in 2 .. e
    BY <1>1, <1>3
  <2>2. b[2] \in LineByte(t, 2) /\ ~Disputed(m, 2 - 1) /\ 2 - 1 = 1 /\ b[1 + 1] = b[2]
    BY <1>2, <2>1
  <2>3. CASE t = ":"
    BY <1>3, <2>2, <2>3 DEF Disputed
  <2>4. CASE t # ":"
    <3>1. b[2] \in Digit \cup {"-"}
      BY <1>3, <2>2, <2>4 DEF LineByte, Sign
    <3> QED BY <3>1 DEF Digit, Digits
  <2> QED BY <2>3, <2>4
<1>4. ASSUME NEW i \in 2 .. e PROVE b[i] \in Takeable(t)
  <2>1. CASE t \notin Numbers
    <3>1. b[i] \notin {"CR", "LF"}
      BY <1>2, <2>1 DEF LineByte
    <3>2. b[i] \notin {"NUL", "HI"}
      BY <1>2, <2>1 DEF Disputed
    <3> QED BY <1>2, <2>1, <3>1, <3>2 DEF Takeable
  <2>2. CASE t \in Numbers /\ i = 2
    <3>1. e > 1
      BY <1>1, <2>2
    <3>2. b[2] # "+"
      BY <1>3, <2>2, <3>1
    <3>3. b[i] \in Digit \cup {"-", "+"}
      BY <1>2, <2>2 DEF LineByte, Sign
    <3> QED BY <2>2, <3>2, <3>3 DEF Takeable
  <2>3. CASE t \in Numbers /\ i # 2
    BY <1>2, <2>3 DEF LineByte, Takeable
  <2> QED BY <2>1, <2>2, <2>3
<1>5. Takes(m, e)
  BY <1>1, <1>4 DEF Takes
<1> QED BY <1>3, <1>5 DEF b, t

\* After the line the parser goes on with an undisputed message, or gives it up, where RESP does.
LEMMA MessageIsRead ==
    ASSUME NEW m \in MessageType, IsMessage(m), Undisputed(m)
    PROVE  IsRead(m)
<1> DEFINE b == m.bytes
           t == b[1]
<1>1. b \in Seq(Byte) /\ Len(b) \in Nat
  BY LenProperties DEF MessageType
<1>2. CASE Breaks(m, 1) /\ b[1] \notin Types
  BY <1>2 DEF IsRead
<1>3. ASSUME NEW e \in 1 .. Len(b) - 1, Begins(m, e), GoesOn(m, e) PROVE IsRead(m)
  <2> DEFINE next == b[e + 1]
  <2>1. Takes(m, e) /\ (t \in Numbers /\ e > 1 => b[2] # "+") /\ ~Disputed(m, e)
    BY <1>3, LineIsTaken DEF Undisputed
  <2>2. e \in Nat /\ e >= 1 /\ e + 1 \in 1 .. Len(b) /\ next \in Byte /\ t \in Types
    <3>1. e \in Nat /\ e >= 1 /\ e + 1 \in 1 .. Len(b)
      BY <1>1
    <3>2. next \in Byte
      BY <1>1, <3>1, ElementOfSeq
    <3> QED BY <1>3, <3>1, <3>2 DEF Begins
  <2>3. MayEnd(m, e) => (t \in Numbers => e > 1)
    <3>1. t \notin Digit
      BY <2>2 DEF Types, Digit, Digits
    <3>2. t \in Numbers /\ MayEnd(m, e) => b[e] \in Digit
      BY DEF MayEnd
    <3>3. t \in Numbers /\ MayEnd(m, e) => e # 1
      BY <3>1, <3>2
    <3> QED BY <2>2, <3>3
  <2>4. CASE Breaks(m, e + 1) /\ next \notin LineByte(t, e + 1) /\ (MayEnd(m, e) => next # "CR")
    <3>1. CASE t \notin Numbers
      <4>1. next \in {"CR", "LF"}
        BY <2>2, <2>4, <3>1 DEF LineByte
      <4>2. next # "CR"
        BY <2>4, <3>1 DEF MayEnd
      <4> QED BY <1>3, <2>1, <2>4, <3>1, <4>1, <4>2 DEF IsRead, TakesOn, Takeable
    <3>2. CASE t \in Numbers
      <4>1. next \notin Digit
        BY <2>4, <3>2 DEF LineByte
      <4>2. next # "-"
        <5>1. CASE e = 1
          <6>1. e + 1 = 2
            BY <5>1
          <6>2. next \notin Digit \cup Sign(t)
            BY <2>4, <3>2, <6>1 DEF LineByte
          <6> QED BY <6>2 DEF Sign
        <5>2. CASE e > 1
          BY <2>1, <3>2, <5>2 DEF Disputed
        <5> QED BY <2>2, <5>1, <5>2
      <4>3. ASSUME e > 1 PROVE next # "CR"
        <5>1. CASE b[e] \in Digit
          BY <2>4, <5>1 DEF MayEnd
        <5>2. CASE b[e] \notin Digit
          <6>1. e \in 2 .. e
            BY <2>2, <4>3
          <6>2. b[e] \in LineByte(t, e)
            BY <1>3, <6>1 DEF Begins
          <6>3. e = 2 /\ b[e] \in {"-", "+"}
            BY <3>2, <5>2, <6>2 DEF LineByte, Sign
          <6>4. b[e] = "-"
            BY <2>1, <3>2, <4>3, <6>3
          <6> QED BY <2>1, <3>2, <4>3, <6>4 DEF Disputed
        <5> QED BY <5>1, <5>2
      <4> QED BY <1>3, <2>1, <2>4, <3>2, <4>1, <4>2, <4>3 DEF IsRead, TakesOn, Takeable
    <3> QED BY <3>1, <3>2
  <2>5. CASE /\ MayEnd(m, e) /\ next = "CR" /\ Len(b) >= e + 2
             /\ \/ Breaks(m, e + 2) /\ b[e + 2] # "LF"
                \/ b[e + 2] = "LF" /\ Announces(m, e)
    <3>1. Announces(m, e) => Offers(m, e)
      <4>1. CASE t \in Numbers
        <5>1. ~(e > 1 /\ b[2] = "+")
          BY <2>1, <4>1
        <5> QED BY <5>1 DEF Announces, Offers
      <4>2. CASE t \notin Numbers
        BY <2>2, <4>2 DEF Announces, Offers, Numbers
      <4> QED BY <4>1, <4>2
    <3> QED BY <1>3, <2>1, <2>3, <2>5, <3>1 DEF IsRead, TakesOn
  <2> QED BY <1>3, <2>4, <2>5 DEF GoesOn
<1> QED BY <1>2, <1>3 DEF IsMessage

-----------------------------------------------------------------------------
(* A message of which a part has been read.                                *)

\* The parser in the middle of the message m, of which it has read r bytes: in its first line
\* of e bytes, at the end of that line, or in the bulk string that the line announced.
LineAt(m, e, r) ==
    /\ r \in 1 .. e /\ Current = AfterFirst(m.bytes[1]) /\ buf = SubSeq(m.bytes, 2, r)
EndAt(m, e, r) ==
    /\ r = e + 1 /\ m.bytes[e + 1] = "CR" /\ (m.bytes[1] \in Numbers => e > 1)
    /\ Current = LineFeed[AfterFirst(m.bytes[1])] /\ buf = Text(m, e)
BulkAt(m, e, r) ==
    \E n \in Nat :
        /\ m.bytes[1] = "$" /\ Bulk(m, e, n)
        /\ \/ /\ Current = "Bulk" /\ e + 2 <= r /\ r + bulkSize = e + n + 2
              /\ buf = SubSeq(m.bytes, e + 3, r)
           \/ /\ Current = "BulkCR" /\ r = e + n + 2 /\ buf = SubSeq(m.bytes, e + 3, e + n + 2)
           \/ /\ Current = "BulkLF" /\ r = e + n + 3 /\ m.bytes[e + n + 3] = "CR"
              /\ buf = SubSeq(m.bytes, e + 3, e + n + 2)

UnderWay(m, r) ==
    \E e \in 1 .. Len(m.bytes) - 1 :
        Takes(m, e) /\ TakesOn(m, e) /\ (LineAt(m, e, r) \/ EndAt(m, e, r) \/ BulkAt(m, e, r))

\* The rest of m is what comes next in the stream.
Facing(m, r) ==
    /\ m \in MessageType /\ r \in Nat /\ r < Len(m.bytes)
    /\ Len(m.bytes) - r <= Len(stream) - position
    /\ \A i \in 1 .. Len(m.bytes) - r : stream[position + i] = m.bytes[r + i]

\* What a turn of the loop does to m: it goes on with it, makes a part of it or gives it up.
Goes(m, r)  == /\ r < Len(m.bytes) /\ Same /\ Current' # "Close" /\ outcome' = outcome
               /\ UnderWay(m, r)'
GaveLeaf(m) == /\ ~m.bad /\ outcome' = outcome /\ Same /\ Current' = "Close"
               /\ \E p \in Part : Members(p) = 0 /\ m.parts = <<p>> /\ redisValue' = <<p>>
GaveHead(m) == /\ ~m.bad /\ outcome' = outcome /\ results' = results /\ Current' = "StartArray"
               /\ \E n \in Nat \ {0} :
                     /\ m.parts = <<Arr(n)>>
                     /\ arraySizes' = Append(arraySizes, n)
                     /\ arrayValues' = Append(arrayValues, [count |-> 0, parts |-> <<>>])
Failed(m)   == /\ m.bad /\ m.parts = <<>> /\ Same /\ outcome' = "Error"
               /\ Current' = "Start" /\ state' = "none"
Turned(m, r) ==
    \E q \in r + 1 .. Len(m.bytes) :
        /\ position' = position + (q - r)
        /\ Goes(m, q) \/ (q = Len(m.bytes) /\ (GaveLeaf(m) \/ GaveHead(m) \/ Failed(m)))

\* The byte that is read next is one of m.
LEMMA FacingByte ==
    ASSUME NEW m, NEW r, Facing(m, r)
    PROVE  /\ c = m.bytes[r + 1] /\ r \in Nat /\ Len(m.bytes) \in Nat /\ r + 1 \in r + 1 .. Len(m.bytes)
           /\ m.bytes \in Seq(Byte) /\ \A i \in 1 .. Len(m.bytes) : m.bytes[i] \in Byte
<1>1. m.bytes \in Seq(Byte) /\ Len(m.bytes) \in Nat /\ r \in Nat /\ r < Len(m.bytes)
  BY LenProperties DEF Facing, MessageType
<1>2. 1 \in 1 .. Len(m.bytes) - r
  BY <1>1
<1>3. stream[position + 1] = m.bytes[r + 1]
  BY <1>2 DEF Facing
<1>4. \A i \in 1 .. Len(m.bytes) : m.bytes[i] \in Byte
  BY <1>1, ElementOfSeq
<1> QED BY <1>1, <1>3, <1>4 DEF c

\* The states of the parser for each type.
LEMMA TypeStates ==
    /\ AfterFirst("+") = "String" /\ AfterFirst("-") = "ErrorString" /\ AfterFirst(":") = "Integer"
    /\ AfterFirst("$") = "BulkSize" /\ AfterFirst("*") = "ArraySize"
    /\ LineFeed["String"] = "StringLF" /\ LineFeed["ErrorString"] = "ErrorLF"
    /\ LineFeed["Integer"] = "IntegerLF" /\ LineFeed["BulkSize"] = "BulkSizeLF"
    /\ LineFeed["ArraySize"] = "ArraySizeLF"
BY DEF AfterFirst, LineFeed

\* A type's states allow the bytes that its line has.
LEMMA StatesOf ==
    ASSUME NEW t \in Types
    PROVE  /\ AfterFirst(t) \in InLine /\ AfterFirst(t) \in State
           /\ LineFeed[AfterFirst(t)] \in {"StringLF", "ErrorLF", "IntegerLF", "BulkSizeLF", "ArraySizeLF"}
           /\ Allowed(AfterFirst(t)) = Takeable(t) /\ (AfterFirst(t) \in Numeric <=> t \in Numbers)
<1>1. t \in {"+", "-", ":", "$", "*"}
  BY DEF Types
<1>2. AfterFirst(t) \in InLine /\ LineFeed[AfterFirst(t)] \in {"StringLF", "ErrorLF", "IntegerLF", "BulkSizeLF", "ArraySizeLF"}
  BY <1>1, TypeStates DEF InLine
<1>3. AfterFirst(t) \in Numeric <=> t \in Numbers
  BY <1>1, TypeStates DEF Numeric, Numbers
<1>4. Allowed(AfterFirst(t)) = Takeable(t)
  BY <1>3 DEF Allowed, Takeable
<1> QED BY <1>2, <1>3, <1>4 DEF State

LEMMA GoesTo ==
    ASSUME NEW s \in State, InState(s), results' = results
    PROVE  Same /\ Current' = s /\ Current' # "Close" /\ outcome' = outcome
<1>1. s # "none" /\ s # "Close"
  BY DEF State, InLine, LineFeed
<1> QED BY <1>1 DEF InState, Same, Current

LEMMA GivesUp ==
    ASSUME Fail, results' = results, NEW m, m.bad, m.parts = <<>>
    PROVE  Failed(m)
BY DEF Fail, Same, Current, Failed

LEMMA Gives ==
    ASSUME NEW p \in Part, Members(p) = 0, Finished(<<p>>), results' = results,
           NEW m, ~m.bad, m.parts = <<p>>
    PROVE  GaveLeaf(m)
BY DEF Finished, Same, Current, GaveLeaf

\* The parts that are values.
LEMMA Leaves ==
    /\ Members(Nil) = 0 /\ Members(Arr(0)) = 0
    /\ \A b : Members(Str(b)) = 0 /\ Members(Err(b)) = 0 /\ Members(Num(b)) = 0
BY DEF Members, Nil, Arr, Str, Err, Num

-----------------------------------------------------------------------------
\* The type of a message.
LEMMA StartTurn ==
    ASSUME ParserInv, ReadStart, results' = results, NEW m, Facing(m, 0), IsRead(m)
    PROVE  Turned(m, 0)
<1> DEFINE b == m.bytes
<1>1. c = b[1] /\ Len(b) \in Nat /\ 1 \in 0 + 1 .. Len(b) /\ b \in Seq(Byte) /\ b[1] \in Byte
  <2>1. 0 + 1 = 1
    OBVIOUS
  <2>2. c = b[0 + 1] /\ Len(b) \in Nat /\ 0 + 1 \in 0 + 1 .. Len(b) /\ b \in Seq(Byte)
        /\ \A i \in 1 .. Len(b) : b[i] \in Byte
    BY FacingByte
  <2> QED BY <2>1, <2>2
<1>2. position' = position + (1 - 0) /\ buf' = <<>>
  BY DEF ReadStart, Skip, ParserInv, TypeOK
<1>3. CASE c \in Types
  <2>1. c \in FirstByte /\ AfterFirst(c) \in State /\ InState(AfterFirst(c))
    BY <1>3, StatesOf DEF ReadStart, FirstByte, Types
  <2>2. PICK e \in 1 .. Len(b) - 1 : Takes(m, e) /\ TakesOn(m, e)
    BY <1>1, <1>3 DEF IsRead
  <2>3. Same /\ Current' = AfterFirst(c) /\ Current' # "Close" /\ outcome' = outcome
    BY <2>1, GoesTo
  <2>4. SubSeq(b, 2, 1) = <<>>
    BY SubSeqEmpty
  <2>5. 1 < Len(b) /\ 1 \in 1 .. e
    BY <1>1
  <2>6. LineAt(m, e, 1)'
    BY <1>1, <1>2, <2>3, <2>4, <2>5 DEF LineAt
  <2>7. UnderWay(m, 1)'
    BY <2>2, <2>6 DEF UnderWay
  <2>8. Goes(m, 1)
    BY <2>3, <2>5, <2>7 DEF Goes
  <2> QED BY <1>1, <1>2, <2>8 DEF Turned
<1>4. CASE c \notin Types
  <2>1. Breaks(m, 1)
    BY <1>1, <1>4 DEF IsRead, Takes
  <2>2. Fail
    BY <1>4 DEF ReadStart, FirstByte, Types
  <2>3. Failed(m) /\ Len(b) = 1
    BY <2>1, <2>2, GivesUp DEF Breaks
  <2> QED BY <1>1, <1>2, <2>3 DEF Turned
<1> QED BY <1>3, <1>4

-----------------------------------------------------------------------------
(* The turns of the loop that read a first line.                           *)

\* A parser in a state of its first line has m's first line before it.
LEMMA InLineAt ==
    ASSUME NEW s \in InLine, state = s, NEW m, NEW r, UnderWay(m, r)
    PROVE  \E e \in 1 .. Len(m.bytes) - 1 : Takes(m, e) /\ TakesOn(m, e) /\ LineAt(m, e, r)
<1>1. PICK e \in 1 .. Len(m.bytes) - 1 :
          Takes(m, e) /\ TakesOn(m, e) /\ (LineAt(m, e, r) \/ EndAt(m, e, r) \/ BulkAt(m, e, r))
  BY DEF UnderWay
<1>2. Current = s /\ s \in {"String", "ErrorString", "Integer", "BulkSize", "ArraySize"}
  BY DEF Current, InLine
<1>3. ~EndAt(m, e, r)
  <2>1. LineFeed[AfterFirst(m.bytes[1])] \in {"StringLF", "ErrorLF", "IntegerLF", "BulkSizeLF", "ArraySizeLF"}
    BY <1>1, StatesOf DEF Takes
  <2> QED BY <1>2, <2>1 DEF EndAt
<1>4. ~BulkAt(m, e, r)
  BY <1>2 DEF BulkAt
<1> QED BY <1>1, <1>3, <1>4

LEMMA TextOfLine ==
    ASSUME NEW m \in MessageType, NEW e \in 1 .. Len(m.bytes) - 1
    PROVE  /\ Len(m.bytes) \in Nat
           /\ \A r \in 1 .. e : SubSeq(m.bytes, 2, r) \in Seq(Byte) /\ Len(SubSeq(m.bytes, 2, r)) = r - 1
           /\ \A r \in 1 .. e : r < e => Append(SubSeq(m.bytes, 2, r), m.bytes[r + 1]) = SubSeq(m.bytes, 2, r + 1)
<1> DEFINE b == m.bytes
<1>1. b \in Seq(Byte) /\ Len(b) \in Nat /\ \A i \in 1 .. Len(b) : b[i] \in Byte
  BY LenProperties, ElementOfSeq DEF MessageType
<1> HIDE DEF b
<1>2. ASSUME NEW r \in 1 .. e PROVE SubSeq(b, 2, r) \in Seq(Byte) /\ Len(SubSeq(b, 2, r)) = r - 1
  <2>1. CASE r = 1
    <3>1. SubSeq(b, 2, r) = <<>>
      BY <2>1, SubSeqEmpty
    <3> QED BY <2>1, <3>1, EmptySeq
  <2>2. CASE r # 1
    <3>1. r \in 2 .. Len(b) /\ \A i \in 2 .. r : b[i] \in Byte
      BY <1>1, <2>2 DEF b
    <3> QED BY <1>1, <3>1, SubSeqProperties
  <2> QED BY <2>1, <2>2
<1>3. ASSUME NEW r \in 1 .. e, r < e PROVE Append(SubSeq(b, 2, r), b[r + 1]) = SubSeq(b, 2, r + 1)
  <2> DEFINE x == SubSeq(b, 2, r)
             y == SubSeq(b, 2, r + 1)
             z == Append(x, b[r + 1])
  <2>1. r + 1 \in 1 .. e /\ r + 1 \in 1 .. Len(b) /\ r + 1 \in 2 .. Len(b) /\ r \in Nat \ {0}
    BY <1>1, <1>3 DEF b
  <2>2. x \in Seq(Byte) /\ Len(x) = r - 1 /\ y \in Seq(Byte) /\ Len(y) = r /\ b[r + 1] \in Byte
    <3>1. (r + 1) - 1 = r
      BY <2>1
    <3> QED BY <1>1, <1>2, <2>1, <3>1
  <2>3. \A i \in 1 .. r : y[i] = b[i + 1]
    <3>1. \A i \in 2 .. r + 1 : b[i] \in Byte
      BY <1>1, <2>1
    <3>2. \A i \in 1 .. (r + 1) - 2 + 1 : y[i] = b[2 + i - 1]
      BY <1>1, <2>1, <3>1, SubSeqProperties
    <3>3. \A i \in 1 .. r : i \in 1 .. (r + 1) - 2 + 1 /\ 2 + i - 1 = i + 1
      BY <2>1
    <3> QED BY <3>2, <3>3
  <2>4. \A i \in 1 .. r - 1 : x[i] = b[i + 1]
    <3>1. CASE r = 1
      BY <3>1
    <3>2. CASE r # 1
      <4>1. r \in 2 .. Len(b) /\ \A i \in 2 .. r : b[i] \in Byte
        BY <1>1, <2>1, <3>2
      <4>2. \A i \in 1 .. r - 2 + 1 : x[i] = b[2 + i - 1]
        BY <1>1, <4>1, SubSeqProperties
      <4>3. \A i \in 1 .. r - 1 : i \in 1 .. r - 2 + 1 /\ 2 + i - 1 = i + 1
        BY <2>1
      <4> QED BY <4>2, <4>3
    <3> QED BY <3>1, <3>2
  <2> HIDE DEF x, y
  <2>5. /\ z \in Seq(Byte) /\ Len(z) = (r - 1) + 1 /\ z[(r - 1) + 1] = b[r + 1]
        /\ \A i \in 1 .. r - 1 : z[i] = x[i]
    BY <2>2, AppendProperties
  <2> HIDE DEF z
  <2>6. (r - 1) + 1 = r /\ \A i \in 1 .. r : i = r \/ i \in 1 .. r - 1
    BY <2>1
  <2>7. \A i \in 1 .. r : z[i] = y[i]
    BY <2>3, <2>4, <2>5, <2>6
  <2>8. z = y
    BY <2>2, <2>5, <2>6, <2>7, SeqEqual
  <2> QED BY <2>8 DEF x, y, z
<1> QED BY <1>1, <1>2, <1>3 DEF b

\* A byte of the first line, or the carriage return behind it.
LEMMA LineTurn ==
    ASSUME ParserInv, NEW s \in InLine, ReadLine(s), results' = results,
           NEW m, NEW r, Facing(m, r), UnderWay(m, r)
    PROVE  Turned(m, r)
<1> DEFINE b == m.bytes
           t == b[1]
<1>1. state = s /\ Skip /\ bulkSize' = bulkSize
  BY DEF ReadLine, Reading
<1>2. PICK e \in 1 .. Len(b) - 1 : Takes(m, e) /\ TakesOn(m, e) /\ LineAt(m, e, r)
  BY <1>1, InLineAt
<1>3. /\ c = b[r + 1] /\ r \in Nat /\ Len(b) \in Nat /\ r + 1 \in r + 1 .. Len(b) /\ b \in Seq(Byte)
      /\ m \in MessageType
  BY FacingByte DEF Facing
<1>4. t \in Types /\ s = AfterFirst(t) /\ r \in 1 .. e /\ buf = SubSeq(b, 2, r) /\ s \in State
  <2>1. Current = s /\ s # "none"
    BY <1>1 DEF Current, InLine
  <2> QED BY <1>2, <2>1 DEF Takes, LineAt, State
<1>5. Allowed(s) = Takeable(t) /\ (s \in Numeric <=> t \in Numbers)
  BY <1>4, StatesOf
<1>6. "CR" \notin Takeable(t)
  BY DEF Takeable, Digit, Digits
<1>7. position' = position + ((r + 1) - r)
  BY <1>1, <1>3 DEF Skip, ParserInv, TypeOK
<1>8. buf # <<>> <=> r > 1
  <2>1. Len(buf) = r - 1 /\ buf \in Seq(Byte)
    BY <1>3, <1>4, TextOfLine
  <2> QED BY <1>3, <2>1, EmptySeq
<1>9. r + 1 <= e \/ r = e
  BY <1>3, <1>4
<1> HIDE DEF b, t
<1>10. CASE r + 1 <= e
  <2>1. c \in Takeable(t)
    <3>1. r + 1 \in 2 .. e
      BY <1>3, <1>4, <1>10
    <3> QED BY <1>2, <1>3, <3>1 DEF Takes, b, t
  <2>2. InState(s) /\ buf' = Append(buf, c)
    BY <1>5, <1>6, <2>1 DEF ReadLine
  <2>3. buf' = SubSeq(b, 2, r + 1)
    <3>1. r < e
      BY <1>3, <1>4, <1>10
    <3> QED BY <1>3, <1>4, <2>2, <3>1, TextOfLine DEF b
  <2>4. Same /\ Current' = s /\ Current' # "Close" /\ outcome' = outcome
    BY <1>4, <2>2, GoesTo
  <2>5. LineAt(m, e, r + 1)'
    <3>1. r + 1 \in 1 .. e
      BY <1>3, <1>4, <1>10
    <3> QED BY <1>4, <2>3, <2>4, <3>1 DEF LineAt, b, t
  <2>6. r + 1 < Len(b)
    BY <1>3, <1>10, <1>2 DEF b
  <2>7. Goes(m, r + 1)
    <3>1. UnderWay(m, r + 1)'
      BY <1>2, <2>5 DEF UnderWay, b
    <3> QED BY <2>4, <2>6, <3>1 DEF Goes, b
  <2> QED BY <1>3, <1>7, <2>7 DEF Turned, b
<1>11. CASE r = e
  <2>1. c = b[e + 1] /\ buf = Text(m, e) /\ (buf # <<>> <=> e > 1)
    BY <1>3, <1>4, <1>8, <1>11 DEF Text, b
  <2> DEFINE mayEnd == t \in Numbers => e > 1
             ends   == c = "CR" /\ (s \in Numeric => buf # <<>>)
  <2>2. ends <=> c = "CR" /\ mayEnd
    BY <1>5, <2>1
  <2>3. \/ ends /\ InState(LineFeed[s]) /\ buf' = buf
        \/ ~ends /\ c \in Allowed(s) /\ InState(s)
        \/ ~ends /\ c \notin Allowed(s) /\ Fail
    BY DEF ReadLine
  <2>4. \/ Breaks(m, e + 1) /\ c \notin Takeable(t) /\ (mayEnd => c # "CR")
        \/ mayEnd /\ c = "CR" /\ Len(b) >= e + 2
    BY <1>2, <2>1 DEF TakesOn, b, t
  <2> HIDE DEF mayEnd, ends
  <2>5. CASE Breaks(m, e + 1) /\ c \notin Takeable(t) /\ (mayEnd => c # "CR")
    <3>1. Fail
      BY <1>5, <2>2, <2>3, <2>5
    <3>2. Failed(m) /\ r + 1 = Len(b)
      BY <1>11, <2>5, <3>1, GivesUp DEF Breaks, b
    <3> QED BY <1>3, <1>7, <3>2 DEF Turned, b
  <2>6. CASE mayEnd /\ c = "CR" /\ Len(b) >= e + 2
    <3>1. InState(LineFeed[s]) /\ buf' = buf
      BY <2>2, <2>3, <2>6
    <3>2. LineFeed[s] \in State
      BY DEF State
    <3>3. Same /\ Current' = LineFeed[s] /\ Current' # "Close" /\ outcome' = outcome
      BY <3>1, <3>2, GoesTo
    <3>4. EndAt(m, e, r + 1)'
      BY <1>4, <1>11, <2>1, <2>6, <3>1, <3>3 DEF EndAt, b, t, mayEnd
    <3>5. r + 1 < Len(b)
      BY <1>3, <1>11, <2>6
    <3>6. Goes(m, r + 1)
      <4>1. UnderWay(m, r + 1)'
        BY <1>2, <3>4 DEF UnderWay, b
      <4> QED BY <3>3, <3>5, <4>1 DEF Goes, b
    <3> QED BY <1>3, <1>7, <3>6 DEF Turned, b
  <2> QED BY <2>4, <2>5, <2>6
<1> QED BY <1>9, <1>10, <1>11

-----------------------------------------------------------------------------
(* The turns at the end of a first line.                                   *)

LineEnds == {"StringLF", "ErrorLF", "IntegerLF", "BulkSizeLF", "ArraySizeLF"}

\* A parser at the end of a line has the end of m's first line before it, or what is not one.
LEMMA AtLineEnd ==
    ASSUME state \in LineEnds, NEW m, NEW r, Facing(m, r), UnderWay(m, r)
    PROVE  \E e \in 1 .. Len(m.bytes) - 1 :
              /\ Takes(m, e) /\ TakesOn(m, e) /\ r = e + 1 /\ e + 2 <= Len(m.bytes) /\ c = m.bytes[e + 2]
              /\ state = LineFeed[AfterFirst(m.bytes[1])] /\ buf = Text(m, e)
              /\ \/ Breaks(m, e + 2) /\ c # "LF"
                 \/ c = "LF" /\ Offers(m, e)
<1>1. PICK e \in 1 .. Len(m.bytes) - 1 :
          Takes(m, e) /\ TakesOn(m, e) /\ (LineAt(m, e, r) \/ EndAt(m, e, r) \/ BulkAt(m, e, r))
  BY DEF UnderWay
<1>2. Current = state
  BY DEF Current, LineEnds
<1>3. ~LineAt(m, e, r)
  <2>1. AfterFirst(m.bytes[1]) \in InLine
    BY <1>1, StatesOf DEF Takes
  <2> QED BY <1>2, <2>1 DEF LineAt, InLine, LineEnds
<1>4. ~BulkAt(m, e, r)
  BY <1>2 DEF BulkAt, LineEnds
<1>5. EndAt(m, e, r)
  BY <1>1, <1>3, <1>4
<1>6. r = e + 1 /\ state = LineFeed[AfterFirst(m.bytes[1])] /\ buf = Text(m, e)
  BY <1>2, <1>5 DEF EndAt
<1>7. c = m.bytes[e + 2] /\ Len(m.bytes) \in Nat
  <2>1. c = m.bytes[r + 1] /\ r + 1 = e + 2 /\ Len(m.bytes) \in Nat
    BY <1>6, FacingByte
  <2> QED BY <2>1
<1>8. /\ e + 2 <= Len(m.bytes)
      /\ \/ Breaks(m, e + 2) /\ m.bytes[e + 2] # "LF"
         \/ m.bytes[e + 2] = "LF" /\ Offers(m, e)
  BY <1>1, <1>5, <1>7 DEF EndAt, TakesOn
<1> QED BY <1>1, <1>6, <1>7, <1>8

\* A value that ends with m's first line.
LEMMA ValueTurn ==
    ASSUME ParserInv, ReadStringLF \/ ReadErrorLF \/ ReadIntegerLF, results' = results,
           NEW m, NEW r, Facing(m, r), UnderWay(m, r)
    PROVE  Turned(m, r)
<1>1. state \in LineEnds /\ c = "LF" /\ Skip
  BY DEF ReadStringLF, ReadErrorLF, ReadIntegerLF, ReadLF, Reading, LineEnds
<1>2. PICK e \in 1 .. Len(m.bytes) - 1 :
              /\ Takes(m, e) /\ r = e + 1 /\ e + 2 <= Len(m.bytes)
              /\ state = LineFeed[AfterFirst(m.bytes[1])] /\ buf = Text(m, e) /\ Offers(m, e)
  BY <1>1, AtLineEnd
<1>3. r \in Nat /\ r + 1 \in r + 1 .. Len(m.bytes) /\ position' = position + ((r + 1) - r) /\ r + 1 = e + 2
  BY <1>1, <1>2, FacingByte DEF Skip, ParserInv, TypeOK
<1>4. buf \in Seq(Byte)
  BY DEF ParserInv, TypeOK
<1>5. m.bytes[1] \in {"+", "-", ":", "$", "*"}
  BY <1>2 DEF Takes, Types
<1>6. CASE ReadStringLF
  <2>1. m.bytes[1] = "+" /\ Finished(<<Str(buf)>>)
    BY <1>2, <1>5, <1>6, TypeStates DEF ReadStringLF, ReadLF, Reading
  <2>2. Means(m, e + 2, Str(buf)) /\ Str(buf) \in Part /\ Members(Str(buf)) = 0
    BY <1>2, <1>4, <2>1, PartTypes, Leaves DEF Offers
  <2>3. GaveLeaf(m)
    BY <2>1, <2>2, Gives DEF Means
  <2> QED BY <1>3, <2>2, <2>3 DEF Turned, Means
<1>7. CASE ReadErrorLF
  <2>1. m.bytes[1] = "-" /\ Finished(<<Err(buf)>>)
    BY <1>2, <1>5, <1>7, TypeStates DEF ReadErrorLF, ReadLF, Reading
  <2>2. Means(m, e + 2, Err(buf)) /\ Err(buf) \in Part /\ Members(Err(buf)) = 0
    BY <1>2, <1>4, <2>1, PartTypes, Leaves DEF Offers
  <2>3. GaveLeaf(m)
    BY <2>1, <2>2, Gives DEF Means
  <2> QED BY <1>3, <2>2, <2>3 DEF Turned, Means
<1>8. CASE ReadIntegerLF
  <2> DEFINE n == BufToLong(buf)
  <2>1. m.bytes[1] = ":" /\ Finished(<<Num(n)>>) /\ n \in Int
    <3>1. state = "IntegerLF" /\ Finished(<<Num(n)>>) /\ n \in Int
      BY <1>8 DEF ReadIntegerLF, ReadLF, Reading, Long
    <3>2. m.bytes[1] = ":"
      BY <1>2, <1>5, <3>1, TypeStates
    <3> QED BY <3>1, <3>2
  <2>2. Means(m, e + 2, Num(n))
    BY <1>2, <2>1 DEF Offers
  <2> HIDE DEF n
  <2>3. Num(n) \in Part /\ Members(Num(n)) = 0
    BY <2>1, PartTypes, Leaves
  <2>4. GaveLeaf(m)
    BY <2>1, <2>2, <2>3, Gives DEF Means
  <2> QED BY <1>3, <2>2, <2>4 DEF Turned, Means
<1> QED BY <1>6, <1>7, <1>8

\* The size of an array: what is known of m ends here, whatever the elements are.
LEMMA ArraySizeTurn ==
    ASSUME ParserInv, ReadArraySizeLF, results' = results,
           NEW m, NEW r, Facing(m, r), UnderWay(m, r)
    PROVE  Turned(m, r)
<1> DEFINE n == BufToLong(buf)
<1>1. state \in LineEnds /\ c = "LF" /\ Skip /\ n \in Int /\ ArrayOfSize(n) /\ state = "ArraySizeLF"
  BY DEF ReadArraySizeLF, ReadLF, Reading, LineEnds, Long
<1>2. PICK e \in 1 .. Len(m.bytes) - 1 :
              /\ Takes(m, e) /\ r = e + 1 /\ e + 2 <= Len(m.bytes)
              /\ state = LineFeed[AfterFirst(m.bytes[1])] /\ buf = Text(m, e) /\ Offers(m, e)
  BY <1>1, AtLineEnd
<1>3. r \in Nat /\ r + 1 \in r + 1 .. Len(m.bytes) /\ position' = position + ((r + 1) - r) /\ r + 1 = e + 2
  BY <1>1, <1>2, FacingByte DEF Skip, ParserInv, TypeOK
<1>4. m.bytes[1] = "*"
  <2>1. m.bytes[1] \in {"+", "-", ":", "$", "*"}
    BY <1>2 DEF Takes, Types
  <2> QED BY <1>1, <1>2, <2>1, TypeStates
<1>5. /\ n < -1 => Breaks(m, e + 2)
      /\ n = -1 => Means(m, e + 2, Nil)
      /\ n >= 0 => Means(m, e + 2, Arr(n))
  BY <1>2, <1>4 DEF Offers
<1> HIDE DEF n
<1>6. CASE n < -1
  <2>1. Fail
    BY <1>1, <1>6 DEF ArrayOfSize, Empty
  <2>2. Failed(m) /\ Len(m.bytes) = r + 1
    BY <1>3, <1>5, <1>6, <2>1, GivesUp DEF Breaks
  <2> QED BY <1>3, <2>2 DEF Turned
<1>7. CASE n = -1
  <2>1. Finished(<<Nil>>)
    BY <1>1, <1>7 DEF ArrayOfSize, Empty
  <2>2. Nil \in Part /\ Members(Nil) = 0
    BY PartTypes, Leaves
  <2>3. GaveLeaf(m) /\ Len(m.bytes) = r + 1
    BY <1>3, <1>5, <1>7, <2>1, <2>2, Gives DEF Means
  <2> QED BY <1>3, <2>3 DEF Turned
<1>8. CASE n = 0
  <2>1. Finished(<<Arr(0)>>)
    BY <1>1, <1>8 DEF ArrayOfSize, Empty
  <2>2. Arr(0) \in Part /\ Members(Arr(0)) = 0
    BY PartTypes, Leaves
  <2>3. GaveLeaf(m) /\ Len(m.bytes) = r + 1
    BY <1>3, <1>5, <1>8, <2>1, <2>2, Gives DEF Means
  <2> QED BY <1>3, <2>3 DEF Turned
<1>9. CASE n > 0
  <2>1. /\ arraySizes' = Append(arraySizes, n)
        /\ arrayValues' = Append(arrayValues, [count |-> 0, parts |-> <<>>])
        /\ state' = "StartArray" /\ UNCHANGED <<states, redisValue, outcome>>
    BY <1>1, <1>9 DEF ArrayOfSize, Empty
  <2>2. n \in Nat \ {0} /\ ~m.bad /\ m.parts = <<Arr(n)>> /\ Len(m.bytes) = r + 1
    BY <1>1, <1>3, <1>5, <1>9 DEF Means
  <2>3. Current' = "StartArray"
    BY <2>1 DEF Current
  <2>4. GaveHead(m)
    BY <2>1, <2>2, <2>3 DEF GaveHead
  <2> QED BY <1>3, <2>2, <2>4 DEF Turned
<1> QED BY <1>1, <1>6, <1>7, <1>8, <1>9

\* A piece of the stream is a piece of the message.
LEMMA SamePiece ==
    ASSUME stream \in Seq(Byte), position \in Nat, NEW m, NEW r \in Nat, Facing(m, r),
           NEW u \in Nat, NEW v \in Nat, r < u, u <= v + 1, v <= Len(m.bytes),
           NEW k \in Int, NEW l \in Int, k = position + (u - r), l = position + (v - r)
    PROVE  SubSeq(stream, k, l) = SubSeq(m.bytes, u, v)
<1> DEFINE b == m.bytes
           x == SubSeq(stream, k, l)
           y == SubSeq(b, u, v)
<1>1. /\ b \in Seq(Byte) /\ Len(b) \in Nat /\ r \in Nat /\ Len(stream) \in Nat
      /\ Len(b) - r <= Len(stream) - position
      /\ \A i \in 1 .. Len(b) : b[i] \in Byte
  BY FacingByte, LenProperties DEF Facing
<1>2. \A i \in 1 .. Len(stream) : stream[i] \in Byte
  BY ElementOfSeq
<1>3. v <= Len(b)
  OBVIOUS
<1> HIDE DEF b
<1>4. ASSUME u = v + 1 PROVE x = y
  <2>1. v < u /\ v - r < u - r
    BY <1>1, <1>4
  <2>3. l < k
    BY <2>1
  <2>2. x = <<>> /\ y = <<>>
    <3>1. x = <<>>
      BY <2>3, SubSeqEmpty
    <3>2. y = <<>>
      BY <2>1, SubSeqEmpty
    <3> QED BY <3>1, <3>2
  <2> QED BY <2>2
<1>5. ASSUME u # v + 1 PROVE x = y
  <2>1. /\ k \in Nat \ {0} /\ l \in Nat /\ k <= l /\ l <= Len(stream)
        /\ u \in Nat \ {0} /\ u <= v
    <3>1. u <= v /\ u \in Nat \ {0} /\ u - r > 0 /\ u - r <= v - r /\ v - r <= Len(b) - r
      BY <1>1, <1>3, <1>5
    <3>2. k \in Nat \ {0} /\ k <= l
      BY <3>1
    <3>3. l <= Len(stream)
      BY <1>1, <3>1
    <3> QED BY <3>1, <3>2, <3>3
  <2>2. (\A i \in k .. l : stream[i] \in Byte) /\ (\A i \in u .. v : b[i] \in Byte)
    BY <1>1, <1>2, <1>3, <2>1
  <2>3. /\ x \in Seq(Byte) /\ Len(x) = l - k + 1
        /\ \A i \in 1 .. l - k + 1 : x[i] = stream[k + i - 1]
    <3>1. k \in Nat \ {0} /\ l \in Nat /\ k <= l /\ l <= Len(stream) /\ \A i \in k .. l : stream[i] \in Byte
      BY <2>1, <2>2
    <3> QED BY <3>1, SubSeqProperties
  <2>4. /\ y \in Seq(Byte) /\ Len(y) = v - u + 1
        /\ \A i \in 1 .. v - u + 1 : y[i] = b[u + i - 1]
    BY <1>3, <2>1, <2>2, SubSeqProperties
  <2> HIDE DEF x, y
  <2>5. l - k + 1 = v - u + 1
    BY <1>1
  <2>6. ASSUME NEW i \in 1 .. v - u + 1 PROVE x[i] = y[i]
    <3>1. /\ (u + i - 1) - r \in 1 .. Len(b) - r
          /\ k + i - 1 = position + ((u + i - 1) - r) /\ r + ((u + i - 1) - r) = u + i - 1
      BY <1>1, <1>3
    <3>2. stream[position + ((u + i - 1) - r)] = b[r + ((u + i - 1) - r)]
      BY <3>1 DEF Facing, b
    <3>3. x[i] = stream[k + i - 1] /\ y[i] = b[u + i - 1]
      BY <2>3, <2>4, <2>5
    <3> QED BY <3>1, <3>2, <3>3
  <2>7. x = y
    BY <2>3, <2>4, <2>5, <2>6, SeqEqual
  <2> QED BY <2>7 DEF x, y
<1>6. x = y
  BY <1>1, <1>4, <1>5
<1> QED BY <1>6 DEF b

-----------------------------------------------------------------------------
(* The turns that read a bulk string, and every turn.                      *)

\* The size of a bulk string, with what the chunk has of it.
LEMMA BulkSizeTurn ==
    ASSUME ParserInv, ReadBulkSizeLF, results' = results,
           NEW m, NEW r, Facing(m, r), UnderWay(m, r)
    PROVE  Turned(m, r)
<1> DEFINE n == BufToLong(buf)
           b == m.bytes
<1>1. state \in LineEnds /\ c = "LF" /\ n \in Int /\ BulkOfSize(n) /\ state = "BulkSizeLF" /\ position < size
  BY DEF ReadBulkSizeLF, ReadLF, Reading, LineEnds, Long
<1>2. PICK e \in 1 .. Len(b) - 1 :
              /\ Takes(m, e) /\ TakesOn(m, e) /\ r = e + 1 /\ e + 2 <= Len(b)
              /\ state = LineFeed[AfterFirst(b[1])] /\ buf = Text(m, e) /\ Offers(m, e)
  BY <1>1, AtLineEnd
<1>3. r \in Nat /\ r + 1 \in r + 1 .. Len(b) /\ r + 1 = e + 2 /\ b \in Seq(Byte) /\ Len(b) \in Nat
  BY <1>2, FacingByte
<1>4. b[1] = "$"
  <2>1. b[1] \in {"+", "-", ":", "$", "*"}
    BY <1>2 DEF Takes, Types
  <2> QED BY <1>1, <1>2, <2>1, TypeStates
<1>5. /\ n < -1 => Breaks(m, e + 2)
      /\ n = -1 => Means(m, e + 2, Nil)
      /\ n >= 0 => Bulk(m, e, n)
  BY <1>2, <1>4 DEF Offers
<1>6. position \in Nat /\ size \in Nat /\ size <= Len(stream) /\ stream \in Seq(Byte)
  BY DEF ParserInv, TypeOK, MembersAgree
<1> HIDE DEF n, b
<1>7. CASE n < 0
  <2>1. position' = position + ((r + 1) - r)
    BY <1>1, <1>3, <1>6, <1>7 DEF BulkOfSize, Skip
  <2>2. CASE n = -1
    <3>1. Finished(<<Nil>>)
      BY <1>1, <2>2 DEF BulkOfSize
    <3>2. Nil \in Part /\ Members(Nil) = 0
      BY PartTypes, Leaves
    <3>3. GaveLeaf(m) /\ Len(b) = r + 1
      BY <1>3, <1>5, <2>2, <3>1, <3>2, Gives DEF Means, b
    <3> QED BY <1>3, <2>1, <3>3 DEF Turned, b
  <2>3. CASE n < -1
    <3>1. Fail
      BY <1>1, <2>3 DEF BulkOfSize
    <3>2. Failed(m) /\ Len(b) = r + 1
      BY <1>3, <1>5, <2>3, <3>1, GivesUp DEF Breaks, b
    <3> QED BY <1>3, <2>1, <3>2 DEF Turned, b
  <2> QED BY <1>1, <1>7, <2>2, <2>3
<1>8. CASE n >= 0
  <2>0. Available(position + 1, n) \in Nat /\ Available(position + 1, n) <= n
    BY <1>1, <1>6, <1>8 DEF Available
  <2>b. PICK canRead \in Nat : canRead = Available(position + 1, n)
    BY <2>0
  <2>a. PICK q \in Nat : q = r + 1 + canRead
    BY <1>3
  <2>1. canRead \in Nat /\ canRead <= n /\ q \in Nat /\ q = r + 1 + canRead
    BY <2>0, <2>a, <2>b
  <2>2. /\ position' = position + 1 + canRead
        /\ buf' = SubSeq(stream, position + 2, position + 1 + canRead)
        /\ bulkSize' = n - canRead /\ InState(AfterBulk(n - canRead))
    BY <1>1, <1>8, <2>b DEF BulkOfSize
  <2>3. Bulk(m, e, n) /\ Len(b) >= e + n + 3 /\ n \in Nat
    BY <1>1, <1>5, <1>8 DEF Bulk, b
  <2>c. e \in Nat /\ r \in Nat /\ Len(b) \in Nat /\ r + 1 = e + 2
    BY <1>3, <1>2 DEF b
  <2>4. /\ position' = position + (q - r) /\ q \in r + 1 .. Len(b) /\ q < Len(b)
        /\ e + 2 <= q /\ q + (n - canRead) = e + n + 2
    <3>1. position' = position + (q - r)
      BY <1>6, <2>1, <2>2, <2>c
    <3>2. q \in r + 1 .. Len(b) /\ q < Len(b)
      BY <2>1, <2>3, <2>c
    <3>3. e + 2 <= q /\ q + (n - canRead) = e + n + 2
      BY <2>1, <2>3, <2>c
    <3> QED BY <3>1, <3>2, <3>3
  <2>5. buf' = SubSeq(b, e + 3, q)
    <3>u. PICK u \in Nat : u = e + 3
      BY <2>c
    <3>k. PICK k \in Int : k = position + 2
      BY <1>6
    <3>l. PICK l \in Int : l = position + 1 + canRead
      BY <1>6, <2>1
    <3>1. /\ r \in Nat /\ r < u /\ u <= q + 1 /\ q <= Len(m.bytes)
          /\ k \in Int /\ l \in Int /\ k = position + (u - r) /\ l = position + (q - r)
      BY <1>6, <2>1, <2>4, <2>c, <3>u, <3>k, <3>l DEF b
    <3>2. SubSeq(stream, k, l) = SubSeq(m.bytes, u, q)
      <4>1. stream \in Seq(Byte) /\ position \in Nat
        BY <1>6
      <4> QED BY <3>1, <4>1, SamePiece, SMTT(30)
    <3> QED BY <2>2, <3>2, <3>u, <3>k, <3>l DEF b
  <2>6. AfterBulk(n - canRead) \in State
    BY DEF AfterBulk, State
  <2>7. Same /\ Current' = AfterBulk(n - canRead) /\ Current' # "Close" /\ outcome' = outcome
    BY <2>2, <2>6, GoesTo
  <2>8. BulkAt(m, e, q)'
    <3>1. CASE canRead < n
      <4>1. Current' = "Bulk"
        BY <1>1, <2>1, <2>7, <3>1 DEF AfterBulk
      <4>2. q + bulkSize' = e + n + 2
        BY <2>2, <2>4
      <4> QED BY <1>4, <2>3, <2>4, <2>5, <4>1, <4>2 DEF BulkAt, b
    <3>2. CASE canRead = n
      <4>1. Current' = "BulkCR"
        BY <1>1, <2>1, <2>7, <3>2 DEF AfterBulk
      <4>2. q = e + n + 2
        BY <2>1, <2>3, <2>c, <3>2
      <4> QED BY <1>4, <2>3, <2>5, <4>1, <4>2 DEF BulkAt, b
    <3> QED BY <1>1, <2>1, <3>1, <3>2
  <2>9. Goes(m, q)
    <3>1. UnderWay(m, q)'
      BY <1>2, <2>8 DEF UnderWay, b
    <3> QED BY <2>4, <2>7, <3>1 DEF Goes, b
  <2> QED BY <2>4, <2>9 DEF Turned, b
<1> QED BY <1>1, <1>7, <1>8

\* A parser in a bulk string is in the one that m's first line announced.
LEMMA InBulk ==
    ASSUME state \in {"Bulk", "BulkCR", "BulkLF"}, NEW m, NEW r, UnderWay(m, r)
    PROVE  \E e \in 1 .. Len(m.bytes) - 1 : Takes(m, e) /\ TakesOn(m, e) /\ BulkAt(m, e, r)
<1>1. PICK e \in 1 .. Len(m.bytes) - 1 :
          Takes(m, e) /\ TakesOn(m, e) /\ (LineAt(m, e, r) \/ EndAt(m, e, r) \/ BulkAt(m, e, r))
  BY DEF UnderWay
<1>2. Current = state
  BY DEF Current
<1>3. /\ AfterFirst(m.bytes[1]) \in InLine
      /\ LineFeed[AfterFirst(m.bytes[1])] \in {"StringLF", "ErrorLF", "IntegerLF", "BulkSizeLF", "ArraySizeLF"}
  BY <1>1, StatesOf DEF Takes
<1>4. ~LineAt(m, e, r) /\ ~EndAt(m, e, r)
  BY <1>2, <1>3 DEF LineAt, EndAt, InLine
<1> QED BY <1>1, <1>4

\* More of a bulk string.
LEMMA BulkTurn ==
    ASSUME ParserInv, ReadBulk, results' = results,
           NEW m, NEW r, Facing(m, r), UnderWay(m, r)
    PROVE  Turned(m, r)
<1> DEFINE b == m.bytes
<1>1. /\ state = "Bulk" /\ position < size /\ Current = "Bulk"
  BY DEF ReadBulk, Reading, Current
<1>2. /\ position \in Nat /\ size \in Nat /\ size <= Len(stream) /\ bulkSize \in Int /\ bulkSize > 0
      /\ stream \in Seq(Byte)
  BY <1>1 DEF ParserInv, TypeOK, MembersAgree
<1>0. Available(position, bulkSize) \in Nat \ {0} /\ Available(position, bulkSize) <= bulkSize
  BY <1>1, <1>2 DEF Available
<1>b. PICK canRead \in Nat \ {0} : canRead = Available(position, bulkSize)
  BY <1>0
<1>3. /\ canRead <= bulkSize
      /\ position' = position + canRead
      /\ buf' = buf \o SubSeq(stream, position + 1, position + canRead)
      /\ bulkSize' = bulkSize - canRead /\ InState(AfterBulk(bulkSize - canRead))
  BY <1>0, <1>b DEF ReadBulk
<1>4. PICK e \in 1 .. Len(b) - 1 : Takes(m, e) /\ TakesOn(m, e) /\ BulkAt(m, e, r)
  BY <1>1, InBulk
<1>5. PICK n \in Nat :
          /\ b[1] = "$" /\ Bulk(m, e, n) /\ e + 2 <= r /\ r + bulkSize = e + n + 2
          /\ buf = SubSeq(b, e + 3, r)
  BY <1>1, <1>4 DEF BulkAt
<1>6. Len(b) >= e + n + 3 /\ b \in Seq(Byte) /\ Len(b) \in Nat /\ r \in Nat
  BY <1>5, FacingByte DEF Bulk
<1>a. PICK q \in Nat : q = r + canRead
  BY <1>6
<1>c. e \in Nat
  BY <1>6
<1> HIDE DEF b
<1>7. /\ position' = position + (q - r) /\ q \in r + 1 .. Len(b) /\ q < Len(b)
      /\ e + 2 <= q /\ q + (bulkSize - canRead) = e + n + 2
  <2>1. position' = position + (q - r)
    BY <1>2, <1>3, <1>6, <1>a
  <2>2. e + 2 <= q /\ q + (bulkSize - canRead) = e + n + 2
    BY <1>2, <1>5, <1>6, <1>a, <1>c
  <2>3. q <= e + n + 2 /\ q >= r + 1
    BY <1>2, <1>3, <1>6, <1>a, <1>c, <2>2
  <2>4. q \in r + 1 .. Len(b) /\ q < Len(b)
    BY <1>6, <1>a, <1>c, <2>3
  <2> QED BY <2>1, <2>2, <2>4
<1>8. buf' = SubSeq(b, e + 3, q)
  <2>u. PICK u \in Nat : u = r + 1
    BY <1>6
  <2>k. PICK k \in Int : k = position + 1
    BY <1>2
  <2>l. PICK l \in Int : l = position + canRead
    BY <1>2
  <2>1. /\ r \in Nat /\ r < u /\ u <= q + 1 /\ q <= Len(m.bytes)
        /\ k \in Int /\ l \in Int /\ k = position + (u - r) /\ l = position + (q - r)
    BY <1>2, <1>6, <1>7, <1>a, <2>u, <2>k, <2>l DEF b
  <2>7. SubSeq(stream, k, l) = SubSeq(m.bytes, u, q)
    <3>1. stream \in Seq(Byte) /\ position \in Nat
      BY <1>2
    <3> QED BY <2>1, <3>1, SamePiece, SMTT(30)
  <2>8. SubSeq(stream, position + 1, position + canRead) = SubSeq(b, u, q)
    BY <2>7, <2>k, <2>l DEF b
  <2>4. buf' = SubSeq(b, e + 3, r) \o SubSeq(b, r + 1, q)
    BY <1>3, <1>5, <2>8, <2>u
  <2>5. e + 3 \in 1 .. Len(b) + 1 /\ r \in (e + 3) - 1 .. Len(b) /\ q \in r .. Len(b)
    BY <1>a, <1>c, <1>5, <1>6, <1>7
  <2>6. SubSeq(b, e + 3, r) \o SubSeq(b, r + 1, q) = SubSeq(b, e + 3, q)
    BY <1>6, <2>5, ConcatAdjacentSubSeq
  <2> QED BY <2>4, <2>6
<1>9. AfterBulk(bulkSize - canRead) \in State
  BY DEF AfterBulk, State
<1>10. Same /\ Current' = AfterBulk(bulkSize - canRead) /\ Current' # "Close" /\ outcome' = outcome
  BY <1>3, <1>9, GoesTo
<1>11. BulkAt(m, e, q)'
  <2>1. CASE canRead < bulkSize
    <3>1. Current' = "Bulk"
      BY <1>2, <1>3, <1>10, <2>1 DEF AfterBulk
    <3>2. q + bulkSize' = e + n + 2
      BY <1>3, <1>7
    <3> QED BY <1>5, <1>7, <1>8, <3>1, <3>2 DEF BulkAt, b
  <2>2. CASE canRead = bulkSize
    <3>1. Current' = "BulkCR"
      BY <1>2, <1>3, <1>10, <2>2 DEF AfterBulk
    <3>2. q = e + n + 2
      BY <1>2, <1>5, <1>6, <1>a, <1>c, <2>2
    <3> QED BY <1>5, <1>8, <3>1, <3>2 DEF BulkAt, b
  <2> QED BY <1>2, <1>3, <2>1, <2>2
<1>12. Goes(m, q)
  <2>1. UnderWay(m, q)'
    BY <1>4, <1>11 DEF UnderWay, b
  <2> QED BY <1>7, <1>10, <2>1 DEF Goes, b
<1> QED BY <1>7, <1>12 DEF Turned, b

\* The two bytes behind a bulk string.
LEMMA BulkEndTurn ==
    ASSUME ParserInv, ReadBulkCR \/ ReadBulkLF \/ (ReadOther /\ state \in {"BulkCR", "BulkLF"}), results' = results,
           NEW m, NEW r, Facing(m, r), UnderWay(m, r)
    PROVE  Turned(m, r)
<1> DEFINE b == m.bytes
<1>1. /\ state \in {"BulkCR", "BulkLF"} /\ Current = state /\ Skip
      /\ buf \in Seq(Byte) /\ position \in Nat
  BY DEF ReadBulkCR, ReadBulkLF, ReadOther, ReadLF, Reading, Current, ParserInv, TypeOK
<1>2. PICK e \in 1 .. Len(b) - 1 : Takes(m, e) /\ TakesOn(m, e) /\ BulkAt(m, e, r)
  BY <1>1, InBulk
<1>3. PICK n \in Nat :
          /\ b[1] = "$" /\ Bulk(m, e, n)
          /\ \/ state = "BulkCR" /\ r = e + n + 2 /\ buf = SubSeq(b, e + 3, e + n + 2)
             \/ /\ state = "BulkLF" /\ r = e + n + 3 /\ b[e + n + 3] = "CR"
                /\ buf = SubSeq(b, e + 3, e + n + 2)
  BY <1>1, <1>2 DEF BulkAt
<1>4. /\ c = b[r + 1] /\ r \in Nat /\ Len(b) \in Nat /\ r + 1 \in r + 1 .. Len(b)
      /\ position' = position + ((r + 1) - r)
  BY <1>1, FacingByte DEF Skip
<1> HIDE DEF b
<1>5. CASE state = "BulkCR"
  <2>1. r = e + n + 2 /\ r + 1 = e + n + 3 /\ buf = SubSeq(b, e + 3, e + n + 2) /\ c = b[e + n + 3]
    <3>1. r = e + n + 2 /\ buf = SubSeq(b, e + 3, e + n + 2)
      BY <1>3, <1>5
    <3>2. r + 1 = e + n + 3
      BY <3>1
    <3> QED BY <1>4, <3>1, <3>2
  <2>2. CASE c = "CR"
    <3>1. InState("BulkLF") /\ buf' = buf
      BY <1>5, <2>2 DEF ReadBulkCR, ReadBulkLF, ReadOther, ReadLF, Reading, Expected
    <3>2. "BulkLF" \in State
      BY DEF State
    <3>3. Same /\ Current' = "BulkLF" /\ Current' # "Close" /\ outcome' = outcome
      BY <3>1, <3>2, GoesTo
    <3>4. Len(b) >= e + n + 4
      BY <1>3, <2>1, <2>2, <1>4 DEF Bulk, Breaks, Means, b
    <3>5. BulkAt(m, e, r + 1)'
      BY <1>3, <2>1, <2>2, <3>1, <3>3 DEF BulkAt, b
    <3>6. UnderWay(m, r + 1)'
      BY <1>2, <3>5 DEF UnderWay, b
    <3>7. r + 1 < Len(b)
      BY <1>4, <2>1, <3>4
    <3>8. Goes(m, r + 1)
      BY <3>3, <3>6, <3>7 DEF Goes, b
    <3> QED BY <1>4, <3>8 DEF Turned, b
  <2>3. CASE c # "CR"
    <3>1. Fail
      BY <1>5, <2>3 DEF ReadBulkCR, ReadBulkLF, ReadOther, ReadLF, Reading
    <3>2. Breaks(m, e + n + 3)
      BY <1>3, <2>1, <2>3 DEF Bulk, b
    <3>3. Failed(m) /\ r + 1 = Len(b)
      BY <2>1, <3>1, <3>2, GivesUp DEF Breaks, b
    <3> QED BY <1>4, <3>3 DEF Turned, b
  <2> QED BY <2>2, <2>3
<1>6. CASE state = "BulkLF"
  <2>1. /\ r = e + n + 3 /\ r + 1 = e + n + 4 /\ buf = SubSeq(b, e + 3, e + n + 2) /\ c = b[e + n + 4]
        /\ b[e + n + 3] = "CR"
    <3>1. r = e + n + 3 /\ buf = SubSeq(b, e + 3, e + n + 2) /\ b[e + n + 3] = "CR"
      BY <1>3, <1>6
    <3>2. r + 1 = e + n + 4
      BY <3>1
    <3> QED BY <1>4, <3>1, <3>2
  <2>2. CASE c = "LF"
    <3>1. Finished(<<Str(buf)>>)
      BY <1>6, <2>2 DEF ReadBulkCR, ReadBulkLF, ReadOther, ReadLF, Reading, Expected
    <3>2. Means(m, e + n + 4, Str(buf))
      BY <1>3, <2>1, <2>2 DEF Bulk, b
    <3>3. Str(buf) \in Part /\ Members(Str(buf)) = 0
      BY <1>1, PartTypes, Leaves
    <3>4. GaveLeaf(m) /\ r + 1 = Len(b)
      BY <2>1, <3>1, <3>2, <3>3, Gives DEF Means, b
    <3> QED BY <1>4, <3>4 DEF Turned, b
  <2>3. CASE c # "LF"
    <3>1. Fail
      BY <1>6, <2>3 DEF ReadBulkCR, ReadBulkLF, ReadOther, ReadLF, Reading
    <3>2. Breaks(m, e + n + 4)
      BY <1>3, <2>1, <2>3 DEF Bulk, b
    <3>3. Failed(m) /\ r + 1 = Len(b)
      BY <2>1, <3>1, <3>2, GivesUp DEF Breaks, b
    <3> QED BY <1>4, <3>3 DEF Turned, b
  <2> QED BY <2>2, <2>3
<1> QED BY <1>1, <1>5, <1>6

\* A line that does not end with a line feed.
LEMMA OtherTurn ==
    ASSUME ParserInv, ReadOther, results' = results,
           NEW m, NEW r, Facing(m, r), UnderWay(m, r)
    PROVE  Turned(m, r)
<1>1. CASE state \in {"BulkCR", "BulkLF"}
  BY <1>1, BulkEndTurn
<1>2. CASE state \notin {"BulkCR", "BulkLF"}
  <2>1. Fail /\ Skip
    BY DEF ReadOther
  <2>2. PICK s \in InLine : Reading(LineFeed[s]) /\ c # Expected(LineFeed[s])
    BY <1>2 DEF ReadOther, Reading
  <2>3. state \in LineEnds /\ c # "LF"
    <3>1. LineFeed[s] \in LineEnds
      BY TypeStates DEF InLine, LineEnds
    <3> QED BY <2>2, <3>1 DEF Reading, Expected, LineEnds
  <2>4. PICK e \in 1 .. Len(m.bytes) - 1 : r = e + 1 /\ Breaks(m, e + 2)
    BY <2>3, AtLineEnd
  <2>5. /\ r + 1 \in r + 1 .. Len(m.bytes) /\ position' = position + ((r + 1) - r) /\ r + 1 = e + 2
    BY <2>1, <2>4, FacingByte DEF Skip, ParserInv, TypeOK
  <2>6. Failed(m) /\ r + 1 = Len(m.bytes)
    BY <2>1, <2>4, <2>5, GivesUp DEF Breaks
  <2> QED BY <2>5, <2>6 DEF Turned
<1> QED BY <1>1, <1>2

\* Whatever turn of the loop it is, it goes on with m, makes a part of it or refuses it.
LEMMA AnyTurn ==
    ASSUME ParserInv, ReadByte, NEW m, NEW r, Facing(m, r),
           IF r = 0 THEN IsRead(m) /\ Current \in {"Start", "StartArray", "Close"} ELSE UnderWay(m, r)
    PROVE  Turned(m, r)
<1>1. results' = results
  BY DEF ReadByte
<1>2. CASE r = 0
  <2>1. ReadStart
    <3>1. Current \in {"Start", "StartArray", "Close"}
      BY <1>2
    <3>2. ~ReadStart => state \in State \ {"Start", "StartArray"}
      BY DEF ReadByte, ReadLine, ReadStringLF, ReadErrorLF, ReadIntegerLF, ReadBulkSizeLF, ReadBulk, ReadBulkCR,
             ReadBulkLF, ReadArraySizeLF, ReadOther, ReadLF, Reading, State, InLine, LineFeed
    <3> QED BY <3>1, <3>2 DEF Current, State, InLine, LineFeed
  <2> QED BY <1>1, <1>2, <2>1, StartTurn
<1>3. CASE r # 0
  <2>1. UnderWay(m, r)
    BY <1>3
  <2>2. ~ReadStart
    <3>1. Current \notin {"Start", "StartArray"}
      <4>1. PICK e \in 1 .. Len(m.bytes) - 1 :
              Takes(m, e) /\ TakesOn(m, e) /\ (LineAt(m, e, r) \/ EndAt(m, e, r) \/ BulkAt(m, e, r))
        BY <2>1 DEF UnderWay
      <4>2. /\ AfterFirst(m.bytes[1]) \in InLine
            /\ LineFeed[AfterFirst(m.bytes[1])] \in {"StringLF", "ErrorLF", "IntegerLF", "BulkSizeLF", "ArraySizeLF"}
        BY <4>1, StatesOf DEF Takes
      <4> QED BY <4>1, <4>2 DEF LineAt, EndAt, BulkAt, InLine
    <3> QED BY <3>1 DEF ReadStart, Reading, Current
  <2> QED BY <1>1, <2>1, <2>2, LineTurn, ValueTurn, BulkSizeTurn, BulkTurn, BulkEndTurn, ArraySizeTurn, OtherTurn
          DEF ReadByte
<1> QED BY <1>2, <1>3

-----------------------------------------------------------------------------
(* The parser has read k messages and r bytes of the next one.             *)

Spoken == sent \in Seq(MessageType) /\ \A i \in 1 .. Len(sent) : IsRead(sent[i])

Between == Current \in {"Start", "StartArray", "Close"}
Amid(k, r) == \E m \in MessageType : /\ k # Len(sent) /\ m = sent[k + 1]
                                       /\ r < Len(m.bytes) /\ UnderWay(m, r)
Refused(k) == \E i \in 1 .. k : sent[i].bad
At(k, r) ==
    /\ position = EndOf(k) + r /\ Read = PartsOf(SubSeq(sent, 1, k))
    /\ IF r = 0 THEN Between ELSE Amid(k, r)
    /\ outcome = "Error" <=> Refused(k)
    /\ outcome = "Error" => state = "none" /\ r = 0

ReadingInv == ParserInv /\ Spoken /\ Whole /\ \E k \in 0 .. Len(sent), r \in Nat : At(k, r)

\* No message is empty.
LEMMA MessageLength == ASSUME NEW m \in MessageType, IsRead(m) PROVE Len(m.bytes) \in Nat \ {0}
<1>1. Len(m.bytes) \in Nat
  BY LenProperties DEF MessageType
<1>2. CASE Breaks(m, 1)
  BY <1>2 DEF Breaks
<1>3. CASE \E e \in 1 .. Len(m.bytes) - 1 : TRUE
  BY <1>1, <1>3
<1> QED BY <1>1, <1>2, <1>3 DEF IsRead

LEMMA SpokenLengths ==
    ASSUME Spoken PROVE \A i \in 1 .. Len(sent) : Len(sent[i].bytes) > 0
<1> TAKE i \in 1 .. Len(sent)
<1>1. sent[i] \in MessageType /\ IsRead(sent[i])
  BY ElementOfSeq DEF Spoken
<1> QED BY <1>1, MessageLength

\* A message under way leaves the parser in a state of its own.
LEMMA NotBetween == ASSUME NEW m, NEW r, UnderWay(m, r) PROVE ~Between
<1>1. PICK e \in 1 .. Len(m.bytes) - 1 :
        Takes(m, e) /\ TakesOn(m, e) /\ (LineAt(m, e, r) \/ EndAt(m, e, r) \/ BulkAt(m, e, r))
  BY DEF UnderWay
<1>2. /\ AfterFirst(m.bytes[1]) \in InLine
      /\ LineFeed[AfterFirst(m.bytes[1])] \in {"StringLF", "ErrorLF", "IntegerLF", "BulkSizeLF", "ArraySizeLF"}
  BY <1>1, StatesOf DEF Takes
<1> QED BY <1>1, <1>2 DEF Between, LineAt, EndAt, BulkAt, InLine

LEMMA StillUnderWay ==
    ASSUME NEW m, NEW r, UnderWay(m, r), Current' = Current, buf' = buf, bulkSize' = bulkSize
    PROVE  UnderWay(m, r)'
BY DEF UnderWay, LineAt, EndAt, BulkAt

\* As long as there are bytes to come, they are the rest of a message.
LEMMA NextMessage ==
    ASSUME ParserInv, Spoken, NEW k \in 0 .. Len(sent), NEW r \in Nat, At(k, r), position < Len(stream)
    PROVE  /\ k # Len(sent) /\ sent[k + 1] \in MessageType /\ IsRead(sent[k + 1])
           /\ Facing(sent[k + 1], r)
<1>1. Len(sent) \in Nat /\ EndOf(Len(sent)) = Len(stream) /\ EndOf(k) \in Nat /\ position = EndOf(k) + r
  BY EndsBorder, EndsType DEF Spoken, At
<1>2. k # Len(sent)
  <2>1. CASE r = 0
    BY <1>1, <2>1
  <2>2. CASE r # 0
    BY <2>2 DEF At, Amid
  <2> QED BY <2>1, <2>2
<1>3. k + 1 \in 1 .. Len(sent)
  BY <1>1, <1>2
<1> DEFINE b == sent[k + 1].bytes
<1>4. sent[k + 1] \in MessageType /\ IsRead(sent[k + 1]) /\ Len(b) > 0
  BY <1>3, SpokenLengths, ElementOfSeq DEF Spoken
<1>5. r < Len(b)
  BY <1>4 DEF At, Amid
<1>6. /\ Len(b) \in Nat /\ EndOf(k + 1) = EndOf(k) + Len(b) /\ EndOf(k + 1) <= Len(stream)
      /\ \A i \in 1 .. Len(b) : stream[EndOf(k) + i] = b[i]
  BY <1>2, EndsNext DEF Spoken
<1> HIDE DEF b
<1>7. Len(stream) \in Nat
  BY StreamType
<1>8. Len(b) - r <= Len(stream) - position
  BY <1>1, <1>6, <1>7
<1>9. ASSUME NEW i \in 1 .. Len(b) - r PROVE stream[position + i] = b[r + i]
  <2>1. r + i \in 1 .. Len(b) /\ EndOf(k) + (r + i) = position + i
    BY <1>1, <1>6
  <2> QED BY <1>6, <2>1
<1> QED BY <1>2, <1>4, <1>5, <1>8, <1>9 DEF Facing, b

\* The end of message k + 1.
LEMMA OneMore ==
    ASSUME Spoken, NEW k \in 0 .. Len(sent), k # Len(sent), sent' = sent
    PROVE  /\ k + 1 \in 0 .. Len(sent) /\ EndOf(k)' = EndOf(k)
           /\ EndOf(k + 1)' = EndOf(k) + Len(sent[k + 1].bytes)
           /\ PartsOf(SubSeq(sent, 1, k + 1))' = PartsOf(SubSeq(sent, 1, k)) \o sent[k + 1].parts
           /\ Refused(k + 1)' <=> Refused(k) \/ sent[k + 1].bad
           /\ PartsOf(SubSeq(sent, 1, k)) \in Seq(Part)
<1>1. EndOf(k)' = EndOf(k) /\ EndOf(k + 1)' = EndOf(k + 1)
  BY DEF EndOf
<1>2. EndOf(k + 1) = EndOf(k) + Len(sent[k + 1].bytes)
  BY EndsNext DEF Spoken
<1>3. /\ k + 1 \in 0 .. Len(sent) /\ PartsOf(SubSeq(sent, 1, k)) \in Seq(Part)
      /\ PartsOf(SubSeq(sent, 1, k + 1)) = PartsOf(SubSeq(sent, 1, k)) \o sent[k + 1].parts
  BY OneMessage DEF Spoken
<1>4. PartsOf(SubSeq(sent, 1, k + 1))' = PartsOf(SubSeq(sent, 1, k + 1))
  OBVIOUS
<1>5. Refused(k + 1)' <=> Refused(k) \/ sent[k + 1].bad
  <2>1. Refused(k + 1)' <=> \E i \in 1 .. k + 1 : sent[i].bad
    BY DEF Refused
  <2>2. \A i : i \in 1 .. k + 1 <=> i \in 1 .. k \/ i = k + 1
    OBVIOUS
  <2> QED BY <2>1, <2>2 DEF Refused
<1> QED BY <1>1, <1>2, <1>3, <1>4, <1>5

LEMMA SpokenNext == ASSUME Spoken, sent' = sent PROVE Spoken'
BY DEF Spoken

-----------------------------------------------------------------------------
(* Every step.                                                             *)

\* The calls and the returns that read nothing.
LEMMA QuietStep ==
    ASSUME NEW k, NEW r, At(k, r), Current' = Current, Read' = Read,
           UNCHANGED <<position, sent, buf, bulkSize>>, outcome # "Error", outcome' # "Error"
    PROVE  At(k, r)'
<1>1. /\ position' = EndOf(k)' + r /\ Read' = PartsOf(SubSeq(sent, 1, k))'
  BY DEF At, EndOf
<1>2. ~Refused(k)'
  BY DEF At, Refused
<1>3. CASE r = 0
  BY <1>1, <1>2, <1>3 DEF At, Between
<1>4. CASE r # 0
  <2>1. PICK m \in MessageType : k # Len(sent) /\ m = sent[k + 1] /\ r < Len(m.bytes) /\ UnderWay(m, r)
    BY <1>4 DEF At, Amid
  <2>2. UnderWay(m, r)'
    BY <2>1, StillUnderWay
  <2>3. Amid(k, r)'
    BY <2>1, <2>2 DEF Amid
  <2> QED BY <1>1, <1>2, <1>4, <2>3 DEF At
<1> QED BY <1>3, <1>4

\* A call takes the state up where the last one laid it down (redisparser.cpp:31-42).
LEMMA CallReads ==
    ASSUME ReadingInv, Parse \/ Incompleted
    PROVE  Whole' /\ \E k \in 0 .. Len(sent'), r \in Nat : At(k, r)'
<1>1. PICK k \in 0 .. Len(sent), r \in Nat : At(k, r)
  BY DEF ReadingInv
<1>2. /\ Current' = Current /\ Current # "Close" /\ Same /\ outcome # "Error" /\ outcome' # "Error"
      /\ UNCHANGED <<position, sent, buf, bulkSize>>
  <2>0. states \in Seq(State) /\ (state # "none" => states = <<>>)
    BY DEF ReadingInv, ParserInv, TypeOK, MembersAgree
  <2>1. CASE Parse
    <3>1. /\ state = "none" /\ outcome # "Error" /\ outcome' = outcome /\ Same
          /\ UNCHANGED <<position, sent, buf, bulkSize>>
      BY <2>1 DEF Parse, Same
    <3>2. CASE states = <<>>
      <4>1. state' = "Start"
        BY <2>1, <3>2 DEF Parse
      <4> QED BY <3>1, <3>2, <4>1 DEF Current
    <3>3. CASE states # <<>>
      <4>1. state' = Last(states) /\ Last(states) \in State
        BY <2>0, <2>1, <3>3, FrontLast DEF Parse
      <4>2. Last(states) # "none" /\ Last(states) # "Close"
        BY <4>1 DEF State, InLine, LineFeed
      <4> QED BY <3>1, <3>3, <4>1, <4>2 DEF Current
    <3> QED BY <3>2, <3>3
  <2>2. CASE Incompleted
    <3>1. /\ state \in State /\ states' = Append(states, state) /\ state' = "none" /\ outcome' = "Incompleted"
          /\ Same /\ UNCHANGED <<position, sent, buf, bulkSize>>
      BY <2>2 DEF Incompleted, Same
    <3>2. state # "none" /\ state # "Close" /\ states = <<>>
      BY <2>0, <3>1 DEF State, InLine, LineFeed
    <3>3. states' = <<state>> /\ Last(states') = state /\ states' # <<>>
      BY <3>1, <3>2 DEF Last
    <3>4. outcome # "Error"
      BY <1>1, <3>2 DEF At
    <3> QED BY <3>1, <3>2, <3>3, <3>4 DEF Current
  <2> QED BY <2>1, <2>2
<1>3. Read' = Read /\ Whole'
  BY <1>2, QuietReads DEF ReadingInv
<1>4. At(k, r)'
  BY <1>1, <1>2, <1>3, QuietStep
<1> QED BY <1>1, <1>2, <1>3, <1>4

\* Values that end are put where they belong, between two messages.
LEMMA ValueReads ==
    ASSUME ReadingInv, ParserInv', Completed \/ CloseElement
    PROVE  Whole' /\ \E k \in 0 .. Len(sent'), r \in Nat : At(k, r)'
<1>1. PICK k \in 0 .. Len(sent), r \in Nat : At(k, r)
  BY DEF ReadingInv
<1>2. /\ Read' = Read /\ Whole' /\ Current = "Close" /\ Current' \in {"Start", "Close"}
      /\ state = "Close" /\ UNCHANGED <<position, sent>>
      /\ outcome' = outcome \/ outcome' = "Completed"
  <2>1. CASE Completed
    <3>1. Read' = Read /\ Whole' /\ Current = "Close" /\ Current' = "Start"
      BY <2>1, CompletedReads DEF ReadingInv
    <3> QED BY <2>1, <3>1 DEF Completed
  <2>2. CASE CloseElement
    <3>1. Read' = Read /\ Whole' /\ Current = "Close" /\ Current' \in {"Start", "Close"}
      BY <2>2, CloseReads DEF ReadingInv
    <3> QED BY <2>2, <3>1 DEF CloseElement
  <2> QED BY <2>1, <2>2
<1>3. outcome # "Error" /\ outcome' # "Error"
  BY <1>1, <1>2 DEF At
<1>4. r = 0
  <2>1. Between
    BY <1>2 DEF Between
  <2>2. r # 0 => FALSE
    BY <1>1, <2>1, NotBetween DEF At, Amid
  <2> QED BY <2>2
<1>5. At(k, r)'
  <2>1. /\ position' = EndOf(k)' + r /\ Read' = PartsOf(SubSeq(sent, 1, k))'
    BY <1>1, <1>2 DEF At, EndOf
  <2>2. ~Refused(k)'
    BY <1>1, <1>2, <1>3 DEF At, Refused
  <2>3. Between'
    BY <1>2 DEF Between
  <2> QED BY <1>3, <1>4, <2>1, <2>2, <2>3 DEF At
<1> QED BY <1>1, <1>2, <1>5

\* A turn of the loop: the message goes on, or there is one more.
LEMMA ByteReads ==
    ASSUME ReadingInv, ParserInv', ReadByte
    PROVE  Whole' /\ \E k \in 0 .. Len(sent'), r \in Nat : At(k, r)'
<1>1. PICK k \in 0 .. Len(sent), r \in Nat : At(k, r)
  BY DEF ReadingInv
<1>2. state \in State /\ position < size /\ sent' = sent
  BY DEF ReadByte, ReadStart, ReadLine, ReadStringLF, ReadErrorLF, ReadIntegerLF, ReadBulkSizeLF, ReadBulk,
         ReadBulkCR, ReadBulkLF, ReadArraySizeLF, ReadOther, ReadLF, Reading, State, InLine, LineFeed
<1>3. Current # "Close" /\ state # "none" /\ outcome # "Error"
  <2>1. state # "none" /\ state # "Close"
    BY <1>2 DEF State, InLine, LineFeed
  <2> QED BY <1>1, <2>1 DEF Current, At
<1>4. ParserInv /\ Spoken /\ Whole /\ position < Len(stream) /\ position \in Nat /\ ~Refused(k)
      /\ position = EndOf(k) + r /\ Read = PartsOf(SubSeq(sent, 1, k))
  <2>1. ParserInv /\ Spoken /\ Whole /\ position \in Nat /\ size \in Nat /\ size <= Len(stream)
    BY DEF ReadingInv, ParserInv, TypeOK, MembersAgree
  <2>2. position < Len(stream)
    BY <1>2, <2>1, StreamType
  <2> QED BY <1>1, <1>3, <2>1, <2>2 DEF At
<1>5. PICK m \in MessageType : m = sent[k + 1] /\ k # Len(sent) /\ IsRead(m) /\ Facing(m, r)
  BY <1>1, <1>4, NextMessage
<1>6. Turned(m, r)
  <2>1. r = 0 => IsRead(m) /\ Current \in {"Start", "StartArray", "Close"}
    BY <1>1, <1>5 DEF At, Between
  <2>2. r # 0 => UnderWay(m, r)
    BY <1>1, <1>5 DEF At, Amid
  <2> QED BY <1>4, <1>5, <2>1, <2>2, AnyTurn
<1>7. PICK q \in r + 1 .. Len(m.bytes) :
        /\ position' = position + (q - r)
        /\ Goes(m, q) \/ (q = Len(m.bytes) /\ (GaveLeaf(m) \/ GaveHead(m) \/ Failed(m)))
  BY <1>6 DEF Turned
<1>8. /\ k + 1 \in 0 .. Len(sent) /\ EndOf(k)' = EndOf(k) /\ EndOf(k) \in Nat
      /\ EndOf(k + 1)' = EndOf(k) + Len(m.bytes)
      /\ PartsOf(SubSeq(sent, 1, k + 1))' = PartsOf(SubSeq(sent, 1, k)) \o m.parts
      /\ Refused(k + 1)' <=> m.bad
      /\ PartsOf(SubSeq(sent, 1, k)) \in Seq(Part)
  BY <1>2, <1>4, <1>5, OneMore, EndsType DEF Spoken
<1>9. Len(m.bytes) \in Nat /\ q \in Nat /\ q > 0 /\ position' = EndOf(k) + q
  <2>1. Len(m.bytes) \in Nat
    BY <1>5, MessageLength
  <2>2. q \in Nat /\ q > 0
    BY <1>7, <2>1
  <2> QED BY <1>4, <1>7, <1>8, <2>1, <2>2
<1>10. CASE Goes(m, q)
  <2>1. Read' = Read /\ Whole' /\ outcome' = outcome
    BY <1>3, <1>4, <1>10, QuietReads DEF Goes
  <2>2. Amid(k, q)'
    BY <1>2, <1>5, <1>10 DEF Goes, Amid
  <2>3. ~Refused(k)' /\ PartsOf(SubSeq(sent, 1, k))' = PartsOf(SubSeq(sent, 1, k))
    BY <1>2, <1>4 DEF Refused
  <2>4. At(k, q)'
    BY <1>3, <1>4, <1>8, <1>9, <2>1, <2>2, <2>3 DEF At
  <2> QED BY <1>2, <1>9, <2>1, <2>4
<1>11. ASSUME q = Len(m.bytes), Between', Read' = Read \o m.parts, outcome' = "Error" <=> m.bad,
              outcome' = "Error" => state' = "none"
       PROVE  \E j \in 0 .. Len(sent'), i \in Nat : At(j, i)'
  <2>1. position' = EndOf(k + 1)' + 0 /\ Read' = PartsOf(SubSeq(sent, 1, k + 1))'
    <3>1. Read' = PartsOf(SubSeq(sent, 1, k + 1))'
      BY <1>4, <1>8, <1>11
    <3>2. EndOf(k + 1)' \in Nat /\ position' = EndOf(k + 1)'
      BY <1>8, <1>9, <1>11
    <3> QED BY <3>1, <3>2
  <2>2. At(k + 1, 0)'
    BY <1>8, <1>11, <2>1 DEF At
  <2> QED BY <1>2, <1>8, <2>2
<1>12. CASE q = Len(m.bytes) /\ GaveLeaf(m)
  <2>1. PICK p \in Part : Members(p) = 0 /\ m.parts = <<p>> /\ redisValue' = <<p>>
    BY <1>12 DEF GaveLeaf
  <2>2. ~m.bad /\ outcome' # "Error" /\ Same /\ Current' = "Close" /\ Between'
    BY <1>3, <1>12 DEF GaveLeaf, Between
  <2>3. Read' = Read \o <<p>> /\ Whole'
    BY <1>3, <1>4, <2>1, <2>2, LeafReads
  <2> QED BY <1>11, <1>12, <2>1, <2>2, <2>3
<1>13. CASE q = Len(m.bytes) /\ GaveHead(m)
  <2>1. PICK n \in Nat \ {0} :
          /\ m.parts = <<Arr(n)>> /\ arraySizes' = Append(arraySizes, n)
          /\ arrayValues' = Append(arrayValues, [count |-> 0, parts |-> <<>>])
    BY <1>13 DEF GaveHead
  <2>2. ~m.bad /\ outcome' # "Error" /\ results' = results /\ Current' # "Close" /\ Between'
    BY <1>3, <1>13 DEF GaveHead, Between
  <2>3. Read' = Read \o <<Arr(n)>> /\ Whole'
    BY <1>3, <1>4, <2>1, <2>2, HeaderReads
  <2> QED BY <1>11, <1>13, <2>1, <2>2, <2>3
<1>14. CASE q = Len(m.bytes) /\ Failed(m)
  <2>1. m.bad /\ m.parts = <<>> /\ Same /\ outcome' = "Error" /\ Current' # "Close" /\ Between' /\ state' = "none"
    BY <1>14 DEF Failed, Between
  <2>2. Read' = Read /\ Whole'
    BY <1>3, <1>4, <2>1, QuietReads
  <2>3. Read \o <<>> = Read
    BY <1>4, <1>8, ConcatEmptySeq
  <2> QED BY <1>11, <1>14, <2>1, <2>2, <2>3
<1> QED BY <1>7, <1>10, <1>12, <1>13, <1>14

LEMMA StutterReads ==
    ASSUME ReadingInv, UNCHANGED vars
    PROVE  Whole' /\ \E k \in 0 .. Len(sent'), r \in Nat : At(k, r)'
<1>1. PICK k \in 0 .. Len(sent), r \in Nat : At(k, r)
  BY DEF ReadingInv
<1>2. UNCHANGED <<position, sent, buf, bulkSize, outcome, state, states, redisValue, results, arraySizes, arrayValues>>
  BY DEF vars, memberVars
<1>3. Current' = Current
  BY <1>2 DEF Current
<1>4. Opened' = Opened /\ Value' = Value
  BY <1>2, <1>3 DEF Opened, Value
<1>5. Read' = Read /\ Whole'
  <2>1. Whole
    BY DEF ReadingInv
  <2> QED BY <1>2, <1>3, <1>4, <2>1 DEF Read, Whole
<1>6. At(k, r)'
  <2>1. /\ position' = EndOf(k)' + r /\ Read' = PartsOf(SubSeq(sent, 1, k))'
        /\ Refused(k)' <=> Refused(k)
    BY <1>1, <1>2, <1>5 DEF At, EndOf, Refused
  <2>2. (r = 0 => Between') /\ (r # 0 => Amid(k, r)')
    <3>1. ASSUME r # 0 PROVE Amid(k, r)'
      <4>1. PICK m \in MessageType : k # Len(sent) /\ m = sent[k + 1] /\ r < Len(m.bytes) /\ UnderWay(m, r)
        BY <1>1, <3>1 DEF At, Amid
      <4>2. UnderWay(m, r)'
        BY <1>2, <1>3, <4>1, StillUnderWay
      <4> QED BY <1>2, <4>1, <4>2 DEF Amid
    <3>2. r = 0 => Between'
      BY <1>1, <1>3 DEF At, Between
    <3> QED BY <3>1, <3>2
  <2> QED BY <1>1, <1>2, <2>1, <2>2 DEF At
<1> QED BY <1>1, <1>2, <1>5, <1>6

LEMMA ReadingNext == ReadingInv /\ [Next]_vars => ReadingInv'
<1> SUFFICES ASSUME ReadingInv, [Next]_vars PROVE ReadingInv'
  OBVIOUS
<1>1. ParserInv'
  BY ParserNext DEF ReadingInv
<1>2. sent' = sent
  BY DEF Next, Parse, ReadByte, CloseElement, Completed, Incompleted, vars
<1>3. Spoken'
  BY <1>2, SpokenNext DEF ReadingInv
<1>4. Whole' /\ \E k \in 0 .. Len(sent'), r \in Nat : At(k, r)'
  BY <1>1, CallReads, ValueReads, ByteReads, StutterReads DEF Next
<1> QED BY <1>1, <1>3, <1>4 DEF ReadingInv

LEMMA ReadingInit == ASSUME WellSpoken, PlainLines PROVE Init => ReadingInv
<1> SUFFICES ASSUME Init PROVE ReadingInv
  OBVIOUS
<1>1. ParserInv
  BY ParserInit
<1>2. Spoken
  <2>1. /\ sent \in Seq(MessageType) /\ DOMAIN sent = 1 .. Len(sent)
        /\ \A i \in DOMAIN sent : IsMessage(sent[i]) /\ Undisputed(sent[i])
    BY LenProperties DEF Init, WellSpoken, PlainLines
  <2>2. ASSUME NEW i \in 1 .. Len(sent) PROVE IsRead(sent[i])
    <3>1. sent[i] \in MessageType
      BY <2>1, ElementOfSeq
    <3> QED BY <2>1, <3>1, MessageIsRead
  <2> QED BY <2>1, <2>2 DEF Spoken
<1>3. Current = "Start" /\ results = <<>> /\ arrayValues = <<>> /\ position = 0 /\ outcome = "none"
  BY DEF Init, Current
<1>4. Opened = <<>>
  <2>1. Opened \in Seq(Seq(Part)) /\ Len(Opened) = Len(arrayValues)
    BY <1>1, ReadType
  <2> QED BY <1>3, <2>1, EmptySeq
<1>5. Read = <<>>
  <2>1. <<>> \in Seq(Part) /\ <<>> \o <<>> = <<>>
    BY EmptySeq, ConcatEmptySeq
  <2> QED BY <1>3, <1>4, <2>1, FlattenNone DEF Read, Value
<1>6. Whole
  <2>1. DOMAIN <<>> = {}
    BY EmptySeq
  <2> QED BY <1>3, <1>4, <2>1 DEF Whole
<1>7. At(0, 0)
  <2>1. EndOf(0) = 0 /\ PartsOf(SubSeq(sent, 1, 0)) = <<>>
    BY <1>2, EndsBorder, NoMessage DEF Spoken
  <2>2. ~Refused(0) /\ Between
    BY <1>3 DEF Refused, Between
  <2> QED BY <1>3, <1>5, <2>1, <2>2 DEF At
<1>8. 0 \in 0 .. Len(sent)
  BY <1>2, LenProperties DEF Spoken
<1> QED BY <1>1, <1>2, <1>6, <1>7, <1>8 DEF ReadingInv

-----------------------------------------------------------------------------
(* What is known of the conversation wherever the parser is in it.         *)

\* What a sequence begins with, and the rest.
LEMMA FirstPart ==
    ASSUME NEW p \in Seq(Part), NEW t \in Seq(Part)
    PROVE  /\ p \o t \in Seq(Part) /\ IsPrefix(p, p \o t)
           /\ SubSeq(p \o t, Len(p) + 1, Len(p \o t)) = t
<1> DEFINE w == p \o t
           n == Len(p)
<1>1. /\ w \in Seq(Part) /\ Len(w) = n + Len(t) /\ n \in Nat /\ Len(t) \in Nat
      /\ \A i \in 1 .. n + Len(t) : w[i] = IF i <= n THEN p[i] ELSE t[i - n]
  BY ConcatProperties, LenProperties
<1> HIDE DEF w
<1>2. n \in 0 .. Len(w) /\ n + 1 \in 1 .. Len(w) + 1
  BY <1>1
<1> DEFINE a == SubSeq(w, 1, n)
           b == SubSeq(w, n + 1, Len(w))
<1>3. a \in Seq(Part) /\ Len(a) = n /\ \A i \in 1 .. n : a[i] = w[i]
  BY <1>1, <1>2, PrefixProperties
<1>4. /\ b \in Seq(Part) /\ Len(b) = Len(w) - (n + 1) + 1
      /\ \A i \in 1 .. Len(w) - (n + 1) + 1 : b[i] = w[(n + 1) + i - 1]
  <2> DEFINE j == n + 1
  <2>1. j \in 1 .. Len(w) + 1
    BY <1>2
  <2> HIDE DEF j
  <2>2. /\ SubSeq(w, j, Len(w)) \in Seq(Part) /\ Len(SubSeq(w, j, Len(w))) = Len(w) - j + 1
        /\ \A i \in 1 .. Len(w) - j + 1 : SubSeq(w, j, Len(w))[i] = w[j + i - 1]
    BY <1>1, <2>1, SuffixProperties
  <2> QED BY <2>2 DEF j
<1> HIDE DEF a, b
<1>5. a = p
  <2>1. \A i \in 1 .. n : a[i] = p[i]
    BY <1>1, <1>3
  <2> QED BY <1>1, <1>3, <2>1, SeqEqual
<1>6. b = t
  <2>1. Len(w) - (n + 1) + 1 = Len(t)
    BY <1>1
  <2>2. ASSUME NEW i \in 1 .. Len(t) PROVE b[i] = t[i]
    <3>1. /\ (n + 1) + i - 1 = n + i /\ n + i \in 1 .. n + Len(t) /\ ~(n + i <= n) /\ (n + i) - n = i
      BY <1>1
    <3> QED BY <1>1, <1>4, <2>1, <3>1
  <2> QED BY <1>4, <2>1, <2>2, SeqEqual
<1>7. SubSeq(p, 1, n) = p
  BY SubSeqFull
<1> QED BY <1>1, <1>5, <1>6, <1>7 DEF IsPrefix, a, b, w

LEMMA ReadingGivesFaithful == ReadingInv => RepliesFaithful
<1> SUFFICES ASSUME ReadingInv PROVE RepliesFaithful
  OBVIOUS
<1>1. PICK k \in 0 .. Len(sent), r \in Nat : At(k, r)
  BY DEF ReadingInv
<1> DEFINE P == PartsOf(SubSeq(sent, 1, k))
<1>2. PICK R \in Seq(Part), F \in Seq(Part), V \in Seq(Part) :
        R = FlattenSeq(results) /\ F = FlattenSeq(Opened) /\ V = Value
  BY ReadType DEF ReadingInv
<1>3. P = (R \o F) \o V
  BY <1>1, <1>2 DEF At, Read
<1>4. PICK t \in Seq(Part) : PartsOf(sent) = P \o t
  BY OneMessage DEF ReadingInv, Spoken
<1> HIDE DEF P
<1>5. PICK x, G : Joins(x, R, F) /\ Joins(G, F, V)
  BY <1>2, JoinTwo
<1>6. Joins(P, R, G)
  <2>1. x \in Seq(Part) /\ P = x \o V
    BY <1>3, <1>5 DEF Joins
  <2>2. Joins(x \o V, x, V)
    BY <1>2, <2>1, JoinTwo
  <2>3. Joins(P, x, V)
    BY <2>1, <2>2
  <2> QED BY <1>5, <2>3, Regroup
<1>7. IsPrefix(R, PartsOf(sent))
  <2>1. PICK H, z : Joins(H, G, t) /\ Joins(z, P, t)
    BY <1>5, <1>6, JoinTwo DEF Joins
  <2>2. Joins(z, R, H)
    BY <1>6, <2>1, Regroup
  <2>3. z = PartsOf(sent) /\ H \in Seq(Part) /\ z = R \o H
    BY <1>4, <2>1, <2>2 DEF Joins
  <2>4. IsPrefix(R, R \o H)
    BY <2>3, FirstPart
  <2> QED BY <2>3, <2>4
<1>8. \A i \in DOMAIN results : OneValue(results[i])
  BY DEF ReadingInv, Whole
<1> QED BY <1>2, <1>7, <1>8 DEF RepliesFaithful

\* The place in the conversation is the one that the properties speak of.
LEMMA ReadingAt ==
    ASSUME ReadingInv, NEW k \in 0 .. Len(sent), NEW r \in Nat, At(k, r)
    PROVE  ReadSoFar = k
<1>1. /\ sent \in Seq(MessageType) /\ position \in Nat /\ position = EndOf(k) + r /\ EndOf(k) \in Nat
      /\ \A i \in 1 .. Len(sent) : Len(sent[i].bytes) > 0
  BY SpokenLengths, EndsType DEF ReadingInv, Spoken, ParserInv, TypeOK, At
<1>2. ASSUME k # Len(sent) PROVE position < EndOf(k + 1)
  <2>1. EndOf(k + 1) = EndOf(k) + Len(sent[k + 1].bytes) /\ Len(sent[k + 1].bytes) \in Nat
    BY <1>1, <1>2, EndsNext
  <2>2. k + 1 \in 1 .. Len(sent)
    BY <1>1, <1>2, LenProperties
  <2>3. r < Len(sent[k + 1].bytes)
    <3>1. CASE r = 0
      BY <1>1, <2>2, <3>1
    <3>2. CASE r # 0
      BY <3>2 DEF At, Amid
    <3> QED BY <3>1, <3>2
  <2> QED BY <1>1, <2>1, <2>3
<1>3. EndOf(k) <= position
  BY <1>1
<1> QED BY <1>1, <1>2, <1>3, ReadSoFarIs

LEMMA ReadingGivesPrompt == ReadingInv => RepliesPrompt
<1> SUFFICES ASSUME ReadingInv, state = "none"
             PROVE  LET parts == PartsOf(SubSeq(sent, 1, ReadSoFar))
                    IN  PartOfValue(SubSeq(parts, Len(FlattenSeq(results)) + 1, Len(parts)))
  BY DEF RepliesPrompt
<1>1. PICK k \in 0 .. Len(sent), r \in Nat : At(k, r)
  BY DEF ReadingInv
<1>2. ReadSoFar = k
  BY <1>1, ReadingAt
<1> DEFINE R == FlattenSeq(results)
           F == FlattenSeq(Opened)
<1>3. R \in Seq(Part) /\ F \in Seq(Part) /\ Opened \in Seq(Seq(Part)) /\ DOMAIN Opened = 1 .. Len(Opened)
  BY ReadType DEF ReadingInv
<1>4. Current # "Close"
  <2>1. states \in Seq(State)
    BY DEF ReadingInv, ParserInv, TypeOK
  <2>2. states # <<>> => Last(states) \in State
    BY <2>1, FrontLast
  <2> QED BY <2>2 DEF Current, State, InLine, LineFeed
<1>5. Read = R \o F
  <2>1. Read = (R \o F) \o <<>>
    BY <1>4 DEF Read, Value
  <2>2. R \o F \in Seq(Part)
    BY <1>3, ConcatProperties
  <2> QED BY <2>1, <2>2, ConcatEmptySeq
<1>6. PartOfValue(F)
  <2>1. \A i \in 1 .. Len(Opened) : PartOfValue(Opened[i])
    BY <1>3 DEF ReadingInv, Whole
  <2> QED BY <1>3, <2>1, AllParts
<1>7. PartsOf(SubSeq(sent, 1, ReadSoFar)) = R \o F
  BY <1>1, <1>2, <1>5 DEF At
<1> HIDE DEF R, F
<1>8. SubSeq(R \o F, Len(R) + 1, Len(R \o F)) = F
  BY <1>3, FirstPart
<1> QED BY <1>6, <1>7, <1>8 DEF R

LEMMA ReadingGivesErrors == ReadingInv => ErrorsFound
<1> SUFFICES ASSUME ReadingInv PROVE ErrorsFound
  OBVIOUS
<1>1. PICK k \in 0 .. Len(sent), r \in Nat : At(k, r)
  BY DEF ReadingInv
<1>2. ReadSoFar = k
  BY <1>1, ReadingAt
<1> QED BY <1>1, <1>2 DEF At, Refused, ErrorsFound

\* Whatever the chunks, the parser is somewhere in the conversation with exactly the values
\* before it: returned, in the arrays that are open (parseChunk's inner loop,
\* redisparser.cpp:347-364), or in the value that ends.
THEOREM ConversationsRead == ASSUME WellSpoken, PlainLines PROVE Spec => []ReadingInv
BY ReadingInit, ReadingNext, PTL DEF Spec

\* parse returns the values that were sent, whole and in order, however the bytes of
\* well-formed messages are cut (redisparser.cpp:31-383).
THEOREM RepliesAreFaithful == ASSUME WellSpoken, PlainLines PROVE Spec => []RepliesFaithful
BY ConversationsRead, ReadingGivesFaithful, PTL

\* When parse has returned, no value that has been read to its end is still in the parser
\* (redisparser.cpp:366-382), so that asyncRead waits only for bytes that are to come.
THEOREM RepliesArePrompt == ASSUME WellSpoken, PlainLines PROVE Spec => []RepliesPrompt
BY ConversationsRead, ReadingGivesPrompt, PTL

\* parse returns Error at the byte where a malformed message differs from every message of
\* RESP, and for no other byte of a conversation (the `else` branches of parseChunk), if no
\* line of it has the bytes that parseChunk's tests judge otherwise than RESP (PlainLines).
THEOREM ErrorsAreFound == ASSUME WellSpoken, PlainLines PROVE Spec => []ErrorsFound
BY ConversationsRead, ReadingGivesErrors, PTL
=============================================================================
