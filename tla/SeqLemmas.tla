----------------------------- MODULE SeqLemmas -----------------------------
(* Facts about sequences that the proofs of this project share.            *)
EXTENDS Integers, Sequences, SequencesExt, SequenceTheorems, WellFoundedInduction, TLAPS

\* A function on 1..n is a sequence of length n.
LEMMA SequenceOf ==
    ASSUME NEW S, NEW n \in Nat, NEW f \in [1 .. n -> S]
    PROVE  f \in Seq(S) /\ Len(f) = n
BY SeqDef

\* Mapping the elements of a sequence gives a sequence of the same length.
LEMMA MappedSeq ==
    ASSUME NEW S, NEW T, NEW s \in Seq(S), NEW f \in [DOMAIN s -> T]
    PROVE  f \in Seq(T) /\ Len(f) = Len(s) /\ DOMAIN f = DOMAIN s
<1>1. DOMAIN s = 1 .. Len(s) /\ Len(s) \in Nat
  BY LenProperties
<1>2. f \in [1 .. Len(s) -> T]
  BY <1>1
<1> QED BY <1>1, <1>2, SequenceOf

\* Replacing an element of a sequence.
LEMMA ReplaceType ==
    ASSUME NEW S, NEW s \in Seq(S), NEW i \in DOMAIN s, NEW e \in S
    PROVE  [s EXCEPT ![i] = e] \in Seq(S) /\ Len([s EXCEPT ![i] = e]) = Len(s)
<1>1. i \in 1 .. Len(s)
  BY LenProperties
<1> QED BY <1>1, ExceptSeq

\* The theorem of the library with its sequences bound.
LEMMA ConcatRegroup ==
    ASSUME NEW S
    PROVE  \A s, t, u \in Seq(S) : s \o (t \o u) = (s \o t) \o u
<1> SUFFICES ASSUME NEW s \in Seq(S), NEW t \in Seq(S), NEW u \in Seq(S)
             PROVE  s \o (t \o u) = (s \o t) \o u
  OBVIOUS
<1> QED BY ConcatAssociative

\* x begins with s.
Continues(S, x, s) == s \in Seq(S) /\ \E t \in Seq(S) : x = s \o t

\* What begins with s still does when more is put after it.
LEMMA PutAfter ==
    ASSUME NEW S, NEW s, NEW x, NEW y, Continues(S, x, s), Continues(S, y, x)
    PROVE  Continues(S, y, s)
<1>1. PICK t \in Seq(S) : s \in Seq(S) /\ x = s \o t
  BY DEF Continues
<1>2. PICK u \in Seq(S) : y = x \o u
  BY DEF Continues
<1>3. PICK v \in Seq(S) : v = t \o u
  BY ConcatProperties
<1>4. s \o (t \o u) = (s \o t) \o u
  BY <1>1, ConcatRegroup
<1>5. y = s \o v
  BY <1>1, <1>2, <1>3, <1>4
<1> QED BY <1>1, <1>5 DEF Continues

\* Removing an element shortens a sequence by one.
LEMMA RemoveAtType ==
    ASSUME NEW S, NEW s \in Seq(S), NEW i \in DOMAIN s
    PROVE  RemoveAt(s, i) \in Seq(S) /\ Len(RemoveAt(s, i)) = Len(s) - 1
<1>0. DOMAIN s = 1 .. Len(s) /\ Len(s) \in Nat /\ \A j \in 1 .. Len(s) : s[j] \in S
  BY LenProperties, ElementOfSeq
<1>1. SubSeq(s, 1, i - 1) \in Seq(S) /\ Len(SubSeq(s, 1, i - 1)) = i - 1
  BY <1>0, SubSeqProperties
<1>2. SubSeq(s, i + 1, Len(s)) \in Seq(S) /\ Len(SubSeq(s, i + 1, Len(s))) = Len(s) - i
  BY <1>0, SubSeqProperties
<1>3. /\ SubSeq(s, 1, i - 1) \o SubSeq(s, i + 1, Len(s)) \in Seq(S)
      /\ Len(SubSeq(s, 1, i - 1) \o SubSeq(s, i + 1, Len(s))) = (i - 1) + (Len(s) - i)
  BY <1>1, <1>2, ConcatProperties
<1>4. (i - 1) + (Len(s) - i) = Len(s) - 1
  BY <1>0
<1> QED BY <1>3, <1>4 DEF RemoveAt

\* The end of a sequence, from position k.
LEMMA SuffixProperties ==
    ASSUME NEW S, NEW s \in Seq(S), NEW k \in 1 .. Len(s) + 1
    PROVE  /\ SubSeq(s, k, Len(s)) \in Seq(S)
           /\ Len(SubSeq(s, k, Len(s))) = Len(s) - k + 1
           /\ \A i \in 1 .. Len(s) - k + 1 : SubSeq(s, k, Len(s))[i] = s[k + i - 1]
<1>1. Len(s) \in Nat /\ k \in Int /\ \A i \in k .. Len(s) : s[i] \in S
  BY LenProperties, ElementOfSeq
<1>2. CASE k <= Len(s)
  BY <1>1, <1>2, SubSeqProperties
<1>3. CASE k = Len(s) + 1
  <2>1. SubSeq(s, k, Len(s)) = <<>>
    BY <1>1, <1>3, SubSeqEmpty
  <2> QED BY <1>1, <1>3, <2>1, EmptySeq
<1> QED BY <1>1, <1>2, <1>3

\* The beginning of a sequence, up to position n.
LEMMA PrefixProperties ==
    ASSUME NEW S, NEW s \in Seq(S), NEW n \in 0 .. Len(s)
    PROVE  /\ SubSeq(s, 1, n) \in Seq(S)
           /\ Len(SubSeq(s, 1, n)) = n
           /\ \A i \in 1 .. n : SubSeq(s, 1, n)[i] = s[i]
<1>1. Len(s) \in Nat /\ n \in Int /\ \A i \in 1 .. n : s[i] \in S
  BY LenProperties, ElementOfSeq
<1>2. CASE n = 0
  <2>1. SubSeq(s, 1, n) = <<>>
    BY <1>2, SubSeqEmpty
  <2> QED BY <1>2, <2>1, EmptySeq
<1>3. CASE n > 0
  BY <1>1, <1>3, SubSeqProperties
<1> QED BY <1>1, <1>2, <1>3

\* What has the first n elements of s, and no more, is the beginning of s.
LEMMA SamePrefix ==
    ASSUME NEW S, NEW s \in Seq(S), NEW n \in 0 .. Len(s), NEW w \in Seq(S),
           Len(w) = n, \A i \in 1 .. n : w[i] = s[i]
    PROVE  w = SubSeq(s, 1, n)
<1> DEFINE q == SubSeq(s, 1, n)
<1>1. q \in Seq(S) /\ Len(q) = n /\ \A i \in 1 .. n : q[i] = s[i]
  BY PrefixProperties
<1> HIDE DEF q
<1>2. \A i \in 1 .. Len(w) : w[i] = q[i]
  BY <1>1
<1>3. w = q
  BY <1>1, <1>2, SeqEqual
<1> QED BY <1>3 DEF q

\* What has the elements of s and then e is s with e appended.
LEMMA EqualsAppend ==
    ASSUME NEW S, NEW s \in Seq(S), NEW e \in S, NEW w \in Seq(S), NEW n \in Nat, n = Len(s),
           Len(w) = n + 1, w[n + 1] = e, \A i \in 1 .. n : w[i] = s[i]
    PROVE  w = Append(s, e)
<1> DEFINE q == Append(s, e)
<1>1. q \in Seq(S) /\ Len(q) = n + 1 /\ q[n + 1] = e /\ \A i \in 1 .. n : q[i] = s[i]
  BY AppendProperties
<1> HIDE DEF q
<1>2. ASSUME NEW i \in 1 .. Len(w) PROVE w[i] = q[i]
  <2>1. i = n + 1 \/ i \in 1 .. n
    OBVIOUS
  <2> QED BY <1>1, <2>1
<1>3. w = q
  BY <1>1, <1>2, SeqEqual
<1> QED BY <1>3 DEF q

\* The first n elements of s, and the rest.
LEMMA Cut ==
    ASSUME NEW S, NEW s \in Seq(S), NEW n \in 0 .. Len(s)
    PROVE  /\ SubSeq(s, 1, n) \in Seq(S) /\ Len(SubSeq(s, 1, n)) = n
           /\ SubSeq(s, n + 1, Len(s)) \in Seq(S)
           /\ SubSeq(s, 1, n) \o SubSeq(s, n + 1, Len(s)) = s
<1>1. Len(s) \in Nat /\ n + 1 \in 1 .. Len(s) + 1
  BY LenProperties
<1>2. SubSeq(s, 1, n) \in Seq(S) /\ Len(SubSeq(s, 1, n)) = n
  BY PrefixProperties
<1>3. SubSeq(s, n + 1, Len(s)) \in Seq(S)
  BY <1>1, SuffixProperties
<1>4. SubSeq(s, 1, n) \o SubSeq(s, n + 1, Len(s)) = SubSeq(s, 1, Len(s))
  <2>1. 1 \in 1 .. Len(s) + 1 /\ n \in 1 - 1 .. Len(s) /\ Len(s) \in n .. Len(s)
    BY <1>1
  <2> QED BY <2>1, ConcatAdjacentSubSeq
<1> QED BY <1>2, <1>3, <1>4, SubSeqFull

LEMMA ConcatAppend ==
    ASSUME NEW S, NEW s \in Seq(S), NEW t \in Seq(S), NEW e \in S
    PROVE  s \o Append(t, e) = Append(s \o t, e)
<1>1. s \o t \in Seq(S) /\ <<e>> \in Seq(S)
  BY ConcatProperties
<1> QED BY <1>1, AppendIsConcat, ConcatAssociative

LEMMA ConcatTail ==
    ASSUME NEW S, NEW s \in Seq(S), NEW t \in Seq(S), s # <<>>
    PROVE  s \o t # <<>> /\ Head(s \o t) = Head(s) /\ Tail(s \o t) = Tail(s) \o t
<1>1. /\ Len(s) \in Nat \ {0} /\ Len(t) \in Nat
      /\ s \o t \in Seq(S) /\ Len(s \o t) = Len(s) + Len(t)
      /\ \A i \in 1 .. Len(s) + Len(t) : (s \o t)[i] = IF i <= Len(s) THEN s[i] ELSE t[i - Len(s)]
  BY EmptySeq, LenProperties, ConcatProperties
<1>2. s \o t # <<>>
  BY <1>1, EmptySeq
<1>3. Head(s \o t) = Head(s)
  BY <1>1, <1>2
<1> DEFINE u == Tail(s \o t)
           v == Tail(s) \o t
<1>4. /\ Tail(s) \in Seq(S) /\ Len(Tail(s)) = Len(s) - 1
      /\ \A i \in 1 .. Len(s) - 1 : Tail(s)[i] = s[i + 1]
  BY <1>1, HeadTailProperties
<1>5. /\ u \in Seq(S) /\ Len(u) = Len(s) + Len(t) - 1
      /\ \A i \in 1 .. Len(s) + Len(t) - 1 : u[i] = (s \o t)[i + 1]
  BY <1>1, <1>2, HeadTailProperties
<1>6. /\ v \in Seq(S) /\ Len(v) = Len(s) - 1 + Len(t)
      /\ \A i \in 1 .. Len(s) - 1 + Len(t) : v[i] = IF i <= Len(s) - 1 THEN Tail(s)[i] ELSE t[i - (Len(s) - 1)]
  <2>1. /\ v \in Seq(S) /\ Len(v) = Len(Tail(s)) + Len(t)
        /\ \A i \in 1 .. Len(Tail(s)) + Len(t) : v[i] = IF i <= Len(Tail(s)) THEN Tail(s)[i] ELSE t[i - Len(Tail(s))]
    BY <1>4, ConcatProperties
  <2> QED BY <1>4, <2>1
<1> HIDE DEF u, v
<1>7. ASSUME NEW i \in 1 .. Len(u) PROVE u[i] = v[i]
  <2>1. i \in Int /\ 1 <= i /\ i <= Len(s) + Len(t) - 1 /\ i + 1 \in 1 .. Len(s) + Len(t)
    BY <1>1, <1>5
  <2>2. u[i] = IF i + 1 <= Len(s) THEN s[i + 1] ELSE t[i + 1 - Len(s)]
    BY <1>1, <1>5, <2>1
  <2>3. CASE i <= Len(s) - 1
    BY <1>1, <1>4, <1>6, <2>1, <2>2, <2>3
  <2>4. CASE ~(i <= Len(s) - 1)
    <3>1. i - (Len(s) - 1) = i + 1 - Len(s) /\ ~(i + 1 <= Len(s)) /\ i \in 1 .. Len(s) - 1 + Len(t)
      BY <1>1, <2>1, <2>4
    <3> QED BY <1>6, <2>2, <2>4, <3>1
  <2> QED BY <2>3, <2>4
<1>8. Len(u) = Len(v)
  BY <1>1, <1>5, <1>6
<1>9. u = v
  BY <1>5, <1>6, <1>7, <1>8, SeqEqual
<1> QED BY <1>2, <1>3, <1>9 DEF u, v

-----------------------------------------------------------------------------
(* Ascending sequences of numbers above lo and up to hi.                   *)

Ascending(s) == \A i, j \in DOMAIN s : i < j => s[i] < s[j]

Within(s, lo, hi) ==
    /\ s \in Seq(Nat) /\ Ascending(s)
    /\ \A i \in DOMAIN s : lo < s[i] /\ s[i] <= hi

LEMMA WithinEmpty == \A lo, hi : Within(<<>>, lo, hi)
<1>1. <<>> \in Seq(Nat) /\ DOMAIN <<>> = {}
  BY EmptySeq
<1> QED BY <1>1 DEF Within, Ascending

LEMMA WithinWider ==
    ASSUME NEW s, NEW lo \in Nat, NEW hi \in Nat, Within(s, lo, hi),
           NEW l \in Nat, NEW h \in Nat, l <= lo, hi <= h
    PROVE  Within(s, l, h)
<1>1. \A i \in DOMAIN s : s[i] \in Nat
  BY LenProperties, ElementOfSeq DEF Within
<1> QED BY <1>1 DEF Within

LEMMA WithinAppend ==
    ASSUME NEW s, NEW lo \in Nat, NEW hi \in Nat, Within(s, lo, hi),
           NEW e \in Nat, lo <= hi, hi < e
    PROVE  Within(Append(s, e), lo, e)
<1>1. /\ s \in Seq(Nat) /\ DOMAIN s = 1 .. Len(s) /\ Len(s) \in Nat
      /\ \A i \in 1 .. Len(s) : s[i] \in Nat /\ lo < s[i] /\ s[i] <= hi
      /\ \A i, j \in 1 .. Len(s) : i < j => s[i] < s[j]
  BY LenProperties, ElementOfSeq DEF Within, Ascending
<1>2. /\ Append(s, e) \in Seq(Nat) /\ DOMAIN Append(s, e) = 1 .. Len(s) + 1
      /\ \A i \in 1 .. Len(s) : Append(s, e)[i] = s[i]
      /\ Append(s, e)[Len(s) + 1] = e
  BY <1>1, AppendProperties, LenProperties
<1> QED BY <1>1, <1>2 DEF Within, Ascending

LEMMA WithinTail ==
    ASSUME NEW s, NEW lo \in Nat, NEW hi \in Nat, Within(s, lo, hi), s # <<>>
    PROVE  /\ Head(s) \in Nat /\ lo < Head(s) /\ Head(s) <= hi
           /\ Within(Tail(s), Head(s), hi)
<1>1. /\ s \in Seq(Nat) /\ DOMAIN s = 1 .. Len(s) /\ Len(s) \in Nat \ {0}
      /\ \A i \in 1 .. Len(s) : s[i] \in Nat /\ lo < s[i] /\ s[i] <= hi
      /\ \A i, j \in 1 .. Len(s) : i < j => s[i] < s[j]
  BY LenProperties, ElementOfSeq, EmptySeq DEF Within, Ascending
<1>2. Head(s) = s[1]
  BY <1>1
<1>3. /\ Tail(s) \in Seq(Nat) /\ DOMAIN Tail(s) = 1 .. Len(s) - 1
      /\ \A i \in 1 .. Len(s) - 1 : Tail(s)[i] = s[i + 1]
  BY <1>1, HeadTailProperties, LenProperties
<1>4. \A i \in 1 .. Len(s) - 1 : i + 1 \in 1 .. Len(s) /\ 1 < i + 1 /\ 1 \in 1 .. Len(s)
  BY <1>1
<1>5. \A i \in DOMAIN Tail(s) : Tail(s)[i] \in Nat /\ Head(s) < Tail(s)[i] /\ Tail(s)[i] <= hi
  BY <1>1, <1>2, <1>3, <1>4
<1>6. ASSUME NEW i \in DOMAIN Tail(s), NEW j \in DOMAIN Tail(s), i < j PROVE Tail(s)[i] < Tail(s)[j]
  <2>1. i + 1 < j + 1
    BY <1>1, <1>3, <1>6
  <2> QED BY <1>1, <1>3, <1>4, <2>1
<1>7. Head(s) \in Nat /\ lo < Head(s) /\ Head(s) <= hi
  BY <1>1, <1>2
<1> QED BY <1>3, <1>5, <1>6, <1>7 DEF Within, Ascending

LEMMA WithinConcat ==
    ASSUME NEW s, NEW t, NEW lo \in Nat, NEW m \in Nat, NEW hi \in Nat, lo <= m, m <= hi,
           Within(s, lo, m), Within(t, m, hi)
    PROVE  Within(s \o t, lo, hi)
<1>1. /\ s \in Seq(Nat) /\ DOMAIN s = 1 .. Len(s) /\ Len(s) \in Nat
      /\ \A i \in 1 .. Len(s) : s[i] \in Nat /\ lo < s[i] /\ s[i] <= m
      /\ \A i, j \in 1 .. Len(s) : i < j => s[i] < s[j]
  BY LenProperties, ElementOfSeq DEF Within, Ascending
<1>2. /\ t \in Seq(Nat) /\ DOMAIN t = 1 .. Len(t) /\ Len(t) \in Nat
      /\ \A i \in 1 .. Len(t) : t[i] \in Nat /\ m < t[i] /\ t[i] <= hi
      /\ \A i, j \in 1 .. Len(t) : i < j => t[i] < t[j]
  BY LenProperties, ElementOfSeq DEF Within, Ascending
<1> DEFINE c == s \o t
<1>3. /\ c \in Seq(Nat) /\ DOMAIN c = 1 .. Len(s) + Len(t)
      /\ \A i \in 1 .. Len(s) + Len(t) : c[i] = IF i <= Len(s) THEN s[i] ELSE t[i - Len(s)]
  BY <1>1, <1>2, ConcatProperties, LenProperties
<1> HIDE DEF c
<1>4. \A m1, m2 \in Nat : \A i \in 1 .. m1 + m2 :
         i \in Int /\ (i <= m1 => i \in 1 .. m1) /\ (~(i <= m1) => i - m1 \in 1 .. m2)
  OBVIOUS
<1>5. ASSUME NEW i \in DOMAIN c
      PROVE  \/ i \in 1 .. Len(s) /\ i <= Len(s) /\ c[i] = s[i]
             \/ i - Len(s) \in 1 .. Len(t) /\ ~(i <= Len(s)) /\ i \in Int /\ c[i] = t[i - Len(s)]
  <2>1. i \in 1 .. Len(s) + Len(t) /\ Len(s) \in Nat /\ Len(t) \in Nat
    BY <1>1, <1>2, <1>3
  <2>2. i \in Int /\ (i <= Len(s) => i \in 1 .. Len(s)) /\ (~(i <= Len(s)) => i - Len(s) \in 1 .. Len(t))
    BY <1>4, <2>1
  <2> QED BY <1>3, <2>1, <2>2
<1>6. ASSUME NEW i \in DOMAIN c PROVE c[i] \in Nat /\ lo < c[i] /\ c[i] <= hi
  <2>1. CASE i \in 1 .. Len(s) /\ c[i] = s[i]
    <3>1. s[i] \in Nat /\ lo < s[i] /\ s[i] <= m
      BY <1>1, <2>1
    <3> QED BY <2>1, <3>1
  <2>2. CASE i - Len(s) \in 1 .. Len(t) /\ c[i] = t[i - Len(s)]
    <3>1. t[i - Len(s)] \in Nat /\ m < t[i - Len(s)] /\ t[i - Len(s)] <= hi
      BY <1>2, <2>2
    <3> QED BY <2>2, <3>1
  <2> QED BY <1>5, <2>1, <2>2
<1>7. Ascending(c)
  <2> SUFFICES ASSUME NEW i \in DOMAIN c, NEW j \in DOMAIN c, i < j PROVE c[i] < c[j]
    BY DEF Ascending
  <2>1. CASE i \in 1 .. Len(s) /\ c[i] = s[i] /\ j \in 1 .. Len(s) /\ c[j] = s[j]
    BY <1>1, <2>1
  <2>2. CASE i \in 1 .. Len(s) /\ c[i] = s[i] /\ j - Len(s) \in 1 .. Len(t) /\ c[j] = t[j - Len(s)]
    <3>1. s[i] \in Nat /\ s[i] <= m /\ t[j - Len(s)] \in Nat /\ m < t[j - Len(s)]
      BY <1>1, <1>2, <2>2
    <3> QED BY <2>2, <3>1
  <2>3. CASE /\ i - Len(s) \in 1 .. Len(t) /\ i \in Int /\ c[i] = t[i - Len(s)]
             /\ j - Len(s) \in 1 .. Len(t) /\ j \in Int /\ c[j] = t[j - Len(s)]
    <3>1. i - Len(s) < j - Len(s)
      BY <1>1, <2>3
    <3>2. t[i - Len(s)] < t[j - Len(s)]
      BY <1>2, <2>3, <3>1
    <3> QED BY <2>3, <3>2
  <2>4. ~(~(i <= Len(s)) /\ i \in Int /\ j \in 1 .. Len(s))
    BY <1>1
  <2> QED BY <1>5, <2>1, <2>2, <2>3, <2>4
<1> QED BY <1>3, <1>6, <1>7 DEF Within, c

LEMMA WithinCut ==
    ASSUME NEW s, NEW lo \in Nat, NEW hi \in Nat, Within(s, lo, hi), NEW n \in 1 .. Len(s)
    PROVE  /\ s[n] \in Nat /\ lo < s[n] /\ s[n] <= hi
           /\ Within(SubSeq(s, 1, n), lo, s[n])
           /\ Within(SubSeq(s, n + 1, Len(s)), s[n], hi)
<1>1. /\ s \in Seq(Nat) /\ DOMAIN s = 1 .. Len(s) /\ Len(s) \in Nat
      /\ \A i \in 1 .. Len(s) : s[i] \in Nat /\ lo < s[i] /\ s[i] <= hi
      /\ \A i, j \in 1 .. Len(s) : i < j => s[i] < s[j]
  BY LenProperties, ElementOfSeq DEF Within, Ascending
<1>2. Within(SubSeq(s, 1, n), lo, s[n])
  <2>1. /\ SubSeq(s, 1, n) \in Seq(Nat) /\ DOMAIN SubSeq(s, 1, n) = 1 .. n
        /\ \A i \in 1 .. n : SubSeq(s, 1, n)[i] = s[i]
    BY <1>1, PrefixProperties, LenProperties
  <2>2. \A i \in 1 .. n : s[i] <= s[n]
    BY <1>1
  <2> QED BY <1>1, <2>1, <2>2 DEF Within, Ascending
<1>3. Within(SubSeq(s, n + 1, Len(s)), s[n], hi)
  <2> DEFINE u == SubSeq(s, n + 1, Len(s))
  <2>1. n + 1 \in 1 .. Len(s) + 1 /\ Len(s) - (n + 1) + 1 = Len(s) - n
    BY <1>1
  <2>2. /\ u \in Seq(Nat) /\ Len(u) = Len(s) - n
        /\ \A i \in 1 .. Len(s) - n : u[i] = s[(n + 1) + i - 1]
    BY <1>1, <2>1, SuffixProperties
  <2>3. DOMAIN u = 1 .. Len(s) - n
    BY <2>2, LenProperties
  <2> HIDE DEF u
  <2>4. ASSUME NEW i \in 1 .. Len(s) - n
        PROVE  u[i] = s[n + i] /\ n + i \in 1 .. Len(s) /\ n < n + i
    <3>1. Len(s) \in Nat /\ n \in 1 .. Len(s)
      BY <1>1
    <3>2. (n + 1) + i - 1 = n + i /\ n + i \in 1 .. Len(s) /\ n < n + i
      BY <3>1
    <3> QED BY <2>2, <3>2
  <2>5. ASSUME NEW i \in DOMAIN u PROVE s[n] < u[i] /\ u[i] <= hi
    <3>1. u[i] = s[n + i] /\ n + i \in 1 .. Len(s) /\ n < n + i
      BY <2>3, <2>4
    <3>2. s[n] < s[n + i] /\ s[n + i] <= hi
      BY <1>1, <3>1
    <3> QED BY <3>1, <3>2
  <2>6. ASSUME NEW i \in DOMAIN u, NEW j \in DOMAIN u, i < j PROVE u[i] < u[j]
    <3>1. n + i \in 1 .. Len(s) /\ n + j \in 1 .. Len(s) /\ n + i < n + j
      <4>1. i \in Int /\ j \in Int /\ n \in Int
        BY <1>1, <2>3
      <4>2. n + i < n + j
        BY <2>6, <4>1
      <4> QED BY <2>3, <2>4, <4>2
    <3>2. u[i] = s[n + i] /\ u[j] = s[n + j]
      BY <2>3, <2>4
    <3>3. s[n + i] < s[n + j]
      BY <1>1, <3>1
    <3> QED BY <3>2, <3>3
  <2> QED BY <2>2, <2>5, <2>6 DEF Within, Ascending, u
<1> QED BY <1>1, <1>2, <1>3

-----------------------------------------------------------------------------
(* Things that follow each other.  Those of T reach from `start` to `end`, *)
(* all of them between lo and hi, and each starts where those before it    *)
(* have ended, or later; what is not in T does not count.                  *)

InOrder(s, T, start, end, lo, hi) ==
    /\ \A i \in DOMAIN s : s[i] \in T => lo <= start[s[i]] /\ end[s[i]] <= hi
    /\ \A i, j \in DOMAIN s :
          i < j /\ s[i] \in T /\ s[j] \in T => end[s[i]] <= start[s[j]]

LEMMA OrderEmpty == \A T, start, end, lo, hi : InOrder(<<>>, T, start, end, lo, hi)
BY EmptySeq DEF InOrder

LEMMA OrderWider ==
    ASSUME NEW S, NEW T \in SUBSET S, NEW start \in [S -> Int], NEW end \in [S -> Int],
           NEW s \in Seq(S)
    PROVE  \A lo, hi, l, h \in Int :
              l <= lo /\ hi <= h /\ InOrder(s, T, start, end, lo, hi)
                 => InOrder(s, T, start, end, l, h)
<1>1. \A i \in DOMAIN s : start[s[i]] \in Int /\ end[s[i]] \in Int
  BY LenProperties, ElementOfSeq
<1> QED BY <1>1 DEF InOrder

\* The parts of a sequence in order are in order.
LEMMA OrderParts ==
    ASSUME NEW S, NEW T \in SUBSET S, NEW start, NEW end, NEW lo, NEW hi,
           NEW s \in Seq(S), NEW t \in Seq(S), InOrder(s \o t, T, start, end, lo, hi)
    PROVE  InOrder(s, T, start, end, lo, hi) /\ InOrder(t, T, start, end, lo, hi)
<1> DEFINE u == s \o t
<1>1. /\ Len(s) \in Nat /\ Len(t) \in Nat /\ DOMAIN s = 1 .. Len(s) /\ DOMAIN t = 1 .. Len(t)
      /\ DOMAIN u = 1 .. Len(s) + Len(t)
      /\ \A i \in 1 .. Len(s) + Len(t) : u[i] = IF i <= Len(s) THEN s[i] ELSE t[i - Len(s)]
  BY LenProperties, ConcatProperties
<1>2. /\ \A i \in DOMAIN u : u[i] \in T => lo <= start[u[i]] /\ end[u[i]] <= hi
      /\ \A i, j \in DOMAIN u :
            i < j /\ u[i] \in T /\ u[j] \in T => end[u[i]] <= start[u[j]]
  BY DEF InOrder
<1> HIDE DEF u
<1>3. \A i \in DOMAIN s : i \in DOMAIN u /\ u[i] = s[i]
  BY <1>1
<1>4. \A i \in DOMAIN t : i + Len(s) \in DOMAIN u /\ u[i + Len(s)] = t[i]
  <2> SUFFICES ASSUME NEW i \in DOMAIN t PROVE i + Len(s) \in DOMAIN u /\ u[i + Len(s)] = t[i]
    OBVIOUS
  <2>1. i + Len(s) \in 1 .. Len(s) + Len(t) /\ ~(i + Len(s) <= Len(s)) /\ (i + Len(s)) - Len(s) = i
    BY <1>1
  <2> QED BY <1>1, <2>1
<1>5. InOrder(s, T, start, end, lo, hi)
  BY <1>2, <1>3 DEF InOrder
<1>6. \A i, j \in DOMAIN t : i < j => i + Len(s) < j + Len(s)
  BY <1>1
<1>7. InOrder(t, T, start, end, lo, hi)
  <2>1. \A i \in DOMAIN t : t[i] \in T => lo <= start[t[i]] /\ end[t[i]] <= hi
    BY <1>2, <1>4
  <2>2. ASSUME NEW i \in DOMAIN t, NEW j \in DOMAIN t, i < j, t[i] \in T, t[j] \in T
        PROVE  end[t[i]] <= start[t[j]]
    <3>1. i + Len(s) < j + Len(s)
      BY <1>6, <2>2
    <3> QED BY <1>2, <1>4, <2>2, <3>1
  <2> QED BY <2>1, <2>2 DEF InOrder
<1> QED BY <1>5, <1>7

\* One after the other.
LEMMA OrderConcat ==
    ASSUME NEW S, NEW T \in SUBSET S, NEW start \in [S -> Int], NEW end \in [S -> Int],
           NEW lo \in Int, NEW m \in Int, NEW hi \in Int, lo <= m, m <= hi,
           NEW s \in Seq(S), NEW t \in Seq(S),
           InOrder(s, T, start, end, lo, m), InOrder(t, T, start, end, m, hi)
    PROVE  InOrder(s \o t, T, start, end, lo, hi)
<1> DEFINE u == s \o t
<1>1. /\ Len(s) \in Nat /\ Len(t) \in Nat /\ DOMAIN s = 1 .. Len(s) /\ DOMAIN t = 1 .. Len(t)
      /\ DOMAIN u = 1 .. Len(s) + Len(t)
      /\ \A i \in 1 .. Len(s) + Len(t) : u[i] = IF i <= Len(s) THEN s[i] ELSE t[i - Len(s)]
  BY LenProperties, ConcatProperties
<1>2. /\ \A i \in DOMAIN s : start[s[i]] \in Int /\ end[s[i]] \in Int
      /\ \A i \in DOMAIN t : start[t[i]] \in Int /\ end[t[i]] \in Int
  BY LenProperties, ElementOfSeq
<1>3. /\ \A i \in DOMAIN s : s[i] \in T => lo <= start[s[i]] /\ end[s[i]] <= m
      /\ \A i, j \in DOMAIN s : i < j /\ s[i] \in T /\ s[j] \in T => end[s[i]] <= start[s[j]]
      /\ \A i \in DOMAIN t : t[i] \in T => m <= start[t[i]] /\ end[t[i]] <= hi
      /\ \A i, j \in DOMAIN t : i < j /\ t[i] \in T /\ t[j] \in T => end[t[i]] <= start[t[j]]
  BY DEF InOrder
<1> HIDE DEF u
<1>4. ASSUME NEW i \in DOMAIN u
      PROVE  \/ i \in DOMAIN s /\ u[i] = s[i] /\ i <= Len(s)
             \/ ~(i <= Len(s)) /\ i - Len(s) \in DOMAIN t /\ u[i] = t[i - Len(s)]
  BY <1>1
<1>5. ASSUME NEW i \in DOMAIN u, u[i] \in T PROVE lo <= start[u[i]] /\ end[u[i]] <= hi
  <2>1. CASE i \in DOMAIN s /\ u[i] = s[i]
    BY <1>2, <1>3, <1>5, <2>1
  <2>2. CASE i - Len(s) \in DOMAIN t /\ u[i] = t[i - Len(s)]
    <3>1. m <= start[u[i]] /\ end[u[i]] <= hi
      BY <1>3, <1>5, <2>2
    <3> QED BY <1>2, <2>2, <3>1
  <2> QED BY <1>4, <2>1, <2>2
<1>6. ASSUME NEW i \in DOMAIN u, NEW j \in DOMAIN u, i < j, u[i] \in T, u[j] \in T
      PROVE  end[u[i]] <= start[u[j]]
  <2>1. i \in Int /\ j \in Int /\ Len(s) \in Int
    BY <1>1
  <2>2. CASE j <= Len(s)
    <3>1. i <= Len(s)
      BY <1>6, <2>1, <2>2
    <3> QED BY <1>3, <1>4, <1>6, <2>2, <3>1
  <2>3. CASE ~(j <= Len(s)) /\ i <= Len(s)
    BY <1>2, <1>3, <1>4, <1>6, <2>3
  <2>4. CASE ~(i <= Len(s))
    <3>1. ~(j <= Len(s)) /\ i - Len(s) < j - Len(s)
      BY <1>6, <2>1, <2>4
    <3>2. i - Len(s) \in DOMAIN t /\ u[i] = t[i - Len(s)]
      BY <1>4, <2>4
    <3>3. j - Len(s) \in DOMAIN t /\ u[j] = t[j - Len(s)]
      BY <1>4, <3>1
    <3> QED BY <1>3, <1>6, <3>1, <3>2, <3>3
  <2> QED BY <2>2, <2>3, <2>4
<1> QED BY <1>5, <1>6 DEF InOrder, u

LEMMA OrderOne ==
    ASSUME NEW S, NEW T \in SUBSET S, NEW start \in [S -> Int], NEW end \in [S -> Int],
           NEW lo \in Int, NEW hi \in Int,
           NEW e \in S, e \in T => lo <= start[e] /\ end[e] <= hi
    PROVE  InOrder(<<e>>, T, start, end, lo, hi)
BY DEF InOrder

LEMMA OrderAppend ==
    ASSUME NEW S, NEW T \in SUBSET S, NEW start \in [S -> Int], NEW end \in [S -> Int],
           NEW lo \in Int, NEW m \in Int, NEW hi \in Int, lo <= m, m <= hi,
           NEW s \in Seq(S), NEW e \in S,
           InOrder(s, T, start, end, lo, m), e \in T => m <= start[e] /\ end[e] <= hi
    PROVE  InOrder(Append(s, e), T, start, end, lo, hi)
<1>1. InOrder(<<e>>, T, start, end, m, hi)
  BY OrderOne
<1>2. <<e>> \in Seq(S) /\ Append(s, e) = s \o <<e>>
  BY AppendIsConcat
<1>3. InOrder(s \o <<e>>, T, start, end, lo, hi)
  BY <1>1, <1>2, OrderConcat
<1> QED BY <1>2, <1>3

\* What follows the first one starts where that one ends.
LEMMA OrderTail ==
    ASSUME NEW S, NEW T \in SUBSET S, NEW start \in [S -> Int], NEW end \in [S -> Int],
           NEW lo \in Int, NEW hi \in Int,
           NEW s \in Seq(S), s # <<>>, InOrder(s, T, start, end, lo, hi)
    PROVE  /\ Head(s) \in S /\ Tail(s) \in Seq(S)
           /\ InOrder(Tail(s), T, start, end, lo, hi)
           /\ Head(s) \in T => /\ lo <= start[Head(s)] /\ end[Head(s)] <= hi
                               /\ InOrder(Tail(s), T, start, end, end[Head(s)], hi)
<1>1. /\ Len(s) \in Nat \ {0} /\ Head(s) = s[1] /\ Head(s) \in S /\ DOMAIN s = 1 .. Len(s)
      /\ Tail(s) \in Seq(S) /\ DOMAIN Tail(s) = 1 .. Len(s) - 1
      /\ \A i \in 1 .. Len(s) - 1 : Tail(s)[i] = s[i + 1]
  BY EmptySeq, LenProperties, HeadTailProperties
<1>2. /\ \A i \in DOMAIN s : s[i] \in T => lo <= start[s[i]] /\ end[s[i]] <= hi
      /\ \A i, j \in DOMAIN s : i < j /\ s[i] \in T /\ s[j] \in T => end[s[i]] <= start[s[j]]
  BY DEF InOrder
<1>3. \A i \in DOMAIN Tail(s) : i + 1 \in DOMAIN s /\ Tail(s)[i] = s[i + 1] /\ 1 < i + 1
  BY <1>1
<1>4. \A i, j \in DOMAIN Tail(s) : i < j => i + 1 < j + 1
  BY <1>1
<1>5. \A i, j \in DOMAIN Tail(s) :
         i < j /\ Tail(s)[i] \in T /\ Tail(s)[j] \in T => end[Tail(s)[i]] <= start[Tail(s)[j]]
  BY <1>2, <1>3, <1>4
<1>6. InOrder(Tail(s), T, start, end, lo, hi)
  BY <1>2, <1>3, <1>5 DEF InOrder
<1>7. ASSUME Head(s) \in T
      PROVE  /\ lo <= start[Head(s)] /\ end[Head(s)] <= hi
             /\ InOrder(Tail(s), T, start, end, end[Head(s)], hi)
  <2>1. 1 \in DOMAIN s /\ s[1] \in T
    BY <1>1, <1>7
  <2> QED BY <1>1, <1>2, <1>3, <1>5, <2>1 DEF InOrder
<1> QED BY <1>1, <1>6, <1>7

-----------------------------------------------------------------------------
(* A sequence with one of its elements in two.                             *)

\* The k-th of s in two, `first` and `second`.
CutAt(s, c, k, first, second) ==
    /\ k \in 1 .. Len(s) /\ Len(c) = Len(s) + 1
    /\ \A i \in 1 .. k - 1 : c[i] = s[i]
    /\ c[k] = first /\ c[k + 1] = second
    /\ \A i \in k + 2 .. Len(c) : c[i] = s[i - 1]

\* Each of c comes from a place in s, and only the two parts from the same one.
Origins(s, c, k, first, second) ==
    \E org \in [DOMAIN c -> DOMAIN s] :
       /\ \A i \in DOMAIN c : c[i] = s[org[i]] \/ (org[i] = k /\ c[i] \in {first, second})
       /\ \A i, j \in DOMAIN c : i < j => org[i] < org[j] \/ (c[i] = first /\ c[j] = second)

LEMMA CutOrigins ==
    ASSUME NEW S, NEW s \in Seq(S), NEW c \in Seq(S), NEW k \in Nat, NEW first, NEW second,
           CutAt(s, c, k, first, second)
    PROVE  Origins(s, c, k, first, second)
<1>1. /\ Len(s) \in Nat /\ k \in Nat /\ 1 <= k /\ k <= Len(s)
      /\ DOMAIN s = 1 .. Len(s) /\ DOMAIN c = 1 .. Len(s) + 1
  BY LenProperties DEF CutAt
<1> DEFINE org == [i \in DOMAIN c |-> IF i <= k THEN i ELSE i - 1]
<1>2. org \in [DOMAIN c -> DOMAIN s]
  BY <1>1
<1>3. \A i \in DOMAIN c : org[i] = IF i <= k THEN i ELSE i - 1
  OBVIOUS
<1> HIDE DEF org
<1>4. ASSUME NEW i \in DOMAIN c PROVE c[i] = s[org[i]] \/ (org[i] = k /\ c[i] \in {first, second})
  <2>1. CASE i < k
    <3>1. i \in 1 .. k - 1 /\ org[i] = i
      BY <1>1, <1>3, <2>1
    <3> QED BY <3>1 DEF CutAt
  <2>2. CASE i = k
    <3>1. org[i] = k /\ c[i] = first
      BY <1>1, <1>3, <2>2 DEF CutAt
    <3> QED BY <3>1
  <2>3. CASE i = k + 1
    <3>1. org[i] = k
      BY <1>1, <1>3, <2>3
    <3>2. c[i] = second
      BY <2>3 DEF CutAt
    <3> QED BY <3>1, <3>2
  <2>4. CASE k + 1 < i
    <3>1. i \in k + 2 .. Len(c) /\ org[i] = i - 1
      BY <1>1, <1>3, <2>4 DEF CutAt
    <3> QED BY <3>1 DEF CutAt
  <2> QED BY <1>1, <2>1, <2>2, <2>3, <2>4
<1>5. ASSUME NEW i \in DOMAIN c, NEW j \in DOMAIN c, i < j
      PROVE  org[i] < org[j] \/ (c[i] = first /\ c[j] = second)
  <2>1. org[i] < org[j] \/ (i = k /\ j = k + 1)
    BY <1>1, <1>3, <1>5
  <2> QED BY <2>1 DEF CutAt
<1> QED BY <1>2, <1>4, <1>5 DEF Origins

\* Nothing of s is lost but the k-th, and both of its parts are there.
LEMMA CutRange ==
    ASSUME NEW S, NEW s \in Seq(S), NEW c \in Seq(S), NEW k \in Nat, NEW first, NEW second,
           CutAt(s, c, k, first, second)
    PROVE  /\ first \in Range(c) /\ second \in Range(c)
           /\ \A x \in Range(s) : x = s[k] \/ x \in Range(c)
<1>1. /\ Len(s) \in Nat /\ k \in Nat /\ 1 <= k /\ k <= Len(s)
      /\ DOMAIN s = 1 .. Len(s) /\ DOMAIN c = 1 .. Len(s) + 1
  BY LenProperties DEF CutAt
<1>2. k \in DOMAIN c /\ k + 1 \in DOMAIN c /\ c[k] = first /\ c[k + 1] = second
  BY <1>1 DEF CutAt
<1>3. ASSUME NEW i \in DOMAIN s, i # k PROVE s[i] \in Range(c)
  <2>1. CASE i < k
    <3>1. i \in 1 .. k - 1 /\ i \in DOMAIN c
      BY <1>1, <2>1
    <3> QED BY <3>1 DEF CutAt, Range
  <2>2. CASE k < i
    <3>1. i + 1 \in k + 2 .. Len(c) /\ i + 1 \in DOMAIN c /\ (i + 1) - 1 = i
      BY <1>1, <2>2 DEF CutAt
    <3>2. c[i + 1] = s[(i + 1) - 1]
      BY <3>1 DEF CutAt
    <3> QED BY <3>1, <3>2 DEF Range
  <2> QED BY <1>1, <1>3, <2>1, <2>2
<1> QED BY <1>2, <1>3 DEF Range

\* What was in order still is, if the two parts are within what the whole spanned.
LEMMA OrderCut ==
    ASSUME NEW S, NEW T \in SUBSET S, NEW start, NEW end, \A x \in S : start[x] \in Int /\ end[x] \in Int,
           NEW lo \in Int, NEW hi \in Int, NEW s \in Seq(S), NEW c \in Seq(S), NEW k \in Nat,
           NEW first \in S, NEW second \in S, CutAt(s, c, k, first, second),
           InOrder(s, T, start, end, lo, hi), end[first] <= start[second],
           \A x \in {first, second} :
              /\ x \in T => s[k] \in T
              /\ start[s[k]] <= start[x] /\ end[x] <= end[s[k]]
    PROVE  InOrder(c, T, start, end, lo, hi)
<1>1. PICK org \in [DOMAIN c -> DOMAIN s] :
         /\ \A i \in DOMAIN c : c[i] = s[org[i]] \/ (org[i] = k /\ c[i] \in {first, second})
         /\ \A i, j \in DOMAIN c : i < j => org[i] < org[j] \/ (c[i] = first /\ c[j] = second)
  <2>1. Origins(s, c, k, first, second)
    BY CutOrigins
  <2> QED BY <2>1 DEF Origins
<1>2. \A i \in DOMAIN s : start[s[i]] \in Int /\ end[s[i]] \in Int
  BY LenProperties, ElementOfSeq
<1>3. \A i \in DOMAIN c : start[c[i]] \in Int /\ end[c[i]] \in Int
  BY LenProperties, ElementOfSeq
<1>4. \A x, y, z \in Int : x <= x /\ (x <= y /\ y <= z => x <= z)
  OBVIOUS
<1>5. ASSUME NEW i \in DOMAIN c, c[i] \in T
      PROVE  /\ org[i] \in DOMAIN s /\ s[org[i]] \in T
             /\ start[s[org[i]]] <= start[c[i]] /\ end[c[i]] <= end[s[org[i]]]
  <2>1. CASE c[i] = s[org[i]]
    BY <1>1, <1>2, <1>4, <1>5, <2>1
  <2>2. CASE org[i] = k /\ c[i] \in {first, second}
    BY <1>1, <1>5, <2>2
  <2> QED BY <1>1, <2>1, <2>2
<1>6. ASSUME NEW i \in DOMAIN c, c[i] \in T PROVE lo <= start[c[i]] /\ end[c[i]] <= hi
  <2>1. lo <= start[s[org[i]]] /\ end[s[org[i]]] <= hi
    BY <1>5, <1>6 DEF InOrder
  <2>2. /\ start[s[org[i]]] \in Int /\ end[s[org[i]]] \in Int
        /\ start[c[i]] \in Int /\ end[c[i]] \in Int
    BY <1>2, <1>3, <1>5, <1>6
  <2>3. start[s[org[i]]] <= start[c[i]] /\ end[c[i]] <= end[s[org[i]]]
    BY <1>5, <1>6
  <2> QED BY <2>1, <2>2, <2>3, SMTT(30)
<1>7. ASSUME NEW i \in DOMAIN c, NEW j \in DOMAIN c, i < j, c[i] \in T, c[j] \in T
      PROVE  end[c[i]] <= start[c[j]]
  <2>1. CASE org[i] < org[j]
    <3>1. end[s[org[i]]] <= start[s[org[j]]]
      BY <1>5, <1>7, <2>1 DEF InOrder
    <3>2. /\ end[c[i]] \in Int /\ end[s[org[i]]] \in Int
          /\ start[s[org[j]]] \in Int /\ start[c[j]] \in Int
      BY <1>2, <1>3, <1>5, <1>7
    <3>3. end[c[i]] <= end[s[org[i]]] /\ start[s[org[j]]] <= start[c[j]]
      BY <1>5, <1>7
    <3> QED BY <3>1, <3>2, <3>3, SMTT(30)
  <2> QED BY <1>1, <1>7, <2>1
<1> QED BY <1>6, <1>7 DEF InOrder

-----------------------------------------------------------------------------
(* What a sequence holds.                                                  *)

LEMMA RangeAppend ==
    ASSUME NEW S, NEW s \in Seq(S), NEW e \in S
    PROVE  Range(Append(s, e)) = Range(s) \cup {e}
<1>1. /\ Len(s) \in Nat /\ DOMAIN s = 1 .. Len(s) /\ DOMAIN Append(s, e) = 1 .. Len(s) + 1
      /\ \A i \in 1 .. Len(s) : Append(s, e)[i] = s[i]
      /\ Append(s, e)[Len(s) + 1] = e
  BY LenProperties, AppendProperties
<1>2. \A i \in 1 .. Len(s) + 1 : i \in 1 .. Len(s) \/ i = Len(s) + 1
  BY <1>1
<1>3. \A i \in 1 .. Len(s) : i \in 1 .. Len(s) + 1
  BY <1>1
<1>4. Len(s) + 1 \in 1 .. Len(s) + 1
  BY <1>1
<1> QED BY <1>1, <1>2, <1>3, <1>4 DEF Range

LEMMA RangeTail ==
    ASSUME NEW S, NEW s \in Seq(S), s # <<>>
    PROVE  Range(s) = {Head(s)} \cup Range(Tail(s))
<1>1. /\ Len(s) \in Nat \ {0} /\ DOMAIN s = 1 .. Len(s) /\ Head(s) = s[1]
      /\ DOMAIN Tail(s) = 1 .. Len(s) - 1
      /\ \A i \in 1 .. Len(s) - 1 : Tail(s)[i] = s[i + 1]
  BY EmptySeq, LenProperties, HeadTailProperties
<1>2. \A i \in 1 .. Len(s) : i = 1 \/ (i - 1 \in 1 .. Len(s) - 1 /\ (i - 1) + 1 = i)
  BY <1>1
<1>3. \A i \in 1 .. Len(s) - 1 : i + 1 \in 1 .. Len(s)
  BY <1>1
<1>4. 1 \in 1 .. Len(s)
  BY <1>1
<1>5. \A x \in Range(s) : x = s[1] \/ x \in Range(Tail(s))
  <2>1. \A i \in 1 .. Len(s) - 1 : Tail(s)[i] \in Range(Tail(s))
    BY <1>1 DEF Range
  <2>2. \A i \in DOMAIN s : s[i] = s[1] \/ s[i] \in Range(Tail(s))
    BY <1>1, <1>2, <2>1
  <2> QED BY <2>2 DEF Range
<1>6. \A x \in Range(Tail(s)) : x \in Range(s)
  BY <1>1, <1>3 DEF Range
<1>7. s[1] \in Range(s)
  BY <1>1, <1>4 DEF Range
<1> QED BY <1>1, <1>5, <1>6, <1>7

\* With another first element.
LEMMA FirstReplaced ==
    ASSUME NEW S, NEW s \in Seq(S), s # <<>>, NEW e \in S
    PROVE  /\ [s EXCEPT ![1] = e] \in Seq(S) /\ [s EXCEPT ![1] = e] # <<>>
           /\ Head([s EXCEPT ![1] = e]) = e /\ Tail([s EXCEPT ![1] = e]) = Tail(s)
<1> DEFINE r == [s EXCEPT ![1] = e]
<1>1. /\ Len(s) \in Nat \ {0} /\ DOMAIN s = 1 .. Len(s) /\ 1 \in DOMAIN s
      /\ Tail(s) \in Seq(S) /\ Len(Tail(s)) = Len(s) - 1
      /\ \A i \in 1 .. Len(s) - 1 : Tail(s)[i] = s[i + 1]
  BY EmptySeq, LenProperties, HeadTailProperties
<1>2. /\ r \in Seq(S) /\ Len(r) = Len(s) /\ r[1] = e
      /\ \A i \in 1 .. Len(s) : i # 1 => r[i] = s[i]
  BY <1>1, ReplaceType
<1> HIDE DEF r
<1>3. r # <<>> /\ Head(r) = e
  BY <1>1, <1>2, EmptySeq
<1>4. /\ Tail(r) \in Seq(S) /\ Len(Tail(r)) = Len(r) - 1
      /\ \A i \in 1 .. Len(r) - 1 : Tail(r)[i] = r[i + 1]
  BY <1>2, <1>3, HeadTailProperties
<1>5. \A i \in 1 .. Len(s) - 1 : i + 1 \in 1 .. Len(s) /\ i + 1 # 1
  BY <1>1
<1>6. \A i \in 1 .. Len(Tail(r)) : Tail(r)[i] = Tail(s)[i]
  BY <1>1, <1>2, <1>4, <1>5
<1>7. Tail(r) = Tail(s)
  BY <1>1, <1>2, <1>4, <1>6, SeqEqual
<1> QED BY <1>2, <1>3, <1>7 DEF r

-----------------------------------------------------------------------------
(* Sequences of which each element stands in relation R to all after it.   *)

Chained(s, R) == \A i, j \in DOMAIN s : i < j => <<s[i], s[j]>> \in R

LEMMA ChainedEmpty == \A R : Chained(<<>>, R)
BY EmptySeq DEF Chained

LEMMA ChainedAppend ==
    ASSUME NEW S, NEW R, NEW s \in Seq(S), NEW e \in S,
           Chained(s, R), \A x \in Range(s) : <<x, e>> \in R
    PROVE  Chained(Append(s, e), R)
<1>1. /\ Len(s) \in Nat /\ DOMAIN s = 1 .. Len(s) /\ DOMAIN Append(s, e) = 1 .. Len(s) + 1
      /\ \A i \in 1 .. Len(s) : Append(s, e)[i] = s[i]
      /\ Append(s, e)[Len(s) + 1] = e
  BY LenProperties, AppendProperties
<1>2. \A i, j \in 1 .. Len(s) + 1 : i < j => i \in 1 .. Len(s) /\ (j \in 1 .. Len(s) \/ j = Len(s) + 1)
  BY <1>1
<1>3. \A i \in 1 .. Len(s) : s[i] \in Range(s)
  BY <1>1 DEF Range
<1> QED BY <1>1, <1>2, <1>3 DEF Chained

LEMMA ChainedTail ==
    ASSUME NEW S, NEW R, NEW s \in Seq(S), s # <<>>, Chained(s, R)
    PROVE  Chained(Tail(s), R) /\ \A x \in Range(Tail(s)) : <<Head(s), x>> \in R
<1>1. /\ Len(s) \in Nat \ {0} /\ DOMAIN s = 1 .. Len(s) /\ Head(s) = s[1]
      /\ DOMAIN Tail(s) = 1 .. Len(s) - 1
      /\ \A i \in 1 .. Len(s) - 1 : Tail(s)[i] = s[i + 1]
  BY EmptySeq, LenProperties, HeadTailProperties
<1>2. \A i \in 1 .. Len(s) - 1 : i + 1 \in 1 .. Len(s) /\ 1 < i + 1 /\ 1 \in 1 .. Len(s)
  BY <1>1
<1>3. \A i, j \in 1 .. Len(s) - 1 : i < j => i + 1 < j + 1
  BY <1>1
<1>4. Chained(Tail(s), R)
  BY <1>1, <1>2, <1>3 DEF Chained
<1>5. \A i \in 1 .. Len(s) - 1 : <<s[1], Tail(s)[i]>> \in R
  BY <1>1, <1>2 DEF Chained
<1> QED BY <1>1, <1>4, <1>5 DEF Range

LEMMA ChainedFirst ==
    ASSUME NEW S, NEW R, NEW s \in Seq(S), s # <<>>,
           Chained(Tail(s), R), \A x \in Range(Tail(s)) : <<Head(s), x>> \in R
    PROVE  Chained(s, R)
<1>1. /\ Len(s) \in Nat \ {0} /\ DOMAIN s = 1 .. Len(s) /\ Head(s) = s[1]
      /\ DOMAIN Tail(s) = 1 .. Len(s) - 1
      /\ \A i \in 1 .. Len(s) - 1 : Tail(s)[i] = s[i + 1]
  BY EmptySeq, LenProperties, HeadTailProperties
<1> SUFFICES ASSUME NEW i \in DOMAIN s, NEW j \in DOMAIN s, i < j PROVE <<s[i], s[j]>> \in R
  BY DEF Chained
<1>2. j - 1 \in 1 .. Len(s) - 1 /\ (j - 1) + 1 = j /\ i \in Int
  BY <1>1
<1>3. Tail(s)[j - 1] = s[j]
  BY <1>1, <1>2
<1>4. CASE i = 1
  BY <1>1, <1>2, <1>3, <1>4 DEF Range
<1>5. CASE i # 1
  <2>1. i - 1 \in 1 .. Len(s) - 1 /\ (i - 1) + 1 = i /\ i - 1 < j - 1
    BY <1>1, <1>2, <1>5
  <2>2. Tail(s)[i - 1] = s[i]
    BY <1>1, <2>1
  <2> QED BY <1>1, <1>2, <1>3, <2>1, <2>2 DEF Chained
<1> QED BY <1>4, <1>5

-----------------------------------------------------------------------------
(* Sequences without a gap: from a to b, each starts where the one before  *)
(* it ends.                                                                *)

Linked(s, start, end, a, b) ==
    \A i \in 1 .. Len(s) + 1 :
        (IF i = 1 THEN a ELSE end[s[i - 1]]) = (IF i = Len(s) + 1 THEN b ELSE start[s[i]])

LEMMA LinkedEmpty == \A start, end, a : Linked(<<>>, start, end, a, a)
<1>1. \A i \in 1 .. Len(<<>>) + 1 : i = 1 /\ i = Len(<<>>) + 1
  BY EmptySeq
<1> QED BY <1>1 DEF Linked

LEMMA LinkedNothing ==
    ASSUME NEW start, NEW end, NEW a, NEW b, Linked(<<>>, start, end, a, b)
    PROVE  a = b
<1>1. 1 \in 1 .. Len(<<>>) + 1 /\ 1 = Len(<<>>) + 1
  BY EmptySeq
<1> QED BY <1>1 DEF Linked

LEMMA LinkedTail ==
    ASSUME NEW S, NEW start, NEW end, NEW s \in Seq(S), s # <<>>, NEW a, NEW b,
           Linked(s, start, end, a, b)
    PROVE  start[Head(s)] = a /\ Linked(Tail(s), start, end, end[Head(s)], b)
<1>1. /\ Len(s) \in Nat \ {0} /\ Head(s) = s[1]
      /\ Len(Tail(s)) = Len(s) - 1
      /\ \A i \in 1 .. Len(s) - 1 : Tail(s)[i] = s[i + 1]
  BY EmptySeq, LenProperties, HeadTailProperties
<1>2. start[s[1]] = a
  <2>1. 1 \in 1 .. Len(s) + 1 /\ 1 # Len(s) + 1
    BY <1>1
  <2> QED BY <2>1 DEF Linked
<1> DEFINE t == Tail(s)
<1>3. Len(t) = Len(s) - 1 /\ Len(s) \in Int
  BY <1>1
<1> HIDE DEF t
<1>4. ASSUME NEW i \in 1 .. Len(t) + 1
      PROVE  (IF i = 1 THEN end[s[1]] ELSE end[t[i - 1]]) = (IF i = Len(t) + 1 THEN b ELSE start[t[i]])
  <2>0. i \in Int /\ 1 <= i /\ i <= Len(s)
    BY <1>1, <1>3
  <2>1. i + 1 \in 1 .. Len(s) + 1 /\ i + 1 # 1 /\ (i + 1) - 1 = i
    BY <1>1, <2>0
  <2>2. end[s[i]] = IF i + 1 = Len(s) + 1 THEN b ELSE start[s[i + 1]]
    BY <2>1 DEF Linked
  <2>3. i + 1 = Len(s) + 1 <=> i = Len(t) + 1
    BY <1>3, <2>0
  <2>4. i # Len(t) + 1 => t[i] = s[i + 1]
    <3>1. i # Len(t) + 1 => i \in 1 .. Len(s) - 1
      BY <1>3, <2>0
    <3> QED BY <1>1, <3>1 DEF t
  <2>5. i # 1 => t[i - 1] = s[i]
    <3>1. i # 1 => i - 1 \in 1 .. Len(s) - 1 /\ (i - 1) + 1 = i
      BY <1>1, <2>0
    <3> QED BY <1>1, <3>1 DEF t
  <2> QED BY <2>2, <2>3, <2>4, <2>5
<1> QED BY <1>1, <1>2, <1>4 DEF Linked, t

LEMMA LinkedAppend ==
    ASSUME NEW S, NEW start, NEW end, NEW s \in Seq(S), NEW e \in S, NEW a,
           Linked(s, start, end, a, start[e])
    PROVE  Linked(Append(s, e), start, end, a, end[e])
<1>1. /\ Len(s) \in Nat /\ Len(Append(s, e)) = Len(s) + 1
      /\ \A i \in 1 .. Len(s) : Append(s, e)[i] = s[i]
      /\ Append(s, e)[Len(s) + 1] = e
  BY LenProperties, AppendProperties
<1> DEFINE t == Append(s, e)
<1> HIDE DEF t
<1>2. ASSUME NEW i \in 1 .. Len(t) + 1
      PROVE  (IF i = 1 THEN a ELSE end[t[i - 1]]) = (IF i = Len(t) + 1 THEN end[e] ELSE start[t[i]])
  <2>0. i \in Int /\ 1 <= i /\ i <= Len(s) + 2 /\ Len(t) + 1 = Len(s) + 2
    BY <1>1 DEF t
  <2>1. CASE i = Len(s) + 2
    <3>1. i - 1 = Len(s) + 1 /\ i # 1
      BY <1>1, <2>1
    <3> QED BY <1>1, <2>0, <2>1, <3>1 DEF t
  <2>2. CASE i # Len(s) + 2
    <3>1. i \in 1 .. Len(s) + 1 /\ i # Len(t) + 1
      BY <1>1, <2>0, <2>2
    <3>2. i # 1 => t[i - 1] = s[i - 1]
      <4>1. i # 1 => i - 1 \in 1 .. Len(s)
        BY <1>1, <3>1
      <4> QED BY <1>1, <4>1 DEF t
    <3>3. i # Len(s) + 1 => t[i] = s[i]
      <4>1. i # Len(s) + 1 => i \in 1 .. Len(s)
        BY <1>1, <3>1
      <4> QED BY <1>1, <4>1 DEF t
    <3>4. (IF i = 1 THEN a ELSE end[s[i - 1]]) = (IF i = Len(s) + 1 THEN start[e] ELSE start[s[i]])
      BY <3>1 DEF Linked
    <3> QED BY <1>1, <3>1, <3>2, <3>3, <3>4 DEF t
  <2> QED BY <2>1, <2>2
<1> QED BY <1>2 DEF Linked, t

LEMMA LinkedCut ==
    ASSUME NEW S, NEW start, NEW end, NEW s \in Seq(S), NEW c \in Seq(S), NEW k \in Nat,
           NEW first, NEW second, CutAt(s, c, k, first, second), NEW a, NEW b,
           Linked(s, start, end, a, b),
           start[first] = start[s[k]], end[first] = start[second], end[second] = end[s[k]]
    PROVE  Linked(c, start, end, a, b)
<1>1. Len(s) \in Nat /\ Len(c) = Len(s) + 1 /\ k \in Nat /\ 1 <= k /\ k <= Len(s)
  BY LenProperties DEF CutAt
<1>2. \A i \in 1 .. k - 1 : c[i] = s[i]
  BY DEF CutAt
<1>3. \A i \in k + 2 .. Len(c) : c[i] = s[i - 1]
  BY DEF CutAt
<1>4. c[k] = first /\ c[k + 1] = second
  BY DEF CutAt
<1> SUFFICES ASSUME NEW i \in 1 .. Len(c) + 1
             PROVE  (IF i = 1 THEN a ELSE end[c[i - 1]]) = (IF i = Len(c) + 1 THEN b ELSE start[c[i]])
  BY DEF Linked
<1>5. i \in Int /\ 1 <= i /\ i <= Len(s) + 2
  BY <1>1
<1>6. CASE i <= k
  <2>1. i \in 1 .. Len(s) + 1 /\ i # Len(s) + 1 /\ i # Len(c) + 1
    BY <1>1, <1>5, <1>6
  <2>2. (IF i = 1 THEN a ELSE end[s[i - 1]]) = start[s[i]]
    BY <2>1 DEF Linked
  <2>3. i # 1 => c[i - 1] = s[i - 1]
    <3>1. i # 1 => i - 1 \in 1 .. k - 1
      BY <1>1, <1>5, <1>6
    <3> QED BY <1>2, <3>1
  <2>4. start[c[i]] = start[s[i]]
    <3>1. i # k => i \in 1 .. k - 1
      BY <1>1, <1>5, <1>6
    <3> QED BY <1>2, <1>4, <3>1
  <2> QED BY <2>1, <2>2, <2>3, <2>4
<1>7. CASE i = k + 1
  <2>1. i # 1 /\ i # Len(c) + 1 /\ i - 1 = k
    BY <1>1, <1>7
  <2> QED BY <1>4, <1>7, <2>1
<1>8. CASE k + 1 < i
  <2> DEFINE j == i - 1
  <2>1. /\ j \in 1 .. Len(s) + 1 /\ j # 1 /\ i # 1 /\ j - 1 = i - 2 /\ (j = Len(s) + 1 <=> i = Len(c) + 1)
    BY <1>1, <1>5, <1>8
  <2>2. end[s[j - 1]] = (IF j = Len(s) + 1 THEN b ELSE start[s[j]])
    BY <2>1 DEF Linked
  <2>3. end[c[i - 1]] = end[s[i - 2]]
    <3>1. CASE i = k + 2
      <4>1. i - 1 = k + 1 /\ i - 2 = k
        BY <1>1, <3>1
      <4> QED BY <1>4, <4>1
    <3>2. CASE i # k + 2
      <4>1. i - 1 \in k + 2 .. Len(c) /\ (i - 1) - 1 = i - 2
        BY <1>1, <1>5, <1>8, <3>2
      <4>2. c[i - 1] = s[(i - 1) - 1]
        BY <1>3, <4>1
      <4> QED BY <4>1, <4>2
    <3> QED BY <3>1, <3>2
  <2>4. i # Len(c) + 1 => c[i] = s[j]
    <3>1. i # Len(c) + 1 => i \in k + 2 .. Len(c)
      BY <1>1, <1>5, <1>8
    <3> QED BY <1>3, <3>1
  <2> QED BY <2>1, <2>2, <2>3, <2>4
<1>9. i <= k \/ i = k + 1 \/ k + 1 < i
  BY <1>1, <1>5
<1> QED BY <1>6, <1>7, <1>8, <1>9

-----------------------------------------------------------------------------
\* Every set of naturals that is not empty has a least element.
LEMMA SmallestOf ==
    ASSUME NEW T, T \subseteq Nat, T # {}
    PROVE  \E x \in T : \A y \in T : x <= y
<1> DEFINE R == {ss \in Nat \X Nat : ss[1] < ss[2]}
<1>1. IsWellFoundedOn(R, Nat)
  BY NatLessThanWellFounded DEF OpToRel
<1>2. PICK x \in T : \A y \in T : ~ (<<y, x>> \in R)
  BY <1>1, WFMin
<1>3. \A y \in T : ~(y < x)
  BY <1>2
<1> QED BY <1>2, <1>3

\* Induction up to n, of a set where the theorems of the library have an operator.
LEMMA CountUp ==
    ASSUME NEW n \in Nat, NEW T, 0 \in T, \A i \in 0 .. n : i # n /\ i \in T => i + 1 \in T
    PROVE  \A i \in 0 .. n : i \in T
<1> DEFINE Bad == (0 .. n) \ T
<1> SUFFICES ASSUME Bad # {} PROVE FALSE
  OBVIOUS
<1>1. PICK x \in Bad : \A y \in Bad : x <= y
  <2>1. Bad \subseteq Nat
    OBVIOUS
  <2> HIDE DEF Bad
  <2> QED BY <2>1, SmallestOf
<1>2. x \in Nat /\ x # 0 /\ x <= n /\ x \notin T
  OBVIOUS
<1>3. x - 1 \in 0 .. n /\ x - 1 # n /\ (x - 1) + 1 = x /\ ~(x <= x - 1)
  BY <1>2
<1>4. x - 1 \in T
  BY <1>1, <1>3
<1> QED BY <1>2, <1>3, <1>4

-----------------------------------------------------------------------------
(* Sequences of sequences, put together.                                   *)

\* f says what has been put together after each of the sequences.
Puts(f, ss) ==
    /\ DOMAIN f = 0 .. Len(ss) /\ f[0] = <<>>
    /\ \A i \in 0 .. Len(ss) : i # Len(ss) => f[i + 1] = f[i] \o ss[i + 1]

\* The elements of a sequence of sequences.
LEMMA SeqOfSeqs ==
    ASSUME NEW S, NEW ss \in Seq(Seq(S))
    PROVE  /\ Len(ss) \in Nat
           /\ \A i \in 0 .. Len(ss) : i # Len(ss) => i + 1 \in 1 .. Len(ss) /\ ss[i + 1] \in Seq(S)
<1>1. Len(ss) \in Nat /\ \A i \in 1 .. Len(ss) : ss[i] \in Seq(S)
  BY LenProperties, ElementOfSeq
<1>2. \A i \in 0 .. Len(ss) : i # Len(ss) => i + 1 \in 1 .. Len(ss)
  BY <1>1
<1> QED BY <1>1, <1>2

LEMMA PutsTyped ==
    ASSUME NEW S, NEW ss \in Seq(Seq(S)), NEW f, Puts(f, ss)
    PROVE  \A i \in 0 .. Len(ss) : f[i] \in Seq(S)
<1> DEFINE T == {i \in 0 .. Len(ss) : f[i] \in Seq(S)}
<1>1. Len(ss) \in Nat /\ \A i \in 0 .. Len(ss) : i # Len(ss) => ss[i + 1] \in Seq(S)
  BY SeqOfSeqs
<1>2. 0 \in T
  <2>1. <<>> \in Seq(S) /\ 0 \in 0 .. Len(ss)
    BY <1>1, EmptySeq
  <2> QED BY <2>1 DEF Puts
<1>3. ASSUME NEW i \in 0 .. Len(ss), i # Len(ss), i \in T PROVE i + 1 \in T
  <2>1. f[i + 1] = f[i] \o ss[i + 1] /\ f[i] \in Seq(S) /\ ss[i + 1] \in Seq(S)
    BY <1>1, <1>3 DEF Puts
  <2>2. f[i + 1] \in Seq(S)
    BY <2>1, ConcatProperties
  <2>3. i + 1 \in 0 .. Len(ss)
    BY <1>1, <1>3
  <2> QED BY <2>2, <2>3
<1> HIDE DEF T
<1>4. \A i \in 0 .. Len(ss) : i \in T
  BY <1>1, <1>2, <1>3, CountUp
<1> QED BY <1>4 DEF T

\* There is one such function, for every beginning of ss.
LEMMA PutsExists ==
    ASSUME NEW S, NEW ss \in Seq(Seq(S))
    PROVE  \E f : Puts(f, ss)
<1> DEFINE Good(f, n) == /\ DOMAIN f = 0 .. n /\ f = [i \in 0 .. n |-> f[i]] /\ f[0] = <<>>
                         /\ \A i \in 0 .. n : i # n => f[i + 1] = f[i] \o ss[i + 1]
           T == {n \in 0 .. Len(ss) : \E f : Good(f, n)}
<1>1. Len(ss) \in Nat
  BY SeqOfSeqs
<1>2. 0 \in T
  <2> DEFINE g == [i \in 0 .. 0 |-> <<>>]
  <2>1. Good(g, 0)
    OBVIOUS
  <2> HIDE DEF Good
  <2> QED BY <1>1, <2>1
<1>3. ASSUME NEW n \in 0 .. Len(ss), n # Len(ss), n \in T PROVE n + 1 \in T
  <2>1. PICK f : Good(f, n)
    BY <1>3
  <2> DEFINE g == [i \in 0 .. n + 1 |-> IF i = n + 1 THEN f[n] \o ss[n + 1] ELSE f[i]]
  <2>2. \A i \in 0 .. n + 1 : g[i] = IF i = n + 1 THEN f[n] \o ss[n + 1] ELSE f[i]
    OBVIOUS
  <2>3. DOMAIN g = 0 .. n + 1 /\ g = [i \in 0 .. n + 1 |-> g[i]]
    OBVIOUS
  <2> HIDE DEF g
  <2>4. g[0] = <<>>
    <3>1. 0 \in 0 .. n + 1 /\ 0 # n + 1
      BY <1>1
    <3>2. f[0] = <<>>
      BY <2>1
    <3> QED BY <2>2, <3>1, <3>2
  <2>5. ASSUME NEW i \in 0 .. n + 1, i # n + 1 PROVE g[i + 1] = g[i] \o ss[i + 1]
    <3>1. i \in 0 .. n /\ i + 1 \in 0 .. n + 1 /\ (i + 1 = n + 1 <=> i = n)
      BY <1>1, <2>5
    <3>2. g[i] = f[i]
      BY <2>2, <2>5
    <3>3. CASE i = n
      BY <2>2, <3>1, <3>2, <3>3
    <3>4. CASE i # n
      BY <2>1, <2>2, <3>1, <3>2, <3>4
    <3> QED BY <3>3, <3>4
  <2>6. Good(g, n + 1)
    BY <2>3, <2>4, <2>5
  <2>7. n + 1 \in 0 .. Len(ss)
    BY <1>1, <1>3
  <2> HIDE DEF Good
  <2> QED BY <2>6, <2>7
<1>4. Len(ss) \in T
  <2> HIDE DEF T
  <2>1. \A i \in 0 .. Len(ss) : i \in T
    BY <1>1, <1>2, <1>3, CountUp
  <2> QED BY <1>1, <2>1
<1> QED BY <1>4 DEF Puts

\* Flattening takes what has been put together in the end.
LEMMA FlattenPuts ==
    ASSUME NEW S, NEW ss \in Seq(Seq(S)), NEW f, Puts(f, ss)
    PROVE  FlattenSeq(ss) = f[Len(ss)]
<1>1. Len(ss) \in Nat /\ \A i \in 0 .. Len(ss) : f[i] \in Seq(S)
  BY SeqOfSeqs, PutsTyped
<1>2. CASE Len(ss) = 0
  <2>1. ss = <<>>
    BY <1>2, EmptySeq
  <2> QED BY <1>2, <2>1 DEF FlattenSeq, Puts
<1>3. CASE Len(ss) # 0
  <2> DEFINE n == Len(ss)
             Sums(g) == g = [i \in 1 .. n |-> IF i = 1 THEN ss[i] ELSE g[i - 1] \o ss[i]]
             h == CHOOSE g : Sums(g)
             F == [i \in 1 .. n |-> f[i]]
             T == {i \in 0 .. n : i # 0 => h[i] = f[i]}
  <2>1. Sums(F)
    <3>1. ASSUME NEW i \in 1 .. n
          PROVE  F[i] = IF i = 1 THEN ss[i] ELSE F[i - 1] \o ss[i]
      <4>1. i - 1 \in 0 .. Len(ss) /\ i - 1 # Len(ss) /\ (i - 1) + 1 = i
        BY <1>1, <3>1
      <4>2. f[i] = f[i - 1] \o ss[i] /\ ss[i] \in Seq(S)
        BY <4>1, SeqOfSeqs DEF Puts
      <4>3. CASE i = 1
        <5>1. f[i - 1] = <<>>
          BY <4>3 DEF Puts
        <5> QED BY <4>2, <4>3, <5>1, ConcatEmptySeq
      <4>4. CASE i # 1
        <5>1. i - 1 \in 1 .. n
          BY <1>1, <3>1, <4>4
        <5> QED BY <4>2, <4>4, <5>1
      <4> QED BY <4>3, <4>4
    <3> HIDE DEF F
    <3>2. F = [i \in 1 .. n |-> F[i]]
      BY DEF F
    <3> QED BY <3>1, <3>2
  <2>2. Sums(h)
    <3> HIDE DEF Sums, F
    <3> QED BY <2>1
  <2>3. \A i \in 1 .. n : h[i] = IF i = 1 THEN ss[i] ELSE h[i - 1] \o ss[i]
    <3> HIDE DEF h
    <3> QED BY <2>2
  <2>4. n \in Nat \ {0}
    BY <1>1, <1>3
  <2>5. FlattenSeq(ss) = h[n]
    BY <1>3 DEF FlattenSeq
  <2> HIDE DEF h, n
  <2>6. 0 \in T
    BY <2>4
  <2>7. ASSUME NEW i \in 0 .. n, i # n, i \in T PROVE i + 1 \in T
    <3>1. i + 1 \in 1 .. n /\ (i + 1) - 1 = i /\ i + 1 \in 0 .. n
      BY <2>4, <2>7
    <3>2. f[i + 1] = f[i] \o ss[i + 1] /\ ss[i + 1] \in Seq(S)
      BY <2>7, SeqOfSeqs DEF Puts, n
    <3>3. h[i + 1] = IF i + 1 = 1 THEN ss[i + 1] ELSE h[i] \o ss[i + 1]
      BY <2>3, <3>1
    <3>4. CASE i = 0
      <4>1. f[i] = <<>>
        BY <3>4 DEF Puts
      <4>2. h[i + 1] = f[i + 1]
        BY <3>2, <3>3, <3>4, <4>1, ConcatEmptySeq
      <4> QED BY <3>1, <4>2
    <3>5. CASE i # 0
      <4>1. h[i] = f[i] /\ i + 1 # 1
        BY <2>4, <2>7, <3>5
      <4> QED BY <3>1, <3>2, <3>3, <4>1
    <3> QED BY <3>4, <3>5
  <2> HIDE DEF T
  <2>8. n \in T
    <3>1. \A i \in 0 .. n : i \in T
      BY <2>4, <2>6, <2>7, CountUp
    <3> QED BY <2>4, <3>1
  <2> QED BY <2>4, <2>5, <2>8 DEF T, n
<1> QED BY <1>2, <1>3

LEMMA FlattenMarks ==
    ASSUME NEW S, NEW ss \in Seq(Seq(S)), NEW f, Puts(f, ss), NEW j \in 0 .. Len(ss)
    PROVE  FlattenSeq(SubSeq(ss, 1, j)) = f[j]
<1> DEFINE p == SubSeq(ss, 1, j)
           g == [i \in 0 .. j |-> f[i]]
<1>1. p \in Seq(Seq(S)) /\ Len(p) = j /\ \A i \in 1 .. j : p[i] = ss[i]
  BY PrefixProperties
<1>2. Len(ss) \in Nat
  BY SeqOfSeqs
<1>3. (\A i \in 0 .. j : g[i] = f[i]) /\ DOMAIN g = 0 .. j
  OBVIOUS
<1> HIDE DEF p, g
<1>4. g[0] = <<>> /\ g[j] = f[j]
  BY <1>2, <1>3 DEF Puts
<1>5. ASSUME NEW i \in 0 .. j, i # j PROVE g[i + 1] = g[i] \o p[i + 1]
  <2>1. i \in 0 .. Len(ss) /\ i # Len(ss) /\ i + 1 \in 0 .. j /\ i + 1 \in 1 .. j
    BY <1>2, <1>5
  <2>2. f[i + 1] = f[i] \o ss[i + 1]
    BY <2>1 DEF Puts
  <2> QED BY <1>1, <1>3, <2>1, <2>2
<1>6. Puts(g, p)
  BY <1>1, <1>3, <1>4, <1>5 DEF Puts
<1>7. FlattenSeq(p) = g[j]
  BY <1>1, <1>6, FlattenPuts
<1> QED BY <1>4, <1>7 DEF p

LEMMA FlattenType ==
    ASSUME NEW S, NEW ss \in Seq(Seq(S))
    PROVE  FlattenSeq(ss) \in Seq(S)
<1>1. PICK f : Puts(f, ss)
  BY PutsExists
<1>2. FlattenSeq(ss) = f[Len(ss)] /\ Len(ss) \in 0 .. Len(ss)
  BY <1>1, FlattenPuts, SeqOfSeqs
<1> QED BY <1>1, <1>2, PutsTyped

LEMMA FlattenNone == FlattenSeq(<<>>) = <<>>
BY EmptySeq DEF FlattenSeq

\* One sequence more.
LEMMA FlattenStep ==
    ASSUME NEW S, NEW ss \in Seq(Seq(S)), NEW j \in 0 .. Len(ss), j # Len(ss)
    PROVE  FlattenSeq(SubSeq(ss, 1, j + 1)) = FlattenSeq(SubSeq(ss, 1, j)) \o ss[j + 1]
<1>1. PICK f : Puts(f, ss)
  BY PutsExists
<1>2. j + 1 \in 0 .. Len(ss)
  BY SeqOfSeqs
<1>3. FlattenSeq(SubSeq(ss, 1, j + 1)) = f[j + 1]
  BY <1>1, <1>2, FlattenMarks
<1>4. FlattenSeq(SubSeq(ss, 1, j)) = f[j]
  BY <1>1, FlattenMarks
<1> QED BY <1>1, <1>3, <1>4 DEF Puts

LEMMA FlattenAppend ==
    ASSUME NEW S, NEW ss \in Seq(Seq(S)), NEW r \in Seq(S)
    PROVE  FlattenSeq(Append(ss, r)) = FlattenSeq(ss) \o r
<1> DEFINE q == Append(ss, r)
           n == Len(ss)
<1>1. /\ n \in Nat /\ q \in Seq(Seq(S)) /\ Len(q) = n + 1 /\ q[n + 1] = r
      /\ \A i \in 1 .. n : q[i] = ss[i]
  BY SeqOfSeqs, AppendProperties
<1> HIDE DEF q
<1>2. n \in 0 .. Len(q) /\ n # Len(q)
  BY <1>1
<1>3. SubSeq(q, 1, n) = ss
  <2>1. SubSeq(q, 1, n) \in Seq(Seq(S)) /\ Len(SubSeq(q, 1, n)) = n /\ \A i \in 1 .. n : SubSeq(q, 1, n)[i] = q[i]
    BY <1>1, <1>2, PrefixProperties
  <2> QED BY <1>1, <2>1, SeqEqual
<1>4. SubSeq(q, 1, n + 1) = q
  BY <1>1, SubSeqFull
<1>5. FlattenSeq(SubSeq(q, 1, n + 1)) = FlattenSeq(SubSeq(q, 1, n)) \o q[n + 1]
  BY <1>1, <1>2, FlattenStep
<1> QED BY <1>1, <1>3, <1>4, <1>5 DEF q

\* What the first j put together is where the whole begins.
LEMMA FlattenPrefix ==
    ASSUME NEW S, NEW ss \in Seq(Seq(S)), NEW j \in 0 .. Len(ss)
    PROVE  \E t \in Seq(S) : FlattenSeq(ss) = FlattenSeq(SubSeq(ss, 1, j)) \o t
<1>1. PICK f : Puts(f, ss)
  BY PutsExists
<1>2. /\ Len(ss) \in Nat /\ \A i \in 0 .. Len(ss) : f[i] \in Seq(S)
      /\ \A i \in 0 .. Len(ss) : i # Len(ss) => ss[i + 1] \in Seq(S)
  BY <1>1, SeqOfSeqs, PutsTyped
<1> DEFINE n == Len(ss)
           T == {i \in 0 .. n : i >= j => Continues(S, f[i], f[j])}
<1>3. j \in Int /\ Continues(S, f[j], f[j])
  <2>1. f[j] \in Seq(S) /\ <<>> \in Seq(S) /\ f[j] = f[j] \o <<>>
    BY <1>2, EmptySeq, ConcatEmptySeq
  <2>2. j \in Int
    BY <1>2
  <2> QED BY <2>1, <2>2 DEF Continues
<1>4. 0 \in T
  <2>1. CASE j = 0
    BY <1>2, <1>3, <2>1
  <2>2. CASE j # 0
    <3>1. ~(0 >= j) /\ 0 \in 0 .. n
      BY <1>2, <2>2
    <3> QED BY <3>1
  <2> QED BY <2>1, <2>2
<1>5. ASSUME NEW i \in 0 .. n, i # n, i \in T PROVE i + 1 \in T
  <2>1. i + 1 \in 0 .. n /\ (i + 1 >= j => i >= j \/ i + 1 = j)
    BY <1>2, <1>5
  <2>2. CASE i >= j
    <3>1. Continues(S, f[i], f[j])
      BY <1>5, <2>2
    <3>2. f[i] \in Seq(S) /\ ss[i + 1] \in Seq(S) /\ f[i + 1] = f[i] \o ss[i + 1]
      BY <1>1, <1>2, <1>5 DEF Puts
    <3>3. Continues(S, f[i + 1], f[i])
      BY <3>2 DEF Continues
    <3>4. Continues(S, f[i + 1], f[j])
      BY <3>1, <3>3, PutAfter
    <3> QED BY <2>1, <3>4
  <2>3. CASE i + 1 = j
    BY <1>3, <2>1, <2>3
  <2>4. CASE ~(i + 1 >= j)
    BY <2>1, <2>4
  <2> QED BY <2>1, <2>2, <2>3, <2>4
<1>6. n \in T
  <2> HIDE DEF T
  <2>1. \A i \in 0 .. n : i \in T
    BY <1>2, <1>4, <1>5, CountUp
  <2> QED BY <1>2, <2>1
<1>7. FlattenSeq(ss) = f[n] /\ FlattenSeq(SubSeq(ss, 1, j)) = f[j]
  BY <1>1, FlattenPuts, FlattenMarks
<1>8. n >= j
  BY <1>2
<1>9. PICK t \in Seq(S) : f[n] = f[j] \o t
  BY <1>6, <1>8 DEF Continues
<1> QED BY <1>7, <1>9
=============================================================================
