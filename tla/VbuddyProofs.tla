---------------------------- MODULE VbuddyProofs ----------------------------
(***************************************************************************)
(* For every set of answers and every number of faults: the VBuddy driver  *)
(* keeps the program in step with the board.                               *)
(***************************************************************************)
EXTENDS Vbuddy, FiniteSetTheorems, SequenceTheorems, TLAPS

\* Every reply of the board ends with one of these, and has it nowhere else.
Terminators == {"nl", "*"}

Ends(s) == {i \in 1 .. Len(s) : s[i] \in Terminators}

\* The number of replies that end in s.
ReplyCount(s) == Cardinality(Ends(s))

\* What the board has sent and no call has taken.
Unread == IF rd.pc = "idle" THEN rx \o line ELSE rd.buf \o (rx \o line)

\* Replies are whole at the end, and none is longer than the buffer of ack().
Framed(s) ==
    /\ s # <<>> => s[Len(s)] \in Terminators
    /\ \A i \in 0 .. Len(s) - AckSize : \E j \in i + 1 .. i + AckSize : s[j] \in Terminators

\* The call in progress has read what lets it return.
Settled == host.pc = "reading" /\ rd.pc = "idle" /\ (host.cmd \in Acked \/ ret > 0)

\* Commands that are not executed and replies that are not read, together, are
\* no more than there were faults, and one for the call that still waits.
Balance == Len(tx) + ReplyCount(Unread) <= faults + (IF InCall /\ ~Settled THEN 1 ELSE 0)

ReadRecord ==
    [fn : ReadFns, pc : ReadPcs, buf : Seq(Char), zero : {0, 1}, finalChar : Char,
     maxNbBytes : Nat, timeOut_ms : Nat, timer : Int, charTimer : Int,
     charTimeOut : Nat]

\* The library is in a call exactly while the driver reads, in the loop of
\* readStringNoTimeOut, up to the end of a reply.
ReadInv ==
    /\ rd \in ReadRecord /\ ret \in Int /\ clock \in Int
    /\ host.first # "$"
    /\ rd.pc # "idle" =>
          /\ host.pc = "reading"
          /\ rd.pc \in {"loop", "char", "read"}
          /\ rd.fn = "readStringNoTimeOut" /\ rd.charTimeOut = 0
          /\ rd.finalChar \in Terminators
          /\ host.cmd \in Acked => rd.maxNbBytes = AckSize

\* The port is open in every call, and a closed port has received nothing.
PortInv ==
    /\ host.pc \in {"opened", "clear", "flush", "await", "reading", "closing"} => fd = Opened
    /\ fd = Closed => rx = <<>>

Inv == TypeOK /\ ReadInv /\ PortInv /\ Framed(Unread) /\ Balance

-----------------------------------------------------------------------------
(* Replies in a sequence of characters                                     *)

\* The terminators are characters of the line.
LEMMA CharFacts ==
    /\ Digit \subseteq Char /\ Terminators \subseteq Char /\ "$" \in Char
    /\ AckSize \in Nat /\ AckSize >= 4 /\ QuerySize \in Nat /\ MaxFaults \in Nat
    /\ \A v \in Values : v \in Seq(Digit) /\ v # <<>> /\ Len(v) + 3 <= AckSize
  BY VbuddyAssumption, AckAssumption DEF Terminators, Digit

\* The replies of a finite sequence can be counted.
LEMMA CountType ==
    ASSUME NEW s \in Seq(Char)
    PROVE  IsFiniteSet(Ends(s)) /\ ReplyCount(s) \in Nat
  <1>1. Len(s) \in Nat
    BY LenProperties
  <1>2. IsFiniteSet(1 .. Len(s))
    BY <1>1, FS_Interval
  <1>3. IsFiniteSet(Ends(s))
    BY <1>2, FS_Subset DEF Ends
  <1> QED  BY <1>3, FS_CardinalityType DEF ReplyCount

\* Concatenation is associative.
LEMMA Associative == \A p, q, s \in Seq(Char) : (p \o q) \o s = p \o (q \o s)
  <1> TAKE p, q, s \in Seq(Char)
  <1> QED  BY ConcatAssociative

\* Counting is additive.
LEMMA CountConcat ==
    ASSUME NEW a \in Seq(Char), NEW b \in Seq(Char)
    PROVE  ReplyCount(a \o b) = ReplyCount(a) + ReplyCount(b)
  <1>1. /\ a \o b \in Seq(Char) /\ Len(a \o b) = Len(a) + Len(b)
        /\ \A i \in 1 .. Len(a) + Len(b) :
              (a \o b)[i] = IF i <= Len(a) THEN a[i] ELSE b[i - Len(a)]
    BY ConcatProperties
  <1>2. Len(a) \in Nat /\ Len(b) \in Nat
    BY LenProperties
  <1> DEFINE Shifted == {i + Len(a) : i \in Ends(b)}
             f == [i \in Ends(b) |-> i + Len(a)]
  <1>3. Ends(b) \subseteq Nat
    BY <1>2 DEF Ends
  <1>4. ExistsBijection(Ends(b), Shifted)
    <2>1. f \in [Ends(b) -> Shifted]
      OBVIOUS
    <2>2. \A i, j \in Ends(b) : f[i] = f[j] => i = j
      BY <1>2, <1>3
    <2>3. \A t \in Shifted : \E i \in Ends(b) : f[i] = t
      OBVIOUS
    <2>4. f \in Bijection(Ends(b), Shifted)
      BY <2>1, <2>2, <2>3 DEF Bijection, Injection, Surjection, IsInjective
    <2> QED  BY <2>4 DEF ExistsBijection
  <1>5. IsFiniteSet(Shifted) /\ Cardinality(Shifted) = Cardinality(Ends(b))
    BY <1>4, CountType, FS_Bijection
  <1>6. Ends(a \o b) = Ends(a) \cup Shifted
    <2>1. ASSUME NEW i \in Ends(a \o b) PROVE i \in Ends(a) \cup Shifted
      <3>1. i \in 1 .. Len(a) + Len(b) /\ (a \o b)[i] \in Terminators
        BY <1>1 DEF Ends
      <3>2. CASE i <= Len(a)
        BY <3>1, <3>2, <1>1, <1>2 DEF Ends
      <3>3. CASE ~(i <= Len(a))
        <4>1. i - Len(a) \in 1 .. Len(b) /\ (i - Len(a)) + Len(a) = i
          BY <3>1, <3>3, <1>2
        <4>2. b[i - Len(a)] \in Terminators
          BY <3>1, <3>3, <1>1
        <4>3. i - Len(a) \in Ends(b)
          BY <4>1, <4>2 DEF Ends
        <4> QED  BY <4>1, <4>3
      <3> QED  BY <3>2, <3>3
    <2>2. ASSUME NEW i \in Ends(a) PROVE i \in Ends(a \o b)
      <3>1. i \in 1 .. Len(a) /\ a[i] \in Terminators
        BY DEF Ends
      <3>2. i \in 1 .. Len(a) + Len(b) /\ i <= Len(a)
        BY <3>1, <1>2
      <3> QED  BY <3>1, <3>2, <1>1 DEF Ends
    <2>3. ASSUME NEW i \in Ends(b) PROVE i + Len(a) \in Ends(a \o b)
      <3>1. i \in 1 .. Len(b) /\ b[i] \in Terminators
        BY DEF Ends
      <3>2. /\ i + Len(a) \in 1 .. Len(a) + Len(b) /\ ~(i + Len(a) <= Len(a))
            /\ (i + Len(a)) - Len(a) = i
        BY <3>1, <1>2
      <3>3. (a \o b)[i + Len(a)] = b[i]
        BY <3>2, <1>1
      <3> QED  BY <3>1, <3>2, <3>3, <1>1 DEF Ends
    <2> QED  BY <2>1, <2>2, <2>3
  <1>7. Ends(a) \cap Shifted = {}
    BY <1>2, <1>3 DEF Ends
  <1>8. Cardinality(Ends(a) \cup Shifted) = Cardinality(Ends(a)) + Cardinality(Shifted) - 0
    <2>1. Cardinality(Ends(a) \cup Shifted)
            = Cardinality(Ends(a)) + Cardinality(Shifted) - Cardinality(Ends(a) \cap Shifted)
      BY <1>5, CountType, FS_Union
    <2> QED  BY <1>7, <2>1, FS_EmptySet
  <1> QED  BY <1>5, <1>6, <1>8, CountType DEF ReplyCount

\* A sequence with a terminator holds the end of a reply.
LEMMA CountSome ==
    ASSUME NEW s \in Seq(Char), NEW i \in 1 .. Len(s), s[i] \in Terminators
    PROVE  ReplyCount(s) >= 1
  <1>1. Ends(s) # {}
    BY DEF Ends
  <1>2. Cardinality(Ends(s)) # 0
    BY <1>1, CountType, FS_EmptySet
  <1> QED  BY <1>2, CountType DEF ReplyCount

\* A sequence without one holds none.
LEMMA CountNone ==
    ASSUME NEW s \in Seq(Char), \A i \in 1 .. Len(s) : s[i] \notin Terminators
    PROVE  ReplyCount(s) = 0
  <1>1. Ends(s) = {}
    BY DEF Ends
  <1> QED  BY <1>1, FS_EmptySet DEF ReplyCount

\* What the board sends for a command is one reply that fits the buffer of
\* ack() and ends with its only terminator.
LEMMA RepliesOnce ==
    ASSUME NEW c \in Letter, NEW v \in Seq(Digit),
           Len(v) + 3 <= AckSize, NEW r \in Replies(c, v)
    PROVE  /\ r \in Seq(Char) /\ ReplyCount(r) = 1 /\ Len(r) \in 1 .. AckSize
           /\ r[Len(r)] \in Terminators
  <1> DEFINE Reply(s) == /\ s \in Seq(Char) /\ ReplyCount(s) = 1 /\ Len(s) \in 1 .. AckSize
                         /\ s[Len(s)] \in Terminators
  <1>c. /\ Digit \subseteq Char /\ {"$", "*", "nl"} \subseteq Char
        /\ AckSize \in Nat /\ AckSize >= 4
    BY CharFacts DEF Terminators
  <1>1. Reply(<<"$", "nl">>)
    <2>1. <<"$", "nl">> \in Seq(Char) /\ Len(<<"$", "nl">>) = 2
      BY <1>c
    <2>2. Ends(<<"$", "nl">>) = {2}
      BY <2>1 DEF Ends, Terminators
    <2>3. ReplyCount(<<"$", "nl">>) = 1
      BY <2>2, FS_Singleton DEF ReplyCount
    <2>4. 2 \in 1 .. AckSize /\ <<"$", "nl">>[2] \in Terminators
      BY <1>c DEF Terminators
    <2> QED  BY <2>1, <2>3, <2>4
  <1>2. v \in Seq(Char) /\ Len(v) \in Nat /\ ReplyCount(v) = 0
    <2>1. v \in Seq(Char) /\ Len(v) \in Nat
      BY <1>c, SeqMonotonic, LenProperties
    <2>2. \A i \in 1 .. Len(v) : v[i] \notin Terminators
      <3>1. \A i \in 1 .. Len(v) : v[i] \in Digit
        BY ElementOfSeq
      <3> QED  BY <3>1 DEF Digit, Terminators
    <2> QED  BY <2>1, <2>2, CountNone
  <1>3. <<"*">> \in Seq(Char) /\ Len(<<"*">>) = 1 /\ ReplyCount(<<"*">>) = 1
    <2>1. <<"*">> \in Seq(Char) /\ Len(<<"*">>) = 1
      BY <1>c
    <2>2. Ends(<<"*">>) = {1}
      BY <2>1 DEF Ends, Terminators
    <2> QED  BY <2>1, <2>2, FS_Singleton DEF ReplyCount
  <1>4. ASSUME NEW h \in Seq(Char), Len(h) \in 1 .. 2, \A i \in 1 .. Len(h) : h[i] = "$"
        PROVE  Reply(h \o v \o <<"*">>)
    <2>1. ReplyCount(h) = 0
      BY <1>4, CountNone DEF Terminators
    <2>2. h \o v \in Seq(Char) /\ Len(h \o v) = Len(h) + Len(v)
      BY <1>2, ConcatProperties
    <2>3. /\ (h \o v) \o <<"*">> \in Seq(Char) /\ Len((h \o v) \o <<"*">>) = Len(h) + Len(v) + 1
          /\ \A i \in 1 .. Len(h \o v) + 1 : ((h \o v) \o <<"*">>)[i] =
                 IF i <= Len(h \o v) THEN (h \o v)[i] ELSE <<"*">>[i - Len(h \o v)]
      BY <2>2, <1>3, ConcatProperties
    <2>4. ReplyCount((h \o v) \o <<"*">>) = 1
      <3>1. ReplyCount((h \o v) \o <<"*">>) = ReplyCount(h \o v) + ReplyCount(<<"*">>)
        BY <2>2, <1>3, CountConcat
      <3>2. ReplyCount(h \o v) = ReplyCount(h) + ReplyCount(v)
        BY <1>2, CountConcat
      <3> QED  BY <3>1, <3>2, <2>1, <1>2, <1>3
    <2> DEFINE n == Len(h) + Len(v)
    <2>5. n \in Nat /\ n + 1 \in 1 .. n + 1 /\ ~(n + 1 <= n) /\ (n + 1) - n = 1 /\ n + 1 \in 1 .. AckSize
      BY <1>2, <1>4, <1>c
    <2>6. ((h \o v) \o <<"*">>)[n + 1] = <<"*">>[1]
      BY <2>2, <2>3, <2>5
    <2>7. <<"*">>[1] \in Terminators
      BY DEF Terminators
    <2> QED  BY <2>3, <2>4, <2>5, <2>6, <2>7
  <1>5. Reply(<<"$">> \o v \o <<"*">>)
    <2>1. <<"$">> \in Seq(Char) /\ Len(<<"$">>) \in 1 .. 2 /\ \A i \in 1 .. Len(<<"$">>) : <<"$">>[i] = "$"
      BY <1>c
    <2> HIDE DEF Reply
    <2> QED  BY <2>1, <1>4
  <1>6. Reply(<<"$", "$">> \o v \o <<"*">>)
    <2>1. /\ <<"$", "$">> \in Seq(Char) /\ Len(<<"$", "$">>) \in 1 .. 2
          /\ \A i \in 1 .. Len(<<"$", "$">>) : <<"$", "$">>[i] = "$"
      BY <1>c
    <2> HIDE DEF Reply
    <2> QED  BY <2>1, <1>4
  <1> HIDE DEF Reply
  <1>7. \/ r = <<"$", "nl">>
        \/ r = <<"$">> \o v \o <<"*">>
        \/ r = <<"$", "$">> \o v \o <<"*">>
    BY DEF Replies
  <1>8. Reply(r)
    BY <1>1, <1>5, <1>6, <1>7
  <1> QED  BY <1>8 DEF Reply

-----------------------------------------------------------------------------
(* Framing                                                                 *)

\* Dropping characters from the front keeps the rest framed.
LEMMA FramedRest ==
    ASSUME NEW a \in Seq(Char), NEW b \in Seq(Char), Framed(a \o b)
    PROVE  Framed(b) /\ ReplyCount(b) <= ReplyCount(a \o b)
  <1>1. /\ a \o b \in Seq(Char) /\ Len(a \o b) = Len(a) + Len(b)
        /\ \A i \in 1 .. Len(a) + Len(b) :
              (a \o b)[i] = IF i <= Len(a) THEN a[i] ELSE b[i - Len(a)]
    BY ConcatProperties
  <1>2. Len(a) \in Nat /\ Len(b) \in Nat /\ AckSize \in Nat
    BY LenProperties, CharFacts
  <1>3. \A i \in 1 .. Len(b) : (a \o b)[i + Len(a)] = b[i]
    <2> TAKE i \in 1 .. Len(b)
    <2>1. i + Len(a) \in 1 .. Len(a) + Len(b) /\ ~(i + Len(a) <= Len(a)) /\ (i + Len(a)) - Len(a) = i
      BY <1>2
    <2> QED  BY <2>1, <1>1
  <1>4. b # <<>> => b[Len(b)] \in Terminators
    <2> SUFFICES ASSUME b # <<>> PROVE b[Len(b)] \in Terminators
      OBVIOUS
    <2>1. Len(b) \in 1 .. Len(b) /\ Len(b) + Len(a) = Len(a \o b)
      BY <1>1, <1>2, EmptySeq
    <2>2. a \o b # <<>>
      BY <1>1, <1>2, <2>1, EmptySeq
    <2> QED  BY <1>3, <2>1, <2>2 DEF Framed
  <1>5. \A i \in 0 .. Len(b) - AckSize : \E j \in i + 1 .. i + AckSize : b[j] \in Terminators
    <2> TAKE i \in 0 .. Len(b) - AckSize
    <2>1. i + Len(a) \in 0 .. Len(a \o b) - AckSize
      BY <1>1, <1>2
    <2>2. PICK j \in (i + Len(a)) + 1 .. (i + Len(a)) + AckSize : (a \o b)[j] \in Terminators
      BY <2>1 DEF Framed
    <2>3. /\ j - Len(a) \in i + 1 .. i + AckSize /\ j - Len(a) \in 1 .. Len(b)
          /\ (j - Len(a)) + Len(a) = j
      BY <1>2
    <2>4. b[j - Len(a)] \in Terminators
      BY <2>2, <2>3, <1>3
    <2> QED  BY <2>3, <2>4
  <1>6. ReplyCount(b) <= ReplyCount(a \o b)
    BY CountConcat, CountType
  <1> QED  BY <1>4, <1>5, <1>6 DEF Framed

\* A reply at the end keeps a sequence framed.
LEMMA FramedMore ==
    ASSUME NEW s \in Seq(Char), Framed(s), NEW r \in Seq(Char),
           Len(r) \in 1 .. AckSize, r[Len(r)] \in Terminators
    PROVE  Framed(s \o r)
  <1>1. /\ s \o r \in Seq(Char) /\ Len(s \o r) = Len(s) + Len(r)
        /\ \A i \in 1 .. Len(s) + Len(r) :
              (s \o r)[i] = IF i <= Len(s) THEN s[i] ELSE r[i - Len(s)]
    BY ConcatProperties
  <1>2. Len(s) \in Nat /\ Len(r) \in Nat /\ AckSize \in Nat
    BY LenProperties, CharFacts
  <1>3. (s \o r)[Len(s) + Len(r)] \in Terminators
    <2>1. /\ Len(s) + Len(r) \in 1 .. Len(s) + Len(r) /\ ~(Len(s) + Len(r) <= Len(s))
          /\ (Len(s) + Len(r)) - Len(s) = Len(r)
      BY <1>2
    <2> QED  BY <2>1, <1>1
  <1>4. ASSUME NEW i \in 0 .. Len(s \o r) - AckSize
        PROVE  \E j \in i + 1 .. i + AckSize : (s \o r)[j] \in Terminators
    <2>1. CASE i + AckSize <= Len(s)
      <3>1. i \in 0 .. Len(s) - AckSize
        BY <2>1, <1>2
      <3>2. PICK j \in i + 1 .. i + AckSize : s[j] \in Terminators
        BY <3>1 DEF Framed
      <3>3. j \in 1 .. Len(s) + Len(r) /\ j <= Len(s)
        BY <2>1, <1>2
      <3> QED  BY <3>2, <3>3, <1>1
    <2>2. CASE i < Len(s) /\ ~(i + AckSize <= Len(s))
      <3>1. /\ Len(s) \in i + 1 .. i + AckSize /\ Len(s) \in 1 .. Len(s) + Len(r)
            /\ Len(s) <= Len(s) /\ Len(s) # 0
        BY <2>2, <1>2
      <3>2. s # <<>>
        BY <3>1, EmptySeq
      <3>3. (s \o r)[Len(s)] = s[Len(s)]
        BY <3>1, <1>1
      <3> QED  BY <3>1, <3>2, <3>3 DEF Framed
    <2>3. CASE ~(i < Len(s))
      <3>1. Len(s) + Len(r) \in i + 1 .. i + AckSize
        BY <2>3, <1>1, <1>2
      <3> QED  BY <3>1, <1>3
    <2> QED  BY <2>1, <2>2, <2>3
  <1> QED  BY <1>1, <1>3, <1>4 DEF Framed

\* A character that goes from the head of one sequence to the end of the one
\* before it stays in its place.
LEMMA HeadMoves ==
    ASSUME NEW b \in Seq(Char), NEW s \in Seq(Char), s # <<>>
    PROVE  /\ Append(b, Head(s)) \in Seq(Char) /\ Tail(s) \in Seq(Char)
           /\ Append(b, Head(s)) \o Tail(s) = b \o s
           /\ s = <<Head(s)>> \o Tail(s) /\ <<Head(s)>> \in Seq(Char)
           /\ Len(Append(b, Head(s))) = Len(b) + 1
           /\ Append(b, Head(s))[Len(b) + 1] = Head(s)
           /\ Head(s) \in Char
  <1>1. Head(s) \in Char /\ Tail(s) \in Seq(Char)
    BY HeadTailProperties
  <1>2. /\ Append(b, Head(s)) = b \o <<Head(s)>> /\ Append(b, Head(s)) \in Seq(Char)
        /\ Len(Append(b, Head(s))) = Len(b) + 1 /\ Append(b, Head(s))[Len(b) + 1] = Head(s)
    BY <1>1, AppendIsConcat, AppendProperties
  <1>3. <<Head(s)>> \in Seq(Char)
    BY <1>1
  <1>4. s = <<Head(s)>> \o Tail(s)
    <2>1. Len(s) \in Nat \ {0} /\ Head(s) = s[1] /\ Tail(s) = SubSeq(s, 2, Len(s))
      BY EmptySeq, TailIsSubSeq
    <2>2. SubSeq(s, 1, Len(s)) = <<s[1]>> \o SubSeq(s, 1 + 1, Len(s))
      BY <2>1, SubSeqRecursiveFirst
    <2> QED  BY <2>1, <2>2, SubSeqFull
  <1>5. (b \o <<Head(s)>>) \o Tail(s) = b \o (<<Head(s)>> \o Tail(s))
    BY <1>1, <1>3, ConcatAssociative
  <1> QED  BY <1>1, <1>2, <1>3, <1>4, <1>5
-----------------------------------------------------------------------------
(* The steps of the driver, the board and the line                         *)

Host == [pc : HostPcs, cmd : Letter, first : Char \cup {Uninit, Junk}]

\* The types, with what follows from them.
LEMMA Types ==
    ASSUME TypeOK, ReadInv
    PROVE  /\ fd \in {Closed, Opened} /\ rx \in Seq(Char) /\ line \in Seq(Char)
           /\ rx \o line \in Seq(Char) /\ Unread \in Seq(Char)
           /\ rd \in ReadRecord /\ rd.pc \in ReadPcs /\ rd.buf \in Seq(Char)
           /\ host \in Host
           /\ tx \in Seq(Letter) /\ Len(tx) \in Nat /\ answer \in Seq(Digit)
           /\ faults \in Nat /\ faults \in 0 .. MaxFaults /\ MaxFaults \in Nat
           /\ ReplyCount(Unread) \in Nat /\ ReplyCount(rx \o line) \in Nat
  <1>1. fd \in {Closed, Opened} /\ rx \in Seq(Char) /\ line \in Seq(Char)
    BY DEF TypeOK
  <1>2. rx \o line \in Seq(Char)
    BY <1>1, ConcatProperties
  <1>3. rd \in ReadRecord /\ rd.pc \in ReadPcs /\ rd.buf \in Seq(Char)
    BY DEF TypeOK, ReadInv
  <1>4. Unread \in Seq(Char)
    BY <1>2, <1>3, ConcatProperties DEF Unread
  <1>5. host \in Host /\ tx \in Seq(Letter) /\ answer \in Seq(Digit) /\ faults \in 0 .. MaxFaults
    BY DEF TypeOK, Host
  <1>6. Len(tx) \in Nat
    BY <1>5, LenProperties
  <1>7. MaxFaults \in Nat
    BY CharFacts
  <1>8. faults \in Nat
    BY <1>5, <1>7
  <1>9. ReplyCount(Unread) \in Nat /\ ReplyCount(rx \o line) \in Nat
    BY <1>2, <1>4, CountType
  <1> QED  BY <1>1, <1>2, <1>3, <1>4, <1>5, <1>6, <1>7, <1>8, <1>9

\* The invariant after a step, from the parts a step can disturb.
LEMMA InvNext ==
    ASSUME fd' \in {Closed, Opened}, rx' \in Seq(Char), line' \in Seq(Char),
           host' \in Host, tx' \in Seq(Letter), answer' \in Seq(Digit),
           faults' \in 0 .. MaxFaults, ReadInv', PortInv',
           NEW u, Unread' = u, Framed(u),
           Len(tx') + ReplyCount(u) <= faults' + (IF InCall' /\ ~Settled' THEN 1 ELSE 0)
    PROVE  Inv'
  <1>1. rd'.pc \in ReadPcs /\ rd'.buf \in Seq(Char)
    BY DEF ReadInv, ReadRecord
  <1>2. TypeOK'
    BY <1>1 DEF TypeOK, Host
  <1>3. Framed(Unread')
    OBVIOUS
  <1>4. Framed(Unread)'
    BY <1>3 DEF Framed, Unread
  <1>5. Balance'
    BY DEF Balance, ReplyCount, Ends
  <1> QED  BY <1>2, <1>4, <1>5 DEF Inv

\* The same for a step after which the library is in no call.
LEMMA InvBetween ==
    ASSUME rd'.pc = "idle", rd' \in ReadRecord, ret' \in Int, clock' \in Int,
           fd' \in {Closed, Opened}, rx' \in Seq(Char), line' \in Seq(Char),
           host' \in Host, host'.first # "$", tx' \in Seq(Letter), answer' \in Seq(Digit),
           faults' \in 0 .. MaxFaults, PortInv', Framed(rx' \o line'),
           Len(tx') + ReplyCount(rx' \o line')
             <= faults' + (IF InCall' /\ ~Settled' THEN 1 ELSE 0)
    PROVE  Inv'
  <1>1. Unread' = rx' \o line'
    BY DEF Unread
  <1>2. ReadInv'
    BY DEF ReadInv
  <1> QED  BY <1>1, <1>2, InvNext

\* A command is written: one more for the board, and one call that waits.
LEMMA SendStep ==
    ASSUME Inv, NEW c \in Letter, NEW pc \in {"await", "flush"},
           host.pc \in {"idle", "clear"}, isDeviceOpen, Send(c, pc)
    PROVE  Inv'
  <1>i. TypeOK /\ ReadInv /\ PortInv /\ Framed(Unread) /\ Balance
    BY DEF Inv
  <1>t. /\ fd \in {Closed, Opened} /\ rx \in Seq(Char) /\ line \in Seq(Char) /\ rd \in ReadRecord
        /\ tx \in Seq(Letter) /\ Len(tx) \in Nat /\ faults \in Nat /\ faults \in 0 .. MaxFaults
        /\ MaxFaults \in Nat /\ ReplyCount(rx \o line) \in Nat /\ ret \in Int /\ clock \in Int
    BY <1>i, Types DEF ReadInv
  <1>1. /\ rd.pc = "idle" /\ rd' = rd /\ fd' = fd /\ rx' = rx /\ clock' = clock /\ ret' \in Int
        /\ line' = line
    BY DEF Send, writeString, Write
  <1>2. host' = [pc |-> pc, cmd |-> c, first |-> Uninit] /\ answer' = <<>>
    BY DEF Send
  <1>3. host' \in Host /\ host'.first # "$" /\ host'.pc = pc
    BY <1>2 DEF Host, HostPcs, Uninit
  <1>4. fd = Opened
    BY <1>t DEF isDeviceOpen, Closed, Opened
  <1>5. InCall' /\ ~Settled'
    BY <1>3 DEF InCall, Settled
  <1>6. Unread = rx \o line /\ ~InCall
    BY <1>1 DEF Unread, InCall
  <1>7. Len(tx) + ReplyCount(rx \o line) <= faults
    BY <1>6, <1>i, <1>t DEF Balance
  <1>8. /\ tx' \in Seq(Letter) /\ faults' \in 0 .. MaxFaults
        /\ Len(tx') + ReplyCount(rx \o line) <= faults' + 1
    <2>1. CASE tx' = Append(tx, c) /\ faults' = faults
      BY <2>1, <1>t, <1>7, AppendProperties
    <2>2. CASE tx' = tx /\ MayFail
      BY <2>2, <1>t, <1>7 DEF MayFail
    <2> QED  BY <2>1, <2>2 DEF Send
  <1>9. PortInv'
    BY <1>1, <1>3, <1>4 DEF PortInv, Closed, Opened
  <1>10. answer' \in Seq(Digit)
    BY <1>2
  <1>11. Framed(rx' \o line')
    BY <1>1, <1>6, <1>i
  <1>12. Len(tx') + ReplyCount(rx' \o line') <= faults' + (IF InCall' /\ ~Settled' THEN 1 ELSE 0)
    BY <1>1, <1>5, <1>8
  <1>13. /\ rd'.pc = "idle" /\ rd' \in ReadRecord /\ ret' \in Int /\ clock' \in Int
         /\ fd' \in {Closed, Opened} /\ rx' \in Seq(Char) /\ line' \in Seq(Char)
    BY <1>1, <1>t
  <1> QED  BY <1>3, <1>8, <1>9, <1>10, <1>11, <1>12, <1>13, InvBetween

\* The same facts from the invariant, with what it says of the port and of the
\* commands and replies that are still open.
LEMMA InvFacts ==
    ASSUME Inv
    PROVE  /\ fd \in {Closed, Opened} /\ rx \in Seq(Char) /\ line \in Seq(Char)
           /\ rx \o line \in Seq(Char) /\ Unread \in Seq(Char)
           /\ rd \in ReadRecord /\ rd.buf \in Seq(Char) /\ ret \in Int /\ clock \in Int
           /\ host \in Host /\ host.first # "$"
           /\ tx \in Seq(Letter) /\ Len(tx) \in Nat /\ answer \in Seq(Digit)
           /\ faults \in Nat /\ faults \in 0 .. MaxFaults /\ MaxFaults \in Nat
           /\ ReplyCount(Unread) \in Nat /\ ReplyCount(rx \o line) \in Nat
           /\ ReadInv /\ PortInv /\ Framed(Unread)
           /\ Len(tx) + ReplyCount(Unread) <= faults + (IF InCall /\ ~Settled THEN 1 ELSE 0)
           /\ Len(tx) + ReplyCount(Unread) <= faults + 1
           /\ isDeviceOpen <=> fd = Opened
           /\ host.pc # "reading" => rd.pc = "idle"
  <1>1. TypeOK /\ ReadInv /\ PortInv /\ Framed(Unread) /\ Balance
    BY DEF Inv
  <1>2. ret \in Int /\ clock \in Int /\ host.first # "$" /\ (host.pc # "reading" => rd.pc = "idle")
    BY <1>1 DEF ReadInv
  <1>3. fd \in {Closed, Opened}
    BY <1>1 DEF TypeOK
  <1>4. isDeviceOpen <=> fd = Opened
    BY <1>3 DEF isDeviceOpen, Closed, Opened
  <1>5. faults \in Nat /\ ReplyCount(Unread) \in Nat /\ Len(tx) \in Nat
    BY <1>1, Types
  <1>6. /\ Len(tx) + ReplyCount(Unread) <= faults + (IF InCall /\ ~Settled THEN 1 ELSE 0)
        /\ Len(tx) + ReplyCount(Unread) <= faults + 1
    BY <1>1, <1>5 DEF Balance
  <1> QED  BY <1>1, <1>2, <1>4, <1>6, Types

\* A receiver that is emptied leaves what is still on the line.
LEMMA RestOnLine ==
    ASSUME Inv
    PROVE  /\ Framed(<<>> \o line) /\ ReplyCount(<<>> \o line) \in Nat
           /\ ReplyCount(<<>> \o line) <= ReplyCount(Unread)
           /\ Framed(rx \o line) /\ ReplyCount(rx \o line) <= ReplyCount(Unread)
  <1>t. /\ rx \in Seq(Char) /\ line \in Seq(Char) /\ rx \o line \in Seq(Char)
        /\ rd.buf \in Seq(Char) /\ Framed(Unread) /\ ReplyCount(Unread) \in Nat
        /\ ReplyCount(rx \o line) \in Nat
    BY InvFacts
  <1>1. Framed(rx \o line) /\ ReplyCount(rx \o line) <= ReplyCount(Unread)
    <2>1. CASE rd.pc = "idle"
      BY <2>1, <1>t DEF Unread
    <2>2. CASE rd.pc # "idle"
      <3>1. Unread = rd.buf \o (rx \o line)
        BY <2>2 DEF Unread
      <3> QED  BY <3>1, <1>t, FramedRest
    <2> QED  BY <2>1, <2>2
  <1>2. Framed(line) /\ ReplyCount(line) <= ReplyCount(rx \o line)
    BY <1>1, <1>t, FramedRest
  <1>3. <<>> \o line = line
    BY <1>t, ConcatEmptySeq
  <1>4. ReplyCount(line) \in Nat
    BY <1>t, CountType
  <1> QED  BY <1>t, <1>1, <1>2, <1>3, <1>4

\* A step that empties the receiver, or closes the port, and neither starts
\* nor ends a call; a fault may stop a call.
LEMMA Emptied ==
    ASSUME Inv, rd'.pc = "idle", rd' \in ReadRecord, ret' \in Int, clock' = clock,
           fd' \in {Closed, Opened}, rx' = <<>>, line' = line, host' \in Host,
           host'.first # "$", tx' = tx, answer' = answer, faults' \in 0 .. MaxFaults, PortInv',
           \/ faults' = faults + 1
           \/ faults' = faults /\ InCall' = InCall /\ host.pc # "reading" /\ host'.pc # "reading"
    PROVE  Inv'
  <1>t. /\ line \in Seq(Char) /\ tx \in Seq(Letter) /\ answer \in Seq(Digit) /\ clock \in Int
        /\ faults \in Nat /\ Len(tx) \in Nat /\ ReplyCount(Unread) \in Nat
        /\ Len(tx) + ReplyCount(Unread) <= faults + (IF InCall /\ ~Settled THEN 1 ELSE 0)
        /\ Len(tx) + ReplyCount(Unread) <= faults + 1
    BY InvFacts
  <1>1. /\ Framed(rx' \o line') /\ ReplyCount(rx' \o line') \in Nat
        /\ ReplyCount(rx' \o line') <= ReplyCount(Unread)
    BY RestOnLine
  <1>2. Len(tx') + ReplyCount(rx' \o line') <= faults' + (IF InCall' /\ ~Settled' THEN 1 ELSE 0)
    <2>1. CASE faults' = faults + 1
      BY <2>1, <1>t, <1>1
    <2>2. CASE faults' = faults /\ InCall' = InCall /\ host.pc # "reading" /\ host'.pc # "reading"
      <3>1. ~Settled /\ ~Settled'
        BY <2>2 DEF Settled
      <3> QED  BY <2>2, <3>1, <1>t, <1>1
    <2> QED  BY <2>1, <2>2
  <1>3. rx' \in Seq(Char) /\ line' \in Seq(Char) /\ tx' \in Seq(Letter) /\ answer' \in Seq(Digit) /\ clock' \in Int
    BY <1>t
  <1> QED  BY <1>1, <1>2, <1>3, InvBetween

\* The record of a program that is in no call is of the right type.
LEMMA NoReadType == NoRead \in ReadRecord /\ NoRead.pc = "idle"
  <1>1. (CHOOSE c \in Char : TRUE) \in Char
    BY CharFacts
  <1> QED  BY <1>1 DEF NoRead, ReadRecord, ReadFns, ReadPcs

\* So is the control state of a driver between two calls.
LEMMA IdleType == Idle \in Host /\ Idle.pc = "idle" /\ Idle.first # "$"
  BY DEF Idle, Host, HostPcs, Letter, Acked, Stop, Uninit

\* vbdOpen, the flushes, closeDevice and the death of the process.
LEMMA PortSteps ==
    ASSUME Inv, vbdOpen \/ FlushStale \/ FlushReply \/ ClosePort \/ Kill
    PROVE  Inv'
  <1>t. /\ fd \in {Closed, Opened} /\ rd \in ReadRecord /\ ret \in Int /\ rx \in Seq(Char)
        /\ host \in Host /\ host.first # "$"
        /\ faults \in Nat /\ faults \in 0 .. MaxFaults /\ MaxFaults \in Nat /\ PortInv
        /\ isDeviceOpen <=> fd = Opened
        /\ host.pc # "reading" => rd.pc = "idle"
    BY InvFacts
  <1>1. CASE vbdOpen
    <2>1. /\ host.pc \in {"idle", "aborted"} /\ fd = Closed /\ rx = <<>>
          /\ tx' = tx /\ line' = line /\ answer' = answer /\ faults' = faults
      BY <1>1, <1>t DEF vbdOpen, PortInv
    <2>2. /\ rd.pc = "idle" /\ rd' = rd /\ rx' = <<>> /\ clock' = clock /\ ret' \in Int
          /\ fd' \in {Closed, Opened}
      BY <1>1, <2>1, <1>t DEF vbdOpen, openDevice, openParameters, serialVars
    <2>3. /\ host' = [Idle EXCEPT !.pc = host'.pc] /\ host'.pc \in {"opened", "idle", "aborted"}
          /\ host'.pc = "opened" => fd' = Opened
      <3>1. CASE /\ \E found \in BOOLEAN : openDevice(found, 115200, 8, "none", "1")
                 /\ host' = [Idle EXCEPT !.pc = IF ret' = 1 THEN "opened" ELSE "idle"]
        <4>1. ret' = 1 => fd' = Opened
          BY <3>1 DEF openDevice
        <4> QED  BY <3>1, <4>1 DEF Idle
      <3>2. CASE host' = [Idle EXCEPT !.pc = "aborted"]
        BY <3>2 DEF Idle
      <3> QED  BY <1>1, <3>1, <3>2 DEF vbdOpen
    <2>4. host' \in Host /\ host'.first # "$"
      BY <2>3, IdleType DEF Host, HostPcs, Idle
    <2>5. InCall' = InCall /\ host.pc # "reading" /\ host'.pc # "reading"
      BY <2>1, <2>3 DEF InCall
    <2>6. PortInv'
      BY <2>2, <2>3 DEF PortInv
    <2> QED  BY <2>1, <2>2, <2>4, <2>5, <2>6, <1>t, Emptied
  <1>2. ASSUME NEW a, NEW b, host.pc = a, <<a, b>> \in {<<"opened", "clear">>, <<"flush", "await">>},
               flushReceiver, host' = [host EXCEPT !.pc = b],
               UNCHANGED <<tx, line, answer, faults>>
        PROVE  Inv'
    <2>1. /\ rd.pc = "idle" /\ rx' = <<>> /\ ret' \in Int /\ fd' = fd /\ clock' = clock /\ rd' = rd
      BY <1>2 DEF flushReceiver
    <2>2. /\ host.pc \in {"opened", "flush"} /\ host'.pc \in {"clear", "await"}
          /\ host.pc = "opened" <=> host'.pc = "clear"
      BY <1>2, <1>t DEF Host
    <2>3. host' \in Host /\ host'.first # "$"
      BY <1>2, <2>2, <1>t DEF Host, HostPcs
    <2>4. PortInv'
      BY <2>1, <2>2, <1>t DEF PortInv
    <2>5. InCall' = InCall /\ host.pc # "reading" /\ host'.pc # "reading"
      BY <2>2 DEF InCall
    <2> QED  BY <1>2, <2>1, <2>3, <2>4, <2>5, <1>t, Emptied
  <1>3. CASE FlushStale
    BY <1>2, <1>3 DEF FlushStale
  <1>4. CASE FlushReply
    BY <1>2, <1>4 DEF FlushReply
  <1>5. CASE ClosePort
    <2>1. /\ rd.pc = "idle" /\ rx' = <<>> /\ ret' = ret /\ fd' = Closed /\ clock' = clock /\ rd' = rd
          /\ host.pc = "closing" /\ host' = Idle
          /\ tx' = tx /\ line' = line /\ answer' = answer /\ faults' = faults
      BY <1>5 DEF ClosePort, closeDevice
    <2>2. PortInv' /\ InCall' = InCall /\ host.pc # "reading" /\ host'.pc # "reading"
      BY <2>1, IdleType DEF PortInv, InCall
    <2> QED  BY <2>1, <2>2, <1>t, IdleType, Emptied
  <1>6. CASE Kill
    <2>1. /\ rx' = <<>> /\ ret' = 0 /\ fd' = Closed /\ clock' = clock /\ rd' = NoRead /\ host' = Idle
          /\ tx' = tx /\ line' = line /\ answer' = answer /\ faults' = faults + 1 /\ faults < MaxFaults
      BY <1>6 DEF Kill, MayFail
    <2>2. PortInv'
      BY <2>1, IdleType DEF PortInv
    <2>3. faults' \in 0 .. MaxFaults
      BY <2>1, <1>t
    <2> QED  BY <2>1, <2>2, <2>3, <1>t, IdleType, NoReadType, Emptied
  <1> QED  BY <1>1, <1>3, <1>4, <1>5, <1>6

\* A call that waits starts the next read.
LEMMA NextReadStep ==
    ASSUME Inv, NextRead
    PROVE  Inv'
  <1>t. /\ fd \in {Closed, Opened} /\ rx \in Seq(Char) /\ line \in Seq(Char)
        /\ rx \o line \in Seq(Char) /\ host \in Host /\ host.first # "$"
        /\ tx \in Seq(Letter) /\ Len(tx) \in Nat /\ answer \in Seq(Digit)
        /\ faults \in Nat /\ faults \in 0 .. MaxFaults /\ PortInv /\ Framed(Unread)
        /\ ReplyCount(rx \o line) \in Nat
        /\ Len(tx) + ReplyCount(Unread) <= faults + 1
    BY InvFacts
  <1>1. PICK t \in Terminators, m \in Nat :
            /\ readStringNoTimeOut(t, m, {0})
            /\ host.cmd \in Acked => m = AckSize
    <2>1. CASE host.cmd \in Acked /\ readString("nl", AckSize, 0, {0})
      BY <2>1, CharFacts DEF readString, Terminators
    <2>2. CASE host.cmd \in Queries /\ readStringNoTimeOut("*", QuerySize, {0})
      <3>1. host.cmd \notin Acked
        BY <2>2 DEF Queries, Flushing, Acked, Stop
      <3> QED  BY <2>2, <3>1, CharFacts DEF Terminators
    <2> QED  BY <2>1, <2>2 DEF NextRead
  <1>2. /\ rd.pc = "idle" /\ clock' = 0 /\ ret' = 0 /\ fd' = fd /\ rx' = rx
        /\ rd' = [fn |-> "readStringNoTimeOut", pc |-> "loop", buf |-> <<>>, zero |-> 0, finalChar |-> t,
                  maxNbBytes |-> m, timeOut_ms |-> 0,
                  timer |-> 0, charTimer |-> 0, charTimeOut |-> 0]
    BY <1>1 DEF readStringNoTimeOut, Call
  <1>3. /\ host.pc = "await" /\ host' = [host EXCEPT !.pc = "reading"]
        /\ tx' = tx /\ line' = line /\ answer' = answer /\ faults' = faults
    BY DEF NextRead
  <1>4. host' \in Host /\ host'.pc = "reading" /\ host'.cmd = host.cmd /\ host'.first = host.first
    BY <1>3, <1>t DEF Host, HostPcs
  <1>5. rd' \in ReadRecord
    BY <1>2, CharFacts DEF ReadRecord, ReadFns, ReadPcs
  <1>6. ReadInv'
    BY <1>1, <1>2, <1>4, <1>5, <1>t DEF ReadInv
  <1>7. PortInv'
    BY <1>2, <1>3, <1>4, <1>t DEF PortInv
  <1>8. Unread = rx \o line /\ Unread' = rx \o line
    <2>1. <<>> \o (rx \o line) = rx \o line
      BY <1>t, ConcatEmptySeq
    <2> QED  BY <1>2, <1>3, <2>1 DEF Unread
  <1>9. InCall' /\ ~Settled'
    BY <1>2, <1>4 DEF InCall, Settled
  <1>10. Len(tx') + ReplyCount(rx \o line) <= faults' + (IF InCall' /\ ~Settled' THEN 1 ELSE 0)
    BY <1>3, <1>8, <1>9, <1>t
  <1>11. Framed(rx \o line)
    BY <1>8, <1>t
  <1> QED  BY <1>2, <1>3, <1>4, <1>6, <1>7, <1>8, <1>10, <1>11, <1>t, InvNext

\* A read that goes on: the characters it has taken and the ones it has not
\* are the same sequence.
LEMMA ReadGoesOn ==
    ASSUME Inv, host.pc = "reading", rd.pc # "idle",
           host' = host, tx' = tx, line' = line, answer' = answer, faults' = faults,
           fd' = fd, clock' = clock, ret' = ret, rx' \in Seq(Char),
           rd' \in ReadRecord, rd'.pc \in {"loop", "char", "read"},
           rd'.fn = rd.fn, rd'.charTimeOut = 0, rd'.finalChar = rd.finalChar,
           rd'.maxNbBytes = rd.maxNbBytes,
           rd'.buf \o (rx' \o line) = rd.buf \o (rx \o line)
    PROVE  Inv'
  <1>t. /\ fd \in {Closed, Opened} /\ line \in Seq(Char) /\ host \in Host /\ host.first # "$"
        /\ ret \in Int /\ clock \in Int
        /\ tx \in Seq(Letter) /\ Len(tx) \in Nat /\ answer \in Seq(Digit)
        /\ faults \in Nat /\ faults \in 0 .. MaxFaults /\ ReadInv /\ PortInv /\ Framed(Unread)
        /\ ReplyCount(Unread) \in Nat /\ Len(tx) + ReplyCount(Unread) <= faults + 1
    BY InvFacts
  <1>1. ReadInv'
    BY <1>t DEF ReadInv
  <1>2. fd = Opened /\ PortInv'
    BY <1>t DEF PortInv, Closed, Opened
  <1>3. Unread' = Unread
    BY DEF Unread
  <1>4. InCall' /\ ~Settled'
    BY DEF InCall, Settled
  <1>5. Len(tx') + ReplyCount(Unread) <= faults' + (IF InCall' /\ ~Settled' THEN 1 ELSE 0)
    BY <1>4, <1>t
  <1> QED  BY <1>1, <1>2, <1>3, <1>5, <1>t, InvNext

\* Resetting timers keeps the type of the record of a call.
LEMMA TimersType ==
    ASSUME NEW r \in ReadRecord, NEW t \in Int, NEW u \in Int, NEW n \in Nat
    PROVE  [r EXCEPT !.timer = t, !.charTimer = u, !.charTimeOut = n] \in ReadRecord
  <1>1. [r EXCEPT !.timer = t] \in ReadRecord
    BY DEF ReadRecord
  <1> DEFINE r1 == [r EXCEPT !.timer = t]
  <1> HIDE DEF r1
  <1>2. r1 \in ReadRecord
    BY <1>1 DEF r1
  <1>3. [r1 EXCEPT !.charTimer = u, !.charTimeOut = n] \in ReadRecord
    BY <1>2 DEF ReadRecord
  <1> QED  BY <1>3 DEF r1

\* So does returning with a result.
LEMMA ReturnedType ==
    ASSUME rd \in ReadRecord, NEW b \in Seq(Char), NEW z \in {0, 1}
    PROVE  Returned(b, z) \in ReadRecord /\ Returned(b, z).pc = "idle"
  <1> DEFINE r == [rd EXCEPT !.buf = b, !.zero = z, !.pc = "idle"]
  <1>1. r \in ReadRecord /\ r.pc = "idle"
    BY DEF ReadRecord, ReadPcs
  <1>2. Returned(b, z) = [r EXCEPT !.timer = 0, !.charTimer = 0, !.charTimeOut = 0]
    BY DEF Returned
  <1> HIDE DEF r
  <1>3. 0 \in Int /\ 0 \in Nat
    OBVIOUS
  <1>4. [r EXCEPT !.timer = 0, !.charTimer = 0, !.charTimeOut = 0] \in ReadRecord
    BY <1>1, <1>3, TimersType, Zenon
  <1>5. [r EXCEPT !.timer = 0, !.charTimer = 0, !.charTimeOut = 0].pc = r.pc
    BY <1>1 DEF ReadRecord
  <1> QED  BY <1>1, <1>2, <1>4, <1>5

\* A read that ends: the call has a reply when it holds a terminator.
LEMMA ReadEnds ==
    ASSUME Inv, host.pc = "reading", rd.pc # "idle",
           host' = host, tx' = tx, line' = line, answer' = answer,
           fd' = fd, clock' = clock, ret' \in Int, rx' \in Seq(Char),
           NEW buf \in Seq(Char), NEW z \in {0, 1}, rd' = Returned(buf, z),
           buf \o (rx' \o line) = rd.buf \o (rx \o line),
           faults' \in 0 .. MaxFaults,
           \/ faults' = faults + 1
           \/ faults' = faults /\ host.cmd \notin Acked /\ ret' <= 0
           \/ faults' = faults /\ ReplyCount(buf) >= 1
    PROVE  Inv'
  <1>t. /\ fd \in {Closed, Opened} /\ line \in Seq(Char) /\ host \in Host /\ host.first # "$"
        /\ rd \in ReadRecord /\ clock \in Int
        /\ tx \in Seq(Letter) /\ Len(tx) \in Nat /\ answer \in Seq(Digit)
        /\ faults \in Nat /\ PortInv /\ Framed(Unread)
        /\ ReplyCount(Unread) \in Nat /\ Len(tx) + ReplyCount(Unread) <= faults + 1
    BY InvFacts
  <1>1. rd' \in ReadRecord /\ rd'.pc = "idle"
    BY <1>t, ReturnedType
  <1>2. fd = Opened /\ PortInv'
    BY <1>t DEF PortInv, Closed, Opened
  <1>3. rx' \o line \in Seq(Char) /\ Unread = buf \o (rx' \o line)
    BY <1>t, ConcatProperties DEF Unread
  <1>4. Framed(rx' \o line)
    BY <1>3, <1>t, FramedRest
  <1>5. ReplyCount(Unread) = ReplyCount(buf) + ReplyCount(rx' \o line)
    BY <1>3, CountConcat
  <1>6. ReplyCount(buf) \in Nat /\ ReplyCount(rx' \o line) \in Nat
    BY <1>3, CountType
  <1>7. InCall'
    BY DEF InCall
  <1>8. Len(tx') + ReplyCount(rx' \o line') <= faults' + (IF InCall' /\ ~Settled' THEN 1 ELSE 0)
    <2>1. CASE faults' = faults + 1
      BY <2>1, <1>5, <1>6, <1>7, <1>t
    <2>2. CASE faults' = faults /\ host.cmd \notin Acked /\ ret' <= 0
      <3>1. ~Settled'
        BY <2>2 DEF Settled
      <3> QED  BY <2>2, <3>1, <1>5, <1>6, <1>7, <1>t
    <2>3. CASE faults' = faults /\ ReplyCount(buf) >= 1
      BY <2>3, <1>5, <1>6, <1>7, <1>t
    <2> QED  BY <2>1, <2>2, <2>3
  <1> QED  BY <1>1, <1>2, <1>4, <1>8, <1>t, InvBetween

\* A full buffer of ack() holds the end of a reply.
LEMMA FullBufferHasReply ==
    ASSUME Inv, rd.pc # "idle", Len(rd.buf) >= AckSize
    PROVE  ReplyCount(rd.buf) >= 1
  <1>t. /\ rd.buf \in Seq(Char) /\ rx \o line \in Seq(Char) /\ Framed(Unread)
        /\ Len(rd.buf) \in Nat /\ Len(rx \o line) \in Nat /\ AckSize \in Nat
    BY InvFacts, CharFacts, LenProperties
  <1>1. Unread = rd.buf \o (rx \o line)
    BY DEF Unread
  <1>2. /\ Len(Unread) = Len(rd.buf) + Len(rx \o line)
        /\ \A i \in 1 .. Len(rd.buf) + Len(rx \o line) :
              Unread[i] = IF i <= Len(rd.buf) THEN rd.buf[i] ELSE (rx \o line)[i - Len(rd.buf)]
    BY <1>1, <1>t, ConcatProperties
  <1>n. ASSUME NEW n \in Nat, n >= AckSize, NEW k \in Nat, NEW i \in 0 + 1 .. 0 + AckSize
        PROVE  i \in 1 .. n /\ i <= n /\ i \in 1 .. n + k
    BY <1>n, <1>t
  <1>3. 0 \in 0 .. Len(Unread) - AckSize
    <2>1. \A n, k \in Nat : n >= AckSize => 0 \in 0 .. (n + k) - AckSize
      BY <1>t
    <2> QED  BY <1>2, <1>t, <2>1
  <1>4. PICK j \in 0 + 1 .. 0 + AckSize : Unread[j] \in Terminators
    BY <1>3, <1>t DEF Framed
  <1>5. j \in 1 .. Len(rd.buf) /\ j <= Len(rd.buf) /\ j \in 1 .. Len(rd.buf) + Len(rx \o line)
    BY <1>n, <1>t
  <1>6. rd.buf[j] \in Terminators
    BY <1>2, <1>4, <1>5
  <1> QED  BY <1>5, <1>6, <1>t, CountSome

\* A step of the library while the driver reads, and a failing read.
LEMMA ReadingStep ==
    ASSUME Inv, Reading \/ FailingRead
    PROVE  Inv'
  <1>t. /\ fd \in {Closed, Opened} /\ rx \in Seq(Char) /\ line \in Seq(Char) /\ host \in Host
        /\ rd \in ReadRecord /\ rd.buf \in Seq(Char) /\ ret \in Int
        /\ faults \in Nat /\ faults \in 0 .. MaxFaults /\ MaxFaults \in Nat
        /\ ReadInv /\ PortInv /\ (isDeviceOpen <=> fd = Opened)
    BY InvFacts
  <1>h. /\ host.pc = "reading" /\ host' = host /\ tx' = tx /\ line' = line /\ answer' = answer
    BY DEF Reading, FailingRead
  <1>o. fd = Opened /\ isDeviceOpen
    BY <1>h, <1>t DEF PortInv
  <1>p. rd.pc \in {"idle", "loop", "char", "read"}
    BY <1>t DEF ReadInv
  <1>r. ASSUME rd.pc # "idle"
        PROVE  /\ rd.fn = "readStringNoTimeOut" /\ rd.charTimeOut = 0 /\ rd.finalChar \in Terminators
               /\ host.cmd \in Acked => rd.maxNbBytes = AckSize
    BY <1>r, <1>t DEF ReadInv
  <1>1. CASE Reading /\ BufferFull
    <2>1. /\ rd.pc = "loop" /\ Len(rd.buf) >= rd.maxNbBytes /\ rd' = Returned(rd.buf, 0) /\ ret' = -3
          /\ fd' = fd /\ rx' = rx /\ clock' = clock /\ faults' = faults
      BY <1>1 DEF BufferFull, Return, Reading
    <2>i. ret' \in Int /\ ret' <= 0
      BY <2>1
    <2>2. CASE host.cmd \in Acked
      <3>1. ReplyCount(rd.buf) >= 1
        BY <2>1, <2>2, <1>r, FullBufferHasReply
      <3> QED  BY <2>1, <2>i, <3>1, <1>h, <1>t, ReadEnds
    <2>3. CASE host.cmd \notin Acked
      BY <2>1, <2>i, <2>3, <1>h, <1>t, ReadEnds
    <2> QED  BY <2>2, <2>3
  <1>2. CASE Reading /\ NextChar
    <2>1. /\ rd.pc = "loop" /\ fd' = fd /\ rx' = rx /\ clock' = clock /\ ret' = ret /\ faults' = faults
      BY <1>2 DEF NextChar, Reading
    <2>2. rd' = [rd EXCEPT !.pc = "char", !.charTimer = clock, !.charTimeOut = 0]
      BY <1>2, <2>1, <1>r DEF NextChar, initTimer
    <2>3. clock \in Int
      BY InvFacts
    <2>4. /\ rd' \in ReadRecord /\ rd'.pc = "char" /\ rd'.charTimeOut = 0 /\ rd'.fn = rd.fn
          /\ rd'.finalChar = rd.finalChar /\ rd'.maxNbBytes = rd.maxNbBytes /\ rd'.buf = rd.buf
      BY <2>2, <2>3, <1>t DEF ReadRecord, ReadPcs
    <2> QED  BY <2>1, <2>4, <1>h, <1>t, ReadGoesOn
  <1>3. ASSUME NEW pc \in {"read", "char"}, rd.pc # "idle", Goto(pc), UNCHANGED <<fd, rx, clock, faults>>
        PROVE  Inv'
    <2>1. rd' = [rd EXCEPT !.pc = pc] /\ ret' = ret
      BY <1>3 DEF Goto
    <2>2. /\ rd' \in ReadRecord /\ rd'.pc = pc /\ rd'.charTimeOut = 0 /\ rd'.fn = rd.fn
          /\ rd'.finalChar = rd.finalChar /\ rd'.maxNbBytes = rd.maxNbBytes /\ rd'.buf = rd.buf
      BY <2>1, <1>r, <1>3, <1>t DEF ReadRecord, ReadPcs
    <2> QED  BY <1>3, <2>1, <2>2, <1>h, <1>t, ReadGoesOn
  <1>4. CASE Reading /\ WaitChar
    <2>1. rd.pc = "char" /\ Goto("read") /\ UNCHANGED <<fd, rx, clock, faults>>
      BY <1>4, <1>r DEF WaitChar, Reading
    <2> QED  BY <2>1, <1>3
  <1>5. CASE Reading /\ NoChar
    BY <1>5, <1>3 DEF NoChar, Reading
  <1>6. CASE Reading /\ GotChar
    <2> DEFINE buf == Append(rd.buf, Head(rx))
    <2>1. /\ rd.pc = "read" /\ rx # <<>> /\ rx' = Tail(rx)
          /\ fd' = fd /\ clock' = clock /\ faults' = faults
      BY <1>6 DEF GotChar, Reading
    <2>2. /\ buf \in Seq(Char) /\ Tail(rx) \in Seq(Char) /\ buf \o Tail(rx) = rd.buf \o rx
          /\ Len(buf) = Len(rd.buf) + 1 /\ buf[Len(rd.buf) + 1] = Head(rx)
      BY <2>1, <1>t, HeadMoves
    <2> HIDE DEF buf
    <2>3. buf \o (rx' \o line) = rd.buf \o (rx \o line)
      <3>1. \A p, q, s \in Seq(Char) : (p \o q) \o s = p \o (q \o s)
        BY Associative, Zenon
      <3>2. (buf \o Tail(rx)) \o line = buf \o (Tail(rx) \o line)
        BY <2>2, <1>t, <3>1, Zenon
      <3>3. (rd.buf \o rx) \o line = rd.buf \o (rx \o line)
        BY <1>t, <3>1, Zenon
      <3> QED  BY <2>1, <2>2, <3>2, <3>3
    <2>4. CASE Head(rx) = rd.finalChar
      <3>1. rd' = Returned(buf, 1) /\ ret' = Len(buf)
        BY <1>6, <2>4, <2>1, <1>r DEF GotChar, buf
      <3>2. Len(rd.buf) \in Nat
        BY <1>t, LenProperties
      <3>3. Len(buf) \in 1 .. Len(buf) /\ buf[Len(buf)] \in Terminators /\ ret' \in Int
        BY <2>1, <2>2, <2>4, <3>1, <3>2, <1>r
      <3>4. ReplyCount(buf) >= 1
        BY <2>2, <3>3, CountSome
      <3> QED  BY <2>1, <2>2, <2>3, <3>1, <3>3, <3>4, <1>h, <1>t, ReadEnds
    <2>5. CASE Head(rx) # rd.finalChar
      <3>1. rd' = [rd EXCEPT !.buf = buf, !.pc = "loop"] /\ ret' = ret
        BY <1>6, <2>1, <2>5, <1>r DEF GotChar, buf
      <3>2. /\ rd' \in ReadRecord /\ rd'.pc = "loop" /\ rd'.charTimeOut = 0 /\ rd'.fn = rd.fn
            /\ rd'.finalChar = rd.finalChar /\ rd'.maxNbBytes = rd.maxNbBytes /\ rd'.buf = buf
        BY <3>1, <2>1, <2>2, <1>r, <1>t DEF ReadRecord, ReadPcs
      <3> QED  BY <2>1, <2>2, <2>3, <3>1, <3>2, <1>h, <1>t, ReadGoesOn
    <2> QED  BY <2>4, <2>5
  <1>7. CASE FailingRead
    <2>1. /\ rd.pc = "read" /\ rd' = Returned(rd.buf, 0) /\ ret' = -2
          /\ fd' = fd /\ rx' = rx /\ clock' = clock /\ faults' = faults + 1 /\ faults < MaxFaults
      BY <1>7, <1>p DEF FailingRead, ReadError, Return, MayFail
    <2>2. faults' \in 0 .. MaxFaults /\ ret' \in Int
      BY <2>1, <1>t
    <2> QED  BY <2>1, <2>2, <1>h, <1>t, ReadEnds
  <1>8. Reading => Reading /\ (BufferFull \/ NextChar \/ WaitChar \/ NoChar \/ GotChar)
    BY <1>o, <1>p DEF Reading, ReadStep, Late, WaitBytes, GotBytes
  <1> QED  BY <1>1, <1>2, <1>4, <1>5, <1>6, <1>7, <1>8

\* A step of the driver after a read: it returns only with its reply.
LEMMA HostOnly ==
    ASSUME Inv, rd.pc = "idle", rd' = rd, ret' = ret, clock' = clock,
           \/ fd' = fd /\ rx' = rx
           \/ fd' = Closed /\ rx' = <<>> /\ host'.pc = "aborted",
           tx' = tx, line' = line, answer' = answer, faults' = faults,
           host.pc = "reading", host' \in Host, host'.first # "$",
           \/ host'.pc = "await"
           \/ host'.pc \in {"idle", "closing", "aborted"} /\ Settled
    PROVE  Inv'
  <1>t. /\ fd \in {Closed, Opened} /\ rx \in Seq(Char) /\ line \in Seq(Char)
        /\ rd \in ReadRecord /\ ret \in Int /\ clock \in Int
        /\ tx \in Seq(Letter) /\ Len(tx) \in Nat /\ answer \in Seq(Digit)
        /\ faults \in Nat /\ faults \in 0 .. MaxFaults /\ PortInv /\ ReplyCount(Unread) \in Nat
        /\ Len(tx) + ReplyCount(Unread) <= faults + (IF InCall /\ ~Settled THEN 1 ELSE 0)
        /\ Len(tx) + ReplyCount(Unread) <= faults + 1
    BY InvFacts
  <1>1. fd = Opened /\ Unread = rx \o line
    BY <1>t DEF PortInv, Unread
  <1>2. fd' \in {Closed, Opened} /\ rx' \in Seq(Char) /\ PortInv'
    <2>1. CASE fd' = fd /\ rx' = rx
      <3>1. fd' # Closed
        BY <2>1, <1>1 DEF Closed, Opened
      <3> QED  BY <2>1, <3>1, <1>1, <1>t DEF PortInv
    <2>2. CASE fd' = Closed /\ rx' = <<>> /\ host'.pc = "aborted"
      BY <2>2 DEF PortInv
    <2> QED  BY <2>1, <2>2
  <1>3. /\ Framed(rx' \o line') /\ ReplyCount(rx' \o line') \in Nat
        /\ ReplyCount(rx' \o line') <= ReplyCount(Unread)
    <2>1. CASE rx' = rx
      BY <2>1, <1>1, RestOnLine, InvFacts
    <2>2. CASE rx' = <<>>
      BY <2>2, RestOnLine
    <2> QED  BY <2>1, <2>2
  <1>4. Len(tx') + ReplyCount(rx' \o line') <= faults' + (IF InCall' /\ ~Settled' THEN 1 ELSE 0)
    <2>1. CASE host'.pc = "await"
      <3>1. InCall' /\ ~Settled'
        BY <2>1 DEF InCall, Settled
      <3> QED  BY <3>1, <1>3, <1>t
    <2>2. CASE host'.pc \in {"idle", "closing", "aborted"} /\ Settled
      <3>1. ~InCall'
        BY <2>2 DEF InCall
      <3> QED  BY <2>2, <3>1, <1>3, <1>t
    <2> QED  BY <2>1, <2>2
  <1> QED  BY <1>2, <1>3, <1>4, <1>t, InvBetween

\* The end of a round of ack().
LEMMA AckStep ==
    ASSUME Inv, ack
    PROVE  Inv' /\ (host'.pc = "await" \/ (host'.pc \in {"idle", "closing"} /\ Settled))
  <1>t. rd \in ReadRecord /\ rd.buf \in Seq(Char) /\ host \in Host /\ host.first # "$"
    BY InvFacts
  <1>1. /\ host.pc = "reading" /\ host.cmd \in Acked /\ rd.pc = "idle"
        /\ fd' = fd /\ rx' = rx /\ rd' = rd /\ ret' = ret /\ clock' = clock
        /\ tx' = tx /\ line' = line /\ answer' = answer /\ faults' = faults
    BY DEF ack, serialVars
  <1>2. Settled
    BY <1>1 DEF Settled
  <1>3. FirstChar \in Char \cup {Uninit, Junk}
    <2>1. CASE rd.buf = <<>>
      BY <2>1, <1>t DEF FirstChar, Host
    <2>2. CASE rd.buf # <<>>
      <3>1. 1 \in 1 .. Len(rd.buf)
        BY <2>2, <1>t, EmptySeq, LenProperties
      <3> QED  BY <2>2, <3>1, <1>t, ElementOfSeq DEF FirstChar
    <2> QED  BY <2>1, <2>2
  <1>4. /\ host' \in Host /\ host'.first # "$"
        /\ host'.pc = "await" \/ host'.pc \in {"idle", "closing"}
    <2>1. CASE host' = IF host.cmd = Stop THEN [host EXCEPT !.pc = "closing"] ELSE Idle
      BY <2>1, <1>t, IdleType DEF Host, HostPcs
    <2>2. CASE /\ FirstChar # "$"
               /\ host' = [host EXCEPT !.pc = "await",
                                       !.first = IF FirstChar = Uninit THEN Junk ELSE FirstChar]
      BY <2>2, <1>3, <1>t DEF Host, HostPcs, Junk
    <2> QED  BY <2>1, <2>2 DEF ack
  <1>5. Inv'
    BY <1>1, <1>2, <1>4, HostOnly
  <1> QED  BY <1>2, <1>4, <1>5

\* The end of a round of a query.
LEMMA QueryStep ==
    ASSUME Inv, QueryRound
    PROVE  Inv' /\ (host'.pc = "await" \/ (host'.pc \in {"idle", "aborted"} /\ Settled))
  <1>t. host \in Host /\ host.first # "$"
    BY InvFacts
  <1>1. /\ host.pc = "reading" /\ rd.pc = "idle"
        /\ rd' = rd /\ ret' = ret /\ clock' = clock
        /\ tx' = tx /\ line' = line /\ answer' = answer /\ faults' = faults
    BY DEF QueryRound, serialVars, closeDevice
  <1>2. CASE ret <= 0 /\ host' = [host EXCEPT !.pc = "await"] /\ UNCHANGED serialVars
    <2>1. host' \in Host /\ host'.first # "$" /\ host'.pc = "await"
      BY <1>2, <1>t DEF Host, HostPcs
    <2>2. fd' = fd /\ rx' = rx
      BY <1>2 DEF serialVars
    <2>3. Inv'
      BY <2>1, <2>2, <1>1, HostOnly
    <2> QED  BY <2>1, <2>3
  <1>3. CASE ret > 0 /\ host' = Idle /\ UNCHANGED serialVars
    <2>1. Settled
      BY <1>1, <1>3 DEF Settled
    <2>2. fd' = fd /\ rx' = rx
      BY <1>3 DEF serialVars
    <2> QED  BY <2>1, <2>2, <1>1, <1>3, IdleType, HostOnly
  <1>4. CASE ret > 0 /\ host' = [host EXCEPT !.pc = "aborted"] /\ closeDevice
    <2>1. Settled
      BY <1>1, <1>4 DEF Settled
    <2>2. host' \in Host /\ host'.first # "$" /\ host'.pc = "aborted"
      BY <1>4, <1>t DEF Host, HostPcs
    <2>3. fd' = Closed /\ rx' = <<>>
      BY <1>4 DEF closeDevice
    <2> QED  BY <2>1, <2>2, <2>3, <1>1, HostOnly
  <1> QED  BY <1>2, <1>3, <1>4 DEF QueryRound

\* A bound that shifts with what it bounds.
LEMMA StillWithin ==
    ASSUME NEW new \in Int, NEW old \in Int, NEW f \in Int, NEW g \in Int, NEW one \in Int,
           old <= f + one, new - g <= old - f
    PROVE  new <= g + one
  OBVIOUS

\* The library's state and the driver's stay: only what is unread and what is
\* to be executed changes.
LEMMA OutsideStep ==
    ASSUME Inv, host' = host, fd' = fd, clock' = clock, rd' = rd, ret' = ret,
           rx' \in Seq(Char), line' \in Seq(Char), tx' \in Seq(Letter), answer' \in Seq(Digit),
           faults' \in 0 .. MaxFaults, fd = Closed => rx' = <<>>,
           NEW u \in Seq(Char), Unread' = u, Framed(u),
           (Len(tx') + ReplyCount(u)) - faults' <= (Len(tx) + ReplyCount(Unread)) - faults
    PROVE  Inv'
  <1>t. /\ fd \in {Closed, Opened} /\ host \in Host /\ Len(tx) \in Nat /\ faults \in Nat
        /\ MaxFaults \in Nat /\ ReadInv /\ PortInv /\ ReplyCount(Unread) \in Nat
        /\ Len(tx) + ReplyCount(Unread) <= faults + (IF InCall /\ ~Settled THEN 1 ELSE 0)
    BY InvFacts
  <1>1. ReadInv' /\ PortInv'
    BY <1>t DEF ReadInv, PortInv
  <1>2. InCall' = InCall /\ Settled' = Settled
    BY DEF InCall, Settled
  <1>3. Len(tx') \in Nat /\ ReplyCount(u) \in Nat /\ faults' \in Int
    BY CountType, LenProperties, <1>t
  <1>4. Len(tx') + ReplyCount(u) <= faults' + (IF InCall' /\ ~Settled' THEN 1 ELSE 0)
    <2>1. /\ (IF InCall /\ ~Settled THEN 1 ELSE 0) \in Int
          /\ Len(tx) + ReplyCount(Unread) \in Int /\ Len(tx') + ReplyCount(u) \in Int
          /\ faults \in Int /\ faults' \in Int
      BY <1>3, <1>t
    <2>2. Len(tx') + ReplyCount(u) <= faults' + (IF InCall /\ ~Settled THEN 1 ELSE 0)
      BY <2>1, <1>t, StillWithin, Zenon
    <2> QED  BY <2>2, <1>2, Zenon
  <1> QED  BY <1>1, <1>4, <1>t, InvNext

\* The board executes a command: one command less, one reply more, or a fault.
LEMMA BoardStep ==
    ASSUME Inv, BoardExecutes
    PROVE  Inv'
  <1>t. /\ rx \in Seq(Char) /\ line \in Seq(Char) /\ rx \o line \in Seq(Char)
        /\ Unread \in Seq(Char) /\ rd.buf \in Seq(Char)
        /\ tx \in Seq(Letter) /\ Len(tx) \in Nat /\ answer \in Seq(Digit)
        /\ faults \in Nat /\ faults \in 0 .. MaxFaults /\ MaxFaults \in Nat
        /\ ReplyCount(Unread) \in Nat /\ PortInv /\ Framed(Unread)
    BY InvFacts
  <1>1. /\ tx # <<>> /\ tx' = Tail(tx) /\ host' = host
        /\ fd' = fd /\ rx' = rx /\ clock' = clock /\ rd' = rd /\ ret' = ret
    BY DEF BoardExecutes, serialVars
  <1>2. Head(tx) \in Letter /\ Tail(tx) \in Seq(Letter) /\ Len(Tail(tx)) = Len(tx) - 1
    BY <1>1, <1>t, HeadTailProperties
  <1>3. PICK v \in IF Head(tx) = "Y" THEN {<<d>> : d \in Digit}
                   ELSE IF Head(tx) \in Queries THEN Values ELSE {<<>>} :
            /\ answer' = IF Head(tx) \in Queries THEN v ELSE answer
            /\ \/ \E r \in Replies(Head(tx), v) : line' = line \o r /\ UNCHANGED faults
               \/ MayFail /\ UNCHANGED line
    BY DEF BoardExecutes
  <1>4. v \in Seq(Digit) /\ Len(v) + 3 <= AckSize
    <2>1. \A d \in Digit : <<d>> \in Seq(Digit) /\ Len(<<d>>) + 3 <= AckSize
      BY CharFacts
    <2>2. <<>> \in Seq(Digit) /\ Len(<<>>) + 3 <= AckSize
      BY CharFacts
    <2> QED  BY <1>3, <2>1, <2>2, CharFacts
  <1>5. answer' \in Seq(Digit)
    BY <1>3, <1>4, <1>t
  <1>6. rx' \in Seq(Char) /\ tx' \in Seq(Letter) /\ Len(tx') = Len(tx) - 1 /\ (fd = Closed => rx' = <<>>)
    BY <1>1, <1>2, <1>t DEF PortInv
  <1>7. ASSUME NEW r \in Replies(Head(tx), v), line' = line \o r, faults' = faults
        PROVE  Inv'
    <2>1. /\ r \in Seq(Char) /\ ReplyCount(r) = 1 /\ Len(r) \in 1 .. AckSize
          /\ r[Len(r)] \in Terminators
      BY <1>2, <1>4, RepliesOnce
    <2>2. \A p, q \in Seq(Char) : p \o q \in Seq(Char)
      BY ConcatProperties
    <2>3. /\ rx \in Seq(Char) /\ line \in Seq(Char) /\ r \in Seq(Char)
          /\ rd.buf \in Seq(Char) /\ rx \o line \in Seq(Char)
      BY <2>1, <1>t, Zenon
    <2>4. rx \o (line \o r) = (rx \o line) \o r
      BY <2>3, Associative, Zenon
    <2>5. rd.buf \o ((rx \o line) \o r) = (rd.buf \o (rx \o line)) \o r
      BY <2>3, Associative, Zenon
    <2>6. Unread' = Unread \o r
      BY <2>4, <2>5, <1>1, <1>7 DEF Unread
    <2>7. Unread \o r \in Seq(Char) /\ line' \in Seq(Char)
      BY <2>1, <2>2, <1>t, <1>7
    <2>8. ReplyCount(Unread \o r) = ReplyCount(Unread) + 1
      BY <2>1, <1>t, CountConcat
    <2>9. Framed(Unread \o r)
      BY <2>1, <1>t, FramedMore
    <2>10. (Len(tx') + ReplyCount(Unread \o r)) - faults' <= (Len(tx) + ReplyCount(Unread)) - faults
      BY <2>8, <1>6, <1>7, <1>t
    <2> QED  BY <2>6, <2>7, <2>9, <2>10, <1>1, <1>5, <1>6, <1>7, <1>t, OutsideStep
  <1>8. CASE MayFail /\ line' = line
    <2>1. faults' = faults + 1 /\ faults' \in 0 .. MaxFaults
      BY <1>8, <1>t DEF MayFail
    <2>2. Unread' = Unread
      BY <1>8, <1>1 DEF Unread
    <2>3. (Len(tx') + ReplyCount(Unread)) - faults' <= (Len(tx) + ReplyCount(Unread)) - faults
      BY <2>1, <1>6, <1>t
    <2> QED  BY <2>1, <2>2, <2>3, <1>1, <1>5, <1>6, <1>8, <1>t, OutsideStep
  <1> QED  BY <1>3, <1>7, <1>8

\* A byte arrives, or is gone at a closed port.
LEMMA DeliverStep ==
    ASSUME Inv, Deliver
    PROVE  Inv'
  <1>t. /\ fd \in {Closed, Opened} /\ rx \in Seq(Char) /\ line \in Seq(Char)
        /\ Unread \in Seq(Char) /\ rd.buf \in Seq(Char)
        /\ tx \in Seq(Letter) /\ Len(tx) \in Nat /\ answer \in Seq(Digit)
        /\ faults \in Nat /\ faults \in 0 .. MaxFaults /\ MaxFaults \in Nat
        /\ ReplyCount(Unread) \in Nat /\ ReadInv /\ PortInv /\ Framed(Unread)
        /\ (isDeviceOpen <=> fd = Opened) /\ (host.pc # "reading" => rd.pc = "idle")
    BY InvFacts
  <1>1. /\ line # <<>> /\ line' = Tail(line)
        /\ host' = host /\ tx' = tx /\ answer' = answer /\ faults' = faults
    BY DEF Deliver
  <1>2. /\ Append(rx, Head(line)) \in Seq(Char) /\ Tail(line) \in Seq(Char)
        /\ Append(rx, Head(line)) \o Tail(line) = rx \o line
        /\ line = <<Head(line)>> \o Tail(line) /\ <<Head(line)>> \in Seq(Char)
    BY <1>1, <1>t, HeadMoves
  <1>3. CASE isDeviceOpen
    <2>1. /\ rx' = Append(rx, Head(line)) /\ fd' = fd /\ clock' = clock /\ rd' = rd /\ ret' = ret
          /\ fd # Closed
      BY <1>3, <1>t DEF Deliver, Arrive, Closed, Opened
    <2>2. Unread' = Unread
      BY <1>1, <1>2, <2>1 DEF Unread
    <2> QED  BY <1>1, <1>2, <2>1, <2>2, <1>t, OutsideStep
  <1>4. CASE ~isDeviceOpen
    <2>1. /\ rx' = rx /\ fd' = fd /\ clock' = clock /\ rd' = rd /\ ret' = ret
      BY <1>4 DEF Deliver, serialVars
    <2>2. rx = <<>> /\ rd.pc = "idle"
      BY <1>4, <1>t DEF PortInv
    <2>3. Unread = <<Head(line)>> \o Tail(line) /\ Unread' = Tail(line)
      <3>1. <<>> \o line = line /\ <<>> \o Tail(line) = Tail(line)
        BY <1>2, <1>t, ConcatEmptySeq
      <3>2. Unread = rx \o line /\ Unread' = rx \o Tail(line)
        BY <2>1, <2>2, <1>1 DEF Unread
      <3> QED  BY <3>1, <3>2, <2>2, <1>2
    <2>4. Framed(Tail(line)) /\ ReplyCount(Tail(line)) <= ReplyCount(Unread)
      BY <2>3, <1>2, <1>t, FramedRest
    <2>5. ReplyCount(Tail(line)) \in Nat
      BY <1>2, CountType
    <2>6. (Len(tx') + ReplyCount(Tail(line))) - faults' <= (Len(tx) + ReplyCount(Unread)) - faults
      BY <2>4, <2>5, <1>1, <1>t
    <2> QED  BY <1>1, <1>2, <2>1, <2>2, <2>3, <2>4, <2>6, <1>t, OutsideStep
  <1> QED  BY <1>3, <1>4

\* The functions that write a command, vbdOpen's vbdClear included.
LEMMA CallStep ==
    ASSUME Inv, CallAck \/ CallQuery \/ ClearScreen
    PROVE  \E c \in Letter, pc \in {"await", "flush"} :
              /\ host.pc \in {"idle", "clear"} /\ isDeviceOpen
              /\ Send(c, pc)
  <1>t. PortInv /\ (isDeviceOpen <=> fd = Opened)
    BY InvFacts
  <1>l. Acked \subseteq Letter /\ Queries \subseteq Letter
    BY DEF Letter
  <1>1. CASE CallAck
    <2>1. PICK c \in Acked : AckCall(c)
      BY <1>1 DEF CallAck, Acked, vbdClear, vbdHex, vbdPlot, vbdHeader, vbdCycle, vbdSetMode,
                  vbdInitAnalogOut, vbdOutputSample, vbdAoutON, vbdAoutOFF, vbdInitMicIn, vbdBar,
                  vbdInitWatch, vbdClose
    <2> QED  BY <2>1, <1>l DEF AckCall
  <1>2. CASE CallQuery
    <2>1. PICK c \in Queries : vbdFlag \/ FlushingQuery(c)
      BY <1>2 DEF CallQuery, Queries, Flushing, vbdValue, vbdMicValue, vbdElapsed
    <2>2. CASE vbdFlag
      BY <2>2, <1>l DEF vbdFlag, Queries
    <2>3. CASE FlushingQuery(c)
      BY <2>3, <1>l DEF FlushingQuery
    <2> QED  BY <2>1, <2>2, <2>3
  <1>3. CASE ClearScreen
    <2>1. host.pc = "clear" /\ Send("C", "await") /\ "C" \in Letter
      BY <1>3, <1>l DEF ClearScreen, Acked
    <2>2. isDeviceOpen
      BY <2>1, <1>t DEF PortInv
    <2> QED  BY <2>1, <2>2
  <1> QED  BY <1>1, <1>2, <1>3

\* The steps of the specification, with the calls taken together.
LEMMA Steps ==
    ASSUME Next
    PROVE  \/ CallAck \/ CallQuery \/ ClearScreen
           \/ vbdOpen \/ FlushStale \/ FlushReply \/ ClosePort \/ Kill
           \/ NextRead
           \/ Reading \/ FailingRead
           \/ ack
           \/ QueryRound
           \/ BoardExecutes
           \/ Deliver
  BY DEF Next, HostStep

\* The invariant holds at the start.
LEMMA InvInit ==
    ASSUME Init
    PROVE  Inv
  <1>1. /\ fd = Closed /\ rx = <<>> /\ clock = 0 /\ rd = NoRead /\ ret = 0 /\ host = Idle
        /\ tx = <<>> /\ line = <<>> /\ answer = <<>> /\ faults = 0
    BY DEF Init, serialib
  <1>2. rd \in ReadRecord /\ rd.pc = "idle" /\ host \in Host /\ host.pc = "idle" /\ host.first # "$"
    BY <1>1, NoReadType, IdleType
  <1>3. rd.pc \in ReadPcs /\ rd.buf \in Seq(Char)
    BY <1>2 DEF ReadRecord
  <1>4. Unread = <<>>
    <2>1. <<>> \in Seq(Char)
      OBVIOUS
    <2>2. <<>> \o <<>> = <<>>
      BY <2>1, ConcatEmptySeq
    <2> QED  BY <1>1, <1>2, <2>2 DEF Unread
  <1>5. faults \in 0 .. MaxFaults
    BY <1>1, CharFacts
  <1>6. TypeOK
    BY <1>1, <1>2, <1>3, <1>5 DEF TypeOK, Host
  <1>7. ReadInv /\ PortInv
    BY <1>1, <1>2 DEF ReadInv, PortInv
  <1>8. Framed(Unread)
    <2>1. Len(<<>>) - AckSize < 0
      BY CharFacts
    <2>2. 0 .. Len(<<>>) - AckSize = {}
      BY <2>1, CharFacts
    <2> QED  BY <1>4, <2>2 DEF Framed
  <1>9. Balance
    <2>1. <<>> \in Seq(Char) /\ \A i \in 1 .. Len(<<>>) : <<>>[i] \notin Terminators
      OBVIOUS
    <2>2. ReplyCount(<<>>) = 0
      BY <2>1, CountNone
    <2>3. ~InCall
      BY <1>2 DEF InCall
    <2> QED  BY <1>1, <1>4, <2>2, <2>3 DEF Balance
  <1> QED  BY <1>6, <1>7, <1>8, <1>9 DEF Inv

\* A step that changes nothing keeps the invariant.
LEMMA InvStutter ==
    ASSUME Inv, UNCHANGED vars
    PROVE  Inv'
  BY DEF vars, serialVars, Inv, TypeOK, ReadInv, PortInv, Framed, Unread, Balance, ReplyCount, Ends,
         InCall, Settled

\* Every step keeps it.
LEMMA InvStep ==
    ASSUME Inv, [Next]_vars
    PROVE  Inv'
  <1>1. CASE CallAck \/ CallQuery \/ ClearScreen
    BY <1>1, CallStep, SendStep
  <1>2. CASE vbdOpen \/ FlushStale \/ FlushReply \/ ClosePort \/ Kill
    BY <1>2, PortSteps
  <1>3. CASE NextRead
    BY <1>3, NextReadStep
  <1>4. CASE Reading \/ FailingRead
    BY <1>4, ReadingStep
  <1>5. CASE ack
    BY <1>5, AckStep
  <1>6. CASE QueryRound
    BY <1>6, QueryStep
  <1>7. CASE BoardExecutes
    BY <1>7, BoardStep
  <1>8. CASE Deliver
    BY <1>8, DeliverStep
  <1>9. CASE UNCHANGED vars
    BY <1>9, InvStutter
  <1> QED  BY <1>1, <1>2, <1>3, <1>4, <1>5, <1>6, <1>7, <1>8, <1>9, Steps

-----------------------------------------------------------------------------
(* The driver implements the commands                                      *)

\* When a call returns, no more commands are unexecuted than there were faults.
LEMMA SettledInStep ==
    ASSUME Inv, Settled
    PROVE  Len(tx) <= faults
  <1>1. /\ Len(tx) \in Nat /\ faults \in Nat /\ ReplyCount(Unread) \in Nat
        /\ Len(tx) + ReplyCount(Unread) <= faults + (IF InCall /\ ~Settled THEN 1 ELSE 0)
    BY InvFacts
  <1> QED  BY <1>1

\* Every step of the driver, of the board or of the line is one of the abstract
\* commands, or none.
LEMMA StepImplements ==
    ASSUME Inv, [Next]_vars
    PROVE  [InStep!Next]_(InStep!cmdVars)
  <1>1. CASE CallAck \/ CallQuery \/ ClearScreen
    <2>1. PICK c \in Letter, pc \in {"await", "flush"} :
              host.pc \in {"idle", "clear"} /\ isDeviceOpen /\ Send(c, pc)
      BY <1>1, CallStep
    <2>2. ~InCall /\ InCall'
      BY <2>1 DEF Send, InCall
    <2>3. CASE tx' = Append(tx, c) /\ faults' = faults
      <3>1. InStep!Issue(c)
        BY <2>2, <2>3 DEF InStep!Issue
      <3> QED  BY <3>1 DEF InStep!Next
    <2>4. CASE MayFail /\ tx' = tx
      <3>1. InStep!CallFault
        BY <2>2, <2>4 DEF InStep!CallFault, MayFail
      <3> QED  BY <3>1 DEF InStep!Next
    <2> QED  BY <2>1, <2>3, <2>4 DEF Send
  <1>2. ASSUME tx' = tx, faults' = faults, InCall' = InCall
        PROVE  [InStep!Next]_(InStep!cmdVars)
    BY <1>2 DEF InStep!cmdVars
  <1>3. CASE vbdOpen
    BY <1>2, <1>3 DEF vbdOpen, InCall, Idle
  <1>4. CASE FlushStale \/ FlushReply \/ ClosePort \/ NextRead
    <2>1. host \in Host
      BY InvFacts
    <2>2. tx' = tx /\ faults' = faults
      BY <1>4 DEF FlushStale, FlushReply, ClosePort, NextRead
    <2>3. InCall' = InCall
      BY <1>4, <2>1 DEF FlushStale, FlushReply, ClosePort, NextRead, InCall, Idle, Host
    <2> QED  BY <1>2, <2>2, <2>3
  <1>5. CASE Kill
    <2>1. tx' = tx /\ faults' = faults + 1 /\ ~InCall'
      BY <1>5 DEF Kill, MayFail, InCall, Idle
    <2>2. CASE InCall
      <3>1. InCall' = ~InCall
        BY <2>1, <2>2 DEF InCall
      <3>2. InStep!CallFault
        BY <2>1, <3>1 DEF InStep!CallFault
      <3> QED  BY <3>2 DEF InStep!Next
    <2>3. CASE ~InCall
      <3>1. InCall' = InCall
        BY <2>1, <2>3 DEF InCall
      <3>2. InStep!AnswerFault
        BY <2>1, <3>1 DEF InStep!AnswerFault
      <3> QED  BY <3>2 DEF InStep!Next
    <2> QED  BY <2>2, <2>3
  <1>6. CASE Reading
    BY <1>2, <1>6 DEF Reading, InCall
  <1>7. CASE FailingRead
    <2>1. InStep!AnswerFault
      BY <1>7 DEF FailingRead, MayFail, InCall, InStep!AnswerFault
    <2> QED  BY <2>1 DEF InStep!Next
  <1>8. ASSUME host.pc = "reading", tx' = tx, faults' = faults,
               host'.pc = "await" \/ (host'.pc \in {"idle", "closing", "aborted"} /\ Settled)
        PROVE  [InStep!Next]_(InStep!cmdVars)
    <2>1. CASE host'.pc = "await"
      <3>1. InCall' = InCall
        BY <1>8, <2>1 DEF InCall
      <3> QED  BY <1>2, <1>8, <3>1
    <2>2. CASE host'.pc \in {"idle", "closing", "aborted"} /\ Settled
      <3>1. InCall /\ ~InCall'
        BY <1>8, <2>2 DEF InCall
      <3>2. Len(tx) <= faults
        BY <2>2, SettledInStep
      <3>3. InStep!Return
        BY <1>8, <3>1, <3>2 DEF InStep!Return
      <3> QED  BY <3>3 DEF InStep!Next
    <2> QED  BY <1>8, <2>1, <2>2
  <1>9. CASE ack
    <2>1. host.pc = "reading" /\ tx' = tx /\ faults' = faults
      BY <1>9 DEF ack
    <2> QED  BY <1>8, <1>9, <2>1, AckStep
  <1>10. CASE QueryRound
    <2>1. host.pc = "reading" /\ tx' = tx /\ faults' = faults
      BY <1>10 DEF QueryRound
    <2> QED  BY <1>8, <1>10, <2>1, QueryStep
  <1>11. CASE BoardExecutes
    <2>1. tx # <<>> /\ tx' = Tail(tx) /\ InCall' = InCall
      BY <1>11 DEF BoardExecutes, InCall
    <2>2. faults' = faults \/ faults' = faults + 1
      BY <1>11 DEF BoardExecutes, MayFail
    <2>3. InStep!Execute \/ InStep!LineFault
      BY <2>1, <2>2 DEF InStep!Execute, InStep!LineFault
    <2> QED  BY <2>3 DEF InStep!Next
  <1>12. CASE Deliver
    BY <1>2, <1>12 DEF Deliver, InCall
  <1>13. CASE UNCHANGED vars
    BY <1>2, <1>13 DEF vars, InCall
  <1> QED  BY <1>1, <1>3, <1>4, <1>5, <1>6, <1>7, <1>9, <1>10, <1>11, <1>12, <1>13, Steps

\* The inductive invariant of the driver, the board and the line.
THEOREM InvHolds == Spec => []Inv
  <1>1. Init => Inv
    BY InvInit
  <1>2. Inv /\ [Next]_vars => Inv'
    BY InvStep
  <1> QED  BY <1>1, <1>2, PTL DEF Spec

\* The control state of the driver, its buffers and the line keep their types,
\* and the faults their bound, whatever the board answers and whenever the
\* process is killed (vbdOpen to vbdElapsed, ack, readString).
THEOREM TypeCorrect == Spec => []TypeOK
  <1>1. Inv => TypeOK
    BY DEF Inv
  <1> QED  BY <1>1, InvHolds, PTL

\* For every set of answers and any number of faults: the board executes the
\* commands of the calling program once each and in order, and a function
\* returns (ack() and the loops of the queries) only when at most as many
\* commands are still open as there were faults, so with no fault only when
\* its own command has been executed.
THEOREM CommandsImplemented == Spec => ImplementsCommands
  <1>1. Init => InStep!Init
    BY DEF Init, InStep!Init, InCall, Idle
  <1>2. Inv /\ [Next]_vars => [InStep!Next]_(InStep!cmdVars)
    BY StepImplements
  <1> QED  BY <1>1, <1>2, InvHolds, PTL DEF Spec, ImplementsCommands, InStep!Spec
=============================================================================
