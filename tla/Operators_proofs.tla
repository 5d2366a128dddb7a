-------------------------- MODULE Operators_proofs --------------------------
(***************************************************************************)
(* What the operators without state return: those of Packet, for messages  *)
(* of any length and any buffer, and those on JSON values, for arrays of   *)
(* any size and integers of any width.                                     *)
(***************************************************************************)
EXTENDS Packet, SequenceTheorems, WellFoundedInduction, TLAPS

Json == INSTANCE JsonContainer

(* JSON values, for the bounds of Int, UInt, LargestInt and LargestUInt. *)
Width(MaxInt, MaxUInt, MaxLargestInt, MaxLargestUInt) == INSTANCE JsonValue

LEMMA NatMin ==
  ASSUME NEW T, T \subseteq Nat, T # {}
  PROVE  \E x \in T : \A y \in T : x <= y
<1>1. PICK x \in T : \A y \in T : ~(<<y, x>> \in OpToRel(<, Nat))
  BY NatLessThanWellFounded, WFMin
<1>2. \A y \in T : ~(y < x)
  <2>1. \A y \in T : y \in Nat /\ x \in Nat
    OBVIOUS
  <2>2. QED
    BY <1>1, <2>1, Zenon DEF OpToRel
<1>3. QED
  BY <1>2

(* A function on 1..n is a sequence of length n. *)
LEMMA FunctionIsSeq ==
  ASSUME NEW S, NEW n \in Nat, NEW f \in [1..n -> S]
  PROVE  f \in Seq(S) /\ Len(f) = n
<1>1. f \in UNION {[1..k -> S] : k \in Nat}
  OBVIOUS
<1>2. f \in Seq(S)
  BY <1>1, SeqDef, Zenon
<1>3. DOMAIN f = 1..n
  OBVIOUS
<1>4. QED
  BY <1>2, <1>3

LEMMA SingletonSeq ==
  ASSUME NEW S, NEW x \in S
  PROVE  <<x>> \in Seq(S) /\ Len(<<x>>) = 1 /\ <<x>>[1] = x
OBVIOUS

Units(M) == Kinds \X M \X Nat

(* The body of a message: its header and its further pieces. *)
LEMMA BodyType ==
  ASSUME NEW M, NEW m \in M, NEW n \in Nat
  PROVE  /\ Body(m, n) \in Seq(Units(M)) /\ Len(Body(m, n)) = n
         /\ \A i \in 1..n : Body(m, n)[i] = <<IF i = 1 THEN "," ELSE ".", m, i>>
<1>1. \A i \in 1..n : <<IF i = 1 THEN "," ELSE ".", m, i>> \in Units(M)
  <2> TAKE i \in 1..n
  <2>1. (IF i = 1 THEN "," ELSE ".") \in Kinds /\ i \in Nat
    BY DEF Kinds
  <2>2. QED
    BY <2>1 DEF Units
<1>2. Body(m, n) \in [1..n -> Units(M)]
  BY <1>1 DEF Body
<1>3. QED
  BY <1>2, FunctionIsSeq DEF Body

(* The whole message: unit i has the number i - 1, but for the end mark.   *)
LEMMA WireType ==
  ASSUME NEW M, NEW m \in M, NEW n \in Nat
  PROVE  /\ Wire(m, n) \in Seq(Units(M)) /\ Len(Wire(m, n)) = n + 2
         /\ Wire(m, n)[1] = <<"<", m, 0>>
         /\ Wire(m, n)[n + 2] = <<">", m, 0>>
         /\ \A i \in 2..(n + 1) : Wire(m, n)[i] = <<IF i = 2 THEN "," ELSE ".", m, i - 1>>
<1> DEFINE first == <<<<"<", m, 0>>>>
           last == <<<<">", m, 0>>>>
           U == Units(M)
<1>1. first \in Seq(U) /\ Len(first) = 1 /\ first[1] = <<"<", m, 0>>
  <2>1. <<"<", m, 0>> \in U
    BY DEF Units, Kinds
  <2>2. QED
    BY <2>1, SingletonSeq
<1>2. last \in Seq(U) /\ Len(last) = 1 /\ last[1] = <<">", m, 0>>
  <2>1. <<">", m, 0>> \in U
    BY DEF Units, Kinds
  <2>2. QED
    BY <2>1, SingletonSeq
<1>3. /\ Body(m, n) \in Seq(U) /\ Len(Body(m, n)) = n
      /\ \A i \in 1..n : Body(m, n)[i] = <<IF i = 1 THEN "," ELSE ".", m, i>>
  BY BodyType
<1> DEFINE fb == first \o Body(m, n)
<1>4. /\ fb \in Seq(U) /\ Len(fb) = n + 1
      /\ \A i \in 1..(n + 1) : fb[i] = IF i <= 1 THEN first[i] ELSE Body(m, n)[i - 1]
  <2> HIDE DEF first, U
  <2>1. /\ first \o Body(m, n) \in Seq(U)
        /\ Len(first \o Body(m, n)) = Len(first) + Len(Body(m, n))
        /\ \A i \in 1..(Len(first) + Len(Body(m, n))) :
             (first \o Body(m, n))[i] =
               IF i <= Len(first) THEN first[i] ELSE Body(m, n)[i - Len(first)]
    BY <1>1, <1>3, ConcatProperties
  <2>2. Len(first) + Len(Body(m, n)) = n + 1
    <3>1. Len(first) = 1 /\ Len(Body(m, n)) = n
      BY <1>1, <1>3
    <3>2. 1 + n = n + 1
      OBVIOUS
    <3>3. QED
      BY <3>1, <3>2, Zenon
  <2>3. QED
    BY <1>1, <2>1, <2>2
<1>5. /\ fb \o last \in Seq(U) /\ Len(fb \o last) = n + 2
      /\ \A i \in 1..(n + 2) : (fb \o last)[i] = IF i <= n + 1 THEN fb[i] ELSE last[i - (n + 1)]
  <2> HIDE DEF fb, last, U
  <2>1. /\ fb \o last \in Seq(U)
        /\ Len(fb \o last) = Len(fb) + Len(last)
        /\ \A i \in 1..(Len(fb) + Len(last)) :
             (fb \o last)[i] = IF i <= Len(fb) THEN fb[i] ELSE last[i - Len(fb)]
    BY <1>2, <1>4, ConcatProperties
  <2>2. Len(fb) + Len(last) = n + 2
    BY <1>2, <1>4
  <2>3. QED
    BY <1>4, <2>1, <2>2
<1>6. Wire(m, n) = fb \o last
  BY DEF Wire
<1> HIDE DEF fb, last, first
<1>7. /\ Wire(m, n)[1] = first[1]
      /\ Wire(m, n)[n + 2] = last[1]
      /\ \A i \in 2..(n + 1) : Wire(m, n)[i] = Body(m, n)[i - 1]
  BY <1>4, <1>5, <1>6
<1>8. \A i \in 2..(n + 1) : Wire(m, n)[i] = <<IF i = 2 THEN "," ELSE ".", m, i - 1>>
  <2> TAKE i \in 2..(n + 1)
  <2>1. i - 1 \in 1..n /\ (i - 1 = 1 <=> i = 2)
    OBVIOUS
  <2>2. QED
    BY <1>3, <1>7, <2>1
<1>9. QED
  BY <1>1, <1>2, <1>5, <1>6, <1>7, <1>8

(* Find is the first place of a kind, or 0. *)
LEMMA FindType ==
  ASSUME NEW S, NEW buf \in Seq(S), NEW kind
  PROVE  /\ Find(buf, kind) \in 0..Len(buf)
         /\ Find(buf, kind) = 0 => \A i \in 1..Len(buf) : buf[i][1] # kind
         /\ Find(buf, kind) # 0 =>
              /\ buf[Find(buf, kind)][1] = kind
              /\ \A i \in 1..(Find(buf, kind) - 1) : buf[i][1] # kind
<1> DEFINE at == {i \in DOMAIN buf : buf[i][1] = kind}
<1>1. at \subseteq 1..Len(buf) /\ DOMAIN buf = 1..Len(buf) /\ Len(buf) \in Nat
  BY LenProperties
<1>2. CASE at = {}
  BY <1>1, <1>2 DEF Find
<1>3. CASE at # {}
  <2>1. \E i \in at : \A j \in at : i <= j
    <3>1. at \subseteq Nat
      BY <1>1
    <3> HIDE DEF at
    <3>2. QED
      BY <1>3, <3>1, NatMin
  <2>2. Find(buf, kind) = CHOOSE i \in at : \A j \in at : i <= j
    BY <1>3 DEF Find
  <2>3. Find(buf, kind) \in at /\ \A j \in at : Find(buf, kind) <= j
    <3> HIDE DEF at
    <3>1. QED
      BY <2>1, <2>2
  <2>4. QED
    BY <1>1, <2>3
<1>4. QED
  BY <1>2, <1>3

LEMMA EraseType ==
  ASSUME NEW S, NEW buf \in Seq(S), NEW n \in 0..Len(buf)
  PROVE  /\ Erase(buf, n) \in Seq(S) /\ Len(Erase(buf, n)) = Len(buf) - n
         /\ \A i \in 1..(Len(buf) - n) : Erase(buf, n)[i] = buf[i + n]
<1>1. Len(buf) \in Nat
  BY LenProperties
<1>2. n + 1 \in 1..(Len(buf) + 1)
  BY <1>1
<1>3. /\ SubSeq(buf, n + 1, Len(buf)) \in Seq(S)
      /\ Len(SubSeq(buf, n + 1, Len(buf))) =
           IF n + 1 <= Len(buf) THEN Len(buf) - (n + 1) + 1 ELSE 0
      /\ \A i \in 1..(Len(buf) - (n + 1) + 1) :
           SubSeq(buf, n + 1, Len(buf))[i] = buf[(n + 1) + i - 1]
  BY <1>1, <1>2, SubSeqProperties
<1>4. QED
  BY <1>1, <1>3 DEF Erase

(* The first units of a sequence. *)
LEMMA PrefixType ==
  ASSUME NEW S, NEW s \in Seq(S), NEW k \in 0..Len(s)
  PROVE  /\ SubSeq(s, 1, k) \in Seq(S) /\ Len(SubSeq(s, 1, k)) = k
         /\ \A i \in 1..k : SubSeq(s, 1, k)[i] = s[i]
<1>1. Len(s) \in Nat /\ \A i \in 1..Len(s) : s[i] \in S
  BY LenProperties, ElementOfSeq
<1>2. k \in Nat /\ \A i \in 1..k : s[i] \in S
  BY <1>1
<1>3. /\ SubSeq(s, 1, k) \in Seq(S)
      /\ Len(SubSeq(s, 1, k)) = IF 1 <= k THEN k - 1 + 1 ELSE 0
      /\ \A i \in 1..(k - 1 + 1) : SubSeq(s, 1, k)[i] = s[1 + i - 1]
  BY <1>2, SubSeqProperties
<1>4. QED
  BY <1>2, <1>3

(* What StripMark and StripData return, and that an erased or overflown    *)
(* buffer is a buffer.                                                     *)
LEMMA StripType ==
  ASSUME NEW S, NEW buf \in Seq(S), StripMark(buf) > 0
  PROVE  StripMark(buf) \in 1..Len(buf) /\ StripData(buf) \in Seq(S)
<1>1. /\ Find(buf, "<") \in 0..Len(buf) /\ Find(buf, ">") \in 0..Len(buf)
      /\ Len(buf) \in Nat
  BY FindType, LenProperties
<1>2. Find(buf, "<") # 0 /\ StripMark(buf) = Find(buf, ">") /\ Find(buf, ">") > 0
  BY <1>1 DEF StripMark
<1>3. \A a \in 1..(Len(buf) + 1), b \in 0..Len(buf) : SubSeq(buf, a, b) \in Seq(S)
  BY SubSeqProperties
<1>4. buf # <<>>
  BY <1>1, <1>2
<1>5. Tail(buf) \in Seq(S)
  BY <1>4, HeadTailProperties
<1>6. /\ Find(buf, "<") + 1 \in 1..(Len(buf) + 1) /\ Find(buf, ">") - 1 \in 0..Len(buf)
      /\ 2 \in 1..(Len(buf) + 1)
  BY <1>1, <1>2
<1>7. /\ SubSeq(buf, Find(buf, "<") + 1, Find(buf, ">") - 1) \in Seq(S)
      /\ SubSeq(buf, 2, Find(buf, ">") - 1) \in Seq(S)
  BY <1>3, <1>6
<1>8. QED
  BY <1>1, <1>2, <1>5, <1>7 DEF StripData

LEMMA OverflowType ==
  ASSUME NEW S, NEW buf \in Seq(S)
  PROVE  Overflow(buf) \in Seq(S)
<1>1. Find(buf, ">") \in 0..Len(buf)
  BY FindType
<1>2. Erase(buf, Find(buf, ">")) \in Seq(S)
  BY <1>1, EraseType
<1>3. QED
  BY <1>2 DEF Overflow

LEMMA StripFront ==
  ASSUME NEW S, NEW buf \in Seq(S), Find(buf, "<") < Find(buf, ">")
  PROVE  StripData(buf) = SubSeq(buf, Find(buf, "<") + 1, Find(buf, ">") - 1)
<1>1. Find(buf, "<") \in 0..Len(buf) /\ Find(buf, ">") \in 0..Len(buf)
  BY FindType
<1>2. Len(buf) \in Nat
  BY LenProperties
<1>3. QED
  BY <1>1, <1>2, SMTT(30) DEF StripData

(* The units of a packet are units of the buffer. *)
LEMMA StripFrom ==
  ASSUME NEW S, NEW buf \in Seq(S), StripMark(buf) > 0
  PROVE  \A i \in 1..Len(StripData(buf)) : \E j \in 1..Len(buf) : StripData(buf)[i] = buf[j]
<1>1. /\ Find(buf, "<") \in 0..Len(buf) /\ Find(buf, ">") \in 0..Len(buf)
      /\ Len(buf) \in Nat
  BY FindType, LenProperties
<1>2. Find(buf, "<") # 0 /\ Find(buf, ">") > 0
  BY <1>1 DEF StripMark
<1>3. ASSUME NEW a, NEW b, a \in 1..(Len(buf) + 1), b \in 0..Len(buf)
      PROVE  \A i \in 1..Len(SubSeq(buf, a, b)) :
               \E j \in 1..Len(buf) : SubSeq(buf, a, b)[i] = buf[j]
  <2>1. /\ Len(SubSeq(buf, a, b)) = IF a <= b THEN b - a + 1 ELSE 0
        /\ \A i \in 1..(b - a + 1) : SubSeq(buf, a, b)[i] = buf[a + i - 1]
    BY <1>3, SubSeqProperties
  <2> SUFFICES ASSUME NEW i, i \in 1..Len(SubSeq(buf, a, b))
               PROVE  \E j \in 1..Len(buf) : SubSeq(buf, a, b)[i] = buf[j]
    OBVIOUS
  <2>2. i \in 1..(b - a + 1) /\ a + i - 1 \in 1..Len(buf)
    BY <1>1, <1>3, <2>1
  <2> QED BY <2>1, <2>2
<1>4. /\ Find(buf, "<") + 1 \in 1..(Len(buf) + 1) /\ Find(buf, ">") - 1 \in 0..Len(buf)
      /\ 2 \in 1..(Len(buf) + 1) /\ Len(buf) \in 0..Len(buf) /\ buf # <<>>
  BY <1>1, <1>2
<1>5. Tail(buf) = SubSeq(buf, 2, Len(buf))
  BY <1>4, TailIsSubSeq
<1>6. CASE StripData(buf) = SubSeq(buf, Find(buf, "<") + 1, Find(buf, ">") - 1)
  BY <1>3, <1>4, <1>6
<1>7. CASE StripData(buf) = SubSeq(buf, 2, Find(buf, ">") - 1)
  BY <1>3, <1>4, <1>7
<1>8. CASE StripData(buf) = Tail(buf)
  BY <1>3, <1>4, <1>5, <1>8
<1>9. \/ StripData(buf) = SubSeq(buf, Find(buf, "<") + 1, Find(buf, ">") - 1)
      \/ StripData(buf) = SubSeq(buf, 2, Find(buf, ">") - 1)
      \/ StripData(buf) = Tail(buf)
  <2>1. PICK s, e : s = Find(buf, "<") /\ e = Find(buf, ">")
    OBVIOUS
  <2>2. s \in Nat /\ e \in Nat
    BY <1>1, <2>1
  <2>3. CASE s < e
    <3>1. Find(buf, "<") < Find(buf, ">")
      BY <2>1, <2>3
    <3>2. StripData(buf) = SubSeq(buf, Find(buf, "<") + 1, Find(buf, ">") - 1)
      BY <1>1, <3>1, SMTT(30) DEF StripData
    <3> QED BY <3>2
  <2>4. CASE s > e /\ e > 1
    BY <2>1, <2>2, <2>4 DEF StripData
  <2>5. CASE ~(s < e) /\ ~(s > e /\ e > 1)
    BY <2>1, <2>2, <2>5 DEF StripData
  <2> QED BY <2>3, <2>4, <2>5
<1>10. QED
  BY <1>6, <1>7, <1>8, <1>9, Zenon

(* recv moves units from the stream to the buffer, *)
LEMMA MoveUnits ==
  ASSUME NEW S, NEW b \in Seq(S), NEW t \in Seq(S), NEW k \in 0..Len(t)
  PROVE  (b \o SubSeq(t, 1, k)) \o Erase(t, k) = b \o t
<1>1. Len(t) \in Nat
  BY LenProperties
<1>2. SubSeq(t, 1, k) \in Seq(S) /\ Erase(t, k) \in Seq(S)
  <2>1. 1 \in 1..(Len(t) + 1) /\ k \in 0..Len(t)
    BY <1>1
  <2>2. QED
    BY <2>1, SubSeqProperties, EraseType
<1>3. SubSeq(t, 1, k) \o Erase(t, k) = t
  <2>1. /\ 1 \in 1..(Len(t) + 1) /\ k \in (1 - 1)..Len(t) /\ Len(t) \in k..Len(t)
    BY <1>1
  <2>2. SubSeq(t, 1, k) \o SubSeq(t, k + 1, Len(t)) = SubSeq(t, 1, Len(t))
    BY <2>1, ConcatAdjacentSubSeq
  <2>3. QED
    BY <2>2, SubSeqFull DEF Erase
<1>4. PICK u \in Seq(S), v \in Seq(S) : u = SubSeq(t, 1, k) /\ v = Erase(t, k)
  BY <1>2
<1>5. (b \o u) \o v = b \o (u \o v)
  <2>1. b \in Seq(S) /\ u \in Seq(S) /\ v \in Seq(S)
    OBVIOUS
  <2>2. QED
    BY ONLY <2>1, ConcatAssociative, SMTT(30)
<1>6. QED
  BY <1>3, <1>4, <1>5, Zenon

(* Frame takes them from the front, *)
LEMMA EraseFront ==
  ASSUME NEW S, NEW b \in Seq(S), NEW t \in Seq(S), NEW k \in 0..Len(b)
  PROVE  Erase(b, k) \o t = Erase(b \o t, k)
<1>1. Len(b) \in Nat /\ Len(t) \in Nat
  BY LenProperties
<1>2. /\ b \o t \in Seq(S) /\ Len(b \o t) = Len(b) + Len(t)
      /\ \A i \in 1..(Len(b) + Len(t)) : (b \o t)[i] = IF i <= Len(b) THEN b[i] ELSE t[i - Len(b)]
  BY ConcatProperties
<1>3. /\ Erase(b, k) \in Seq(S) /\ Len(Erase(b, k)) = Len(b) - k
      /\ \A i \in 1..(Len(b) - k) : Erase(b, k)[i] = b[i + k]
  BY EraseType
<1>4. k \in 0..Len(b \o t)
  BY <1>1, <1>2
<1>5. /\ Erase(b \o t, k) \in Seq(S) /\ Len(Erase(b \o t, k)) = Len(b \o t) - k
      /\ \A i \in 1..(Len(b \o t) - k) : Erase(b \o t, k)[i] = (b \o t)[i + k]
  BY <1>2, <1>4, EraseType
<1>6. /\ Erase(b, k) \o t \in Seq(S) /\ Len(Erase(b, k) \o t) = Len(Erase(b, k)) + Len(t)
      /\ \A i \in 1..(Len(Erase(b, k)) + Len(t)) :
           (Erase(b, k) \o t)[i] =
             IF i <= Len(Erase(b, k)) THEN Erase(b, k)[i] ELSE t[i - Len(Erase(b, k))]
  BY <1>3, ConcatProperties
<1>7. Len(Erase(b, k) \o t) = Len(Erase(b \o t, k))
  BY <1>1, <1>2, <1>3, <1>5, <1>6
<1>8. ASSUME NEW i, i \in 1..Len(Erase(b, k) \o t)
      PROVE  (Erase(b, k) \o t)[i] = Erase(b \o t, k)[i]
  <2>1. /\ i \in 1..(Len(b) - k + Len(t)) /\ i \in 1..(Len(Erase(b, k)) + Len(t))
        /\ i \in 1..(Len(b \o t) - k) /\ i + k \in 1..(Len(b) + Len(t))
    BY <1>1, <1>2, <1>3, <1>6, <1>8
  <2>2. Erase(b \o t, k)[i] = IF i + k <= Len(b) THEN b[i + k] ELSE t[i + k - Len(b)]
    <3>1. Erase(b \o t, k)[i] = (b \o t)[i + k]
      BY <1>5, <2>1
    <3>2. (b \o t)[i + k] = IF i + k <= Len(b) THEN b[i + k] ELSE t[i + k - Len(b)]
      BY <1>2, <2>1
    <3> QED BY <3>1, <3>2, Zenon
  <2>3. CASE i <= Len(b) - k
    <3>1. i \in 1..(Len(b) - k) /\ i + k <= Len(b) /\ i <= Len(Erase(b, k))
      BY <1>1, <1>3, <2>1, <2>3
    <3> QED BY <1>3, <1>6, <2>1, <2>2, <3>1
  <2>4. CASE ~(i <= Len(b) - k)
    <3>1. ~(i + k <= Len(b)) /\ ~(i <= Len(Erase(b, k)))
          /\ i - Len(Erase(b, k)) = i + k - Len(b)
      BY <1>1, <1>3, <2>1, <2>4
    <3> QED BY <1>6, <2>1, <2>2, <3>1
  <2> QED BY <2>3, <2>4
<1>9. QED
  BY <1>5, <1>6, <1>7, <1>8, SeqEqual

(* and the handler gets the packets in their order. *)
LEMMA MoveHead ==
  ASSUME NEW S, NEW h \in Seq(S), NEW q \in Seq(S), q # <<>>
  PROVE  Append(h, Head(q)) \o Tail(q) = h \o q
<1>1. Head(q) \in S /\ Tail(q) \in Seq(S)
  BY HeadTailProperties
<1>2. Append(h, Head(q)) = h \o <<Head(q)>> /\ <<Head(q)>> \in Seq(S)
  BY <1>1, AppendIsConcat, SingletonSeq
<1>3. (h \o <<Head(q)>>) \o Tail(q) = h \o (<<Head(q)>> \o Tail(q))
  BY <1>1, <1>2, ConcatAssociative
<1>4. <<Head(q)>> \o Tail(q) = q
  OBVIOUS
<1>5. QED
  BY <1>2, <1>3, <1>4

LEMMA AppendRight ==
  ASSUME NEW S, NEW h \in Seq(S), NEW q \in Seq(S), NEW x \in S
  PROVE  h \o Append(q, x) = Append(h \o q, x)
<1>1. <<x>> \in Seq(S) /\ h \o q \in Seq(S)
  BY SingletonSeq, ConcatProperties
<1>2. Append(q, x) = q \o <<x>> /\ Append(h \o q, x) = (h \o q) \o <<x>>
  BY <1>1, AppendIsConcat
<1>3. (h \o q) \o <<x>> = h \o (q \o <<x>>)
  BY <1>1, ConcatAssociative
<1>4. QED
  BY <1>2, <1>3


-----------------------------------------------------------------------------
(* JSON arrays. *)

(* An array: null, or a map whose indices have a bound. *)
IsBoundedArray(v) ==
  \/ v = Json!Null
  \/ /\ \E m : v = <<"array", m>>
     /\ \E n \in Nat : DOMAIN Json!value_(v) \subseteq 0..n

LEMMA BoundedMax ==
  ASSUME NEW n \in Nat, NEW D, D \subseteq 0..n, D # {}
  PROVE  Json!Max(D) \in D /\ \A i \in D : i <= Json!Max(D)
<1> DEFINE T == {n - i : i \in D}
<1>1. T \subseteq Nat /\ T # {}
  <2>1. \A i \in D : n - i \in Nat
    OBVIOUS
  <2>2. T # {}
    OBVIOUS
  <2> QED BY <2>1, <2>2
<1>2. PICK t \in T : \A u \in T : t <= u
  <2> HIDE DEF T
  <2> QED BY <1>1, NatMin
<1>3. PICK m \in D : t = n - m
  OBVIOUS
<1>4. \A i \in D : m >= i
  <2> TAKE i \in D
  <2>1. n - m <= n - i
    BY <1>2, <1>3
  <2> QED BY <2>1
<1>5. \E x \in D : \A y \in D : x >= y
  BY <1>4
<1>6. Json!Max(D) \in D /\ \A y \in D : Json!Max(D) >= y
  BY <1>5, Zenon DEF Json!Max
<1> QED BY <1>6

(* The size of an array is one more than its last index. *)
LEMMA SizeType ==
  ASSUME NEW v, IsBoundedArray(v)
  PROVE  /\ Json!size(v) \in Nat
         /\ Json!type_(v) = "array" =>
              /\ DOMAIN Json!value_(v) \subseteq 0..(Json!size(v) - 1)
              /\ Json!size(v) > 0 => Json!size(v) - 1 \in DOMAIN Json!value_(v)
         /\ Json!type_(v) # "array" => Json!size(v) = 0
<1>1. CASE v = Json!Null
  BY <1>1 DEF Json!Null, Json!size, Json!type_
<1>2. CASE v # Json!Null
  <2>1. PICK m : v = <<"array", m>>
    BY <1>2 DEF IsBoundedArray
  <2>2. Json!type_(v) = "array" /\ Json!value_(v) = m
    BY <2>1 DEF Json!type_, Json!value_
  <2>3. PICK n \in Nat : DOMAIN m \subseteq 0..n
    BY <1>2, <2>2 DEF IsBoundedArray
  <2>4. Json!size(v) = IF DOMAIN m = {} THEN 0 ELSE Json!Max(DOMAIN m) + 1
    BY <2>2 DEF Json!size
  <2>5. CASE DOMAIN m = {}
    BY <2>2, <2>4, <2>5
  <2>6. CASE DOMAIN m # {}
    <3>1. Json!Max(DOMAIN m) \in DOMAIN m /\ \A i \in DOMAIN m : i <= Json!Max(DOMAIN m)
      BY <2>3, <2>6, BoundedMax
    <3>2. Json!size(v) = Json!Max(DOMAIN m) + 1
      BY <2>4, <2>6
    <3> QED BY <2>2, <2>3, <3>1, <3>2
  <2> QED BY <2>5, <2>6
<1> QED BY <1>1, <1>2

(* An array whose last index is k - 1 has size k. *)
LEMMA SizeIs ==
  ASSUME NEW k \in Nat, NEW m, DOMAIN m \subseteq 0..(k - 1),
         k > 0 => k - 1 \in DOMAIN m
  PROVE  IsBoundedArray(<<"array", m>>) /\ Json!size(<<"array", m>>) = k
<1> DEFINE v == <<"array", m>>
<1>1. Json!type_(v) = "array" /\ Json!value_(v) = m
  BY DEF Json!type_, Json!value_
<1>2. DOMAIN m \subseteq 0..k
  OBVIOUS
<1>3. IsBoundedArray(v)
  BY <1>1, <1>2 DEF IsBoundedArray
<1> HIDE DEF v
<1>4. /\ Json!size(v) \in Nat
      /\ DOMAIN m \subseteq 0..(Json!size(v) - 1)
      /\ Json!size(v) > 0 => Json!size(v) - 1 \in DOMAIN m
  BY <1>1, <1>3, SizeType
<1>5. Json!size(v) = k
  BY <1>4
<1> QED BY <1>3, <1>5 DEF v

(* Items that v can hold, and others. *)
Items(v, X) == {Json!getIndex(v, i) : i \in Nat} \cup {Json!Null} \cup X

LEMMA ListType ==
  ASSUME NEW v, IsBoundedArray(v), NEW X
  PROVE  /\ Json!List(v) \in Seq(Items(v, X))
         /\ Len(Json!List(v)) = Json!size(v)
         /\ \A i \in 1..Json!size(v) : Json!List(v)[i] = Json!getIndex(v, i - 1)
<1>1. Json!size(v) \in Nat
  BY SizeType
<1>2. \A i \in 1..Json!size(v) : Json!getIndex(v, i - 1) \in Items(v, X)
  BY <1>1 DEF Items
<1>3. Json!List(v) \in [1..Json!size(v) -> Items(v, X)]
  BY <1>2 DEF Json!List
<1>4. Json!List(v) \in Seq(Items(v, X)) /\ Len(Json!List(v)) = Json!size(v)
  BY <1>1, <1>3, FunctionIsSeq
<1> QED BY <1>4 DEF Json!List

(* What indexing sees of the map. *)
LEMMA IndexOf ==
  ASSUME NEW m, NEW i
  PROVE  Json!getIndex(<<"array", m>>, i) = IF i \in DOMAIN m THEN m[i] ELSE Json!Null
BY DEF Json!getIndex, Json!type_, Json!value_

(* The items of v are those of w, when w has the same size and shows the   *)
(* same item at every index. *)
LEMMA ListIs ==
  ASSUME NEW S, NEW s \in Seq(S), NEW w, IsBoundedArray(w),
         Json!size(w) = Len(s),
         \A i \in 1..Len(s) : Json!getIndex(w, i - 1) = s[i]
  PROVE  Json!List(w) = s
<1> DEFINE T == Items(w, S)
<1>1. /\ Json!List(w) \in Seq(T) /\ Len(Json!List(w)) = Len(s)
      /\ \A i \in 1..Len(s) : Json!List(w)[i] = s[i]
  BY ListType
<1>2. S \subseteq T
  BY DEF Items
<1> HIDE DEF T
<1>3. s \in Seq(T)
  BY <1>2, SeqMonotonic
<1> QED BY <1>1, <1>3, SeqEqual

(* The array operations see null as an array without items. *)
LEMMA OrElseArray ==
  ASSUME NEW v, IsBoundedArray(v)
  PROVE  \E m : /\ Json!OrElse(v, Json!EmptyArray) = <<"array", m>>
                /\ Json!value_(<<"array", m>>) = m
                /\ DOMAIN m \subseteq 0..(Json!size(v) - 1)
                /\ Json!size(v) > 0 => Json!size(v) - 1 \in DOMAIN m
                /\ \A i : Json!getIndex(v, i) = IF i \in DOMAIN m THEN m[i] ELSE Json!Null
                /\ Json!type_(v) = "array" => v = <<"array", m>>
                /\ Json!type_(v) \in {"null", "array"}
<1>0. \A m : Json!value_(<<"array", m>>) = m /\ Json!type_(<<"array", m>>) = "array"
  BY DEF Json!value_, Json!type_
<1>1. CASE v = Json!Null
  <2>1. Json!type_(v) = "null"
    BY <1>1 DEF Json!Null, Json!type_
  <2>2. Json!OrElse(v, Json!EmptyArray) = <<"array", <<>>>>
    BY <2>1 DEF Json!OrElse, Json!EmptyArray
  <2>3. Json!size(v) = 0 /\ DOMAIN <<>> = {}
    BY <2>1 DEF Json!size
  <2>4. \A i : Json!getIndex(v, i) = Json!Null
    BY <2>1 DEF Json!getIndex
  <2> QED BY <1>0, <2>1, <2>2, <2>3, <2>4, SMTT(30)
<1>2. CASE v # Json!Null
  <2>1. PICK m : v = <<"array", m>>
    BY <1>2 DEF IsBoundedArray
  <2>2. Json!OrElse(v, Json!EmptyArray) = v
    BY <1>0, <2>1 DEF Json!OrElse
  <2>3. /\ DOMAIN m \subseteq 0..(Json!size(v) - 1)
        /\ Json!size(v) > 0 => Json!size(v) - 1 \in DOMAIN m
    BY <1>0, <2>1, SizeType
  <2>4. \A i : Json!getIndex(v, i) = IF i \in DOMAIN m THEN m[i] ELSE Json!Null
    BY <2>1, IndexOf
  <2> QED BY <1>0, <2>1, <2>2, <2>3, <2>4
<1> QED BY <1>1, <1>2

LEMMA GivesGives ==
  ASSUME NEW x
  PROVE  ~Json!Gives(x).threw /\ Json!Gives(x).v = x
BY DEF Json!Gives

(* append adds one item at the end. *)
THEOREM AppendAppends ==
  ASSUME NEW v, IsBoundedArray(v), NEW x
  PROVE  /\ ~Json!append(v, x).threw
         /\ IsBoundedArray(Json!append(v, x).v)
         /\ Json!Appended(v, x, Json!append(v, x).v)
<1> DEFINE n == Json!size(v)
<1>1. n \in Nat
  BY SizeType
<1>2. PICK m : /\ Json!OrElse(v, Json!EmptyArray) = <<"array", m>>
               /\ Json!value_(<<"array", m>>) = m
               /\ DOMAIN m \subseteq 0..(n - 1)
               /\ n > 0 => n - 1 \in DOMAIN m
               /\ \A i : Json!getIndex(v, i) = IF i \in DOMAIN m THEN m[i] ELSE Json!Null
               /\ Json!type_(v) \in {"null", "array"}
  BY OrElseArray
<1> HIDE DEF n
<1>3. n \notin DOMAIN m
  BY <1>1, <1>2
<1> DEFINE null == Json!Put(m, n, Json!Null)
           w == Json!Put(null, n, x)
<1>4. Json!resolveIndex(v, n) = Json!Gives(<<"array", null>>)
  BY <1>2, <1>3 DEF Json!resolveIndex
<1>5. /\ DOMAIN null = DOMAIN m \cup {n} /\ DOMAIN w = DOMAIN m \cup {n}
      /\ w[n] = x /\ \A i \in DOMAIN m : w[i] = m[i]
  <2>1. DOMAIN null = DOMAIN m \cup {n} /\ \A i \in DOMAIN m : null[i] = m[i]
    BY <1>3 DEF Json!Put
  <2> HIDE DEF null
  <2> QED BY <1>3, <2>1 DEF Json!Put
<1> HIDE DEF null
<1>6. Json!append(v, x) = Json!Gives(<<"array", w>>)
  <2>1. Json!value_(<<"array", null>>) = null
    BY DEF Json!value_
  <2>2. Json!append(v, x) = Json!setIndex(v, n, x)
    BY DEF Json!append, n
  <2> QED BY <1>4, <2>1, <2>2, GivesGives, Zenon DEF Json!setIndex
<1> HIDE DEF w
<1>7. IsBoundedArray(<<"array", w>>) /\ Json!size(<<"array", w>>) = n + 1
  <2>1. PICK k \in Nat : k = n + 1
    BY <1>1
  <2>2. DOMAIN w \subseteq 0..(k - 1) /\ k - 1 \in DOMAIN w
    BY <1>1, <1>2, <1>5, <2>1
  <2> QED BY <2>1, <2>2, SizeIs
<1> DEFINE S == Items(v, {x})
<1>8. /\ Json!List(v) \in Seq(S) /\ Len(Json!List(v)) = n
      /\ \A i \in 1..n : Json!List(v)[i] = Json!getIndex(v, i - 1)
  BY ListType DEF n
<1>9. x \in S
  BY DEF Items
<1> HIDE DEF S
<1>10. /\ Append(Json!List(v), x) \in Seq(S)
       /\ Len(Append(Json!List(v), x)) = n + 1
       /\ \A i \in 1..n : Append(Json!List(v), x)[i] = Json!List(v)[i]
       /\ Append(Json!List(v), x)[n + 1] = x
  BY <1>1, <1>8, <1>9, AppendProperties
<1>11. \A i \in 1..(n + 1) : Json!getIndex(<<"array", w>>, i - 1) = Append(Json!List(v), x)[i]
  <2> SUFFICES ASSUME NEW i \in 1..(n + 1)
               PROVE  Json!getIndex(<<"array", w>>, i - 1) = Append(Json!List(v), x)[i]
    OBVIOUS
  <2>1. Json!getIndex(<<"array", w>>, i - 1) =
          IF i - 1 \in DOMAIN w THEN w[i - 1] ELSE Json!Null
    BY IndexOf
  <2>2. CASE i = n + 1
    BY <1>1, <1>5, <1>10, <2>1, <2>2
  <2>3. CASE i # n + 1
    <3>1. i \in 1..n /\ i - 1 # n
      BY <1>1, <2>3
    <3>2. Append(Json!List(v), x)[i] = Json!getIndex(v, i - 1)
      BY <1>8, <1>10, <3>1
    <3>3. Json!getIndex(v, i - 1) = IF i - 1 \in DOMAIN m THEN m[i - 1] ELSE Json!Null
      BY <1>2
    <3> QED BY <1>5, <2>1, <3>1, <3>2, <3>3
  <2> QED BY <2>2, <2>3
<1>12. Json!List(<<"array", w>>) = Append(Json!List(v), x)
  BY <1>7, <1>10, <1>11, ListIs
<1> QED BY <1>6, <1>7, <1>12, GivesGives, Zenon DEF Json!Appended

(* What erasing the keys of S leaves. *)
LEMMA CutMap ==
  ASSUME NEW m, NEW S
  PROVE  /\ DOMAIN Json!Without(m, S) = DOMAIN m \ S
         /\ \A i \in DOMAIN m \ S : Json!Without(m, S)[i] = m[i]
BY DEF Json!Without, Json!Restrict

(* The list of length n that resize makes. *)
LEMMA ResizedType ==
  ASSUME NEW S, NEW list \in Seq(S), Json!Null \in S, NEW n \in Nat
  PROVE  /\ Json!Resized(list, n) \in Seq(S)
         /\ Len(Json!Resized(list, n)) = n
         /\ \A i \in 1..n : Json!Resized(list, n)[i] =
                              IF i <= Len(list) THEN list[i] ELSE Json!Null
<1>1. Len(list) \in Nat /\ \A i \in 1..Len(list) : list[i] \in S
  BY LenProperties, ElementOfSeq
<1>2. \A i \in 1..n : (IF i <= Len(list) THEN list[i] ELSE Json!Null) \in S
  BY <1>1
<1>3. Json!Resized(list, n) \in [1..n -> S]
  BY <1>2 DEF Json!Resized
<1>4. Json!Resized(list, n) \in Seq(S) /\ Len(Json!Resized(list, n)) = n
  BY <1>3, FunctionIsSeq
<1> QED BY <1>4 DEF Json!Resized

(* resize cuts an array to n items or fills it up with nulls; only when    *)
(* the last of the n is a hole does it throw. *)
THEOREM ResizeResizes ==
  ASSUME NEW v, IsBoundedArray(v), NEW n \in Nat
  PROVE  /\ IsBoundedArray(Json!resize(v, n).v)
         /\ Json!ResizedTo(v, n, Json!resize(v, n).threw, Json!resize(v, n).v)
<1> DEFINE old == Json!size(v)
           a == Json!OrElse(v, Json!EmptyArray)
           r == Json!resize(v, n)
           hole == n > 0 /\ Json!Hole(v, n - 1)
<1>1. old \in Nat
  BY SizeType
<1>2. PICK m : /\ a = <<"array", m>>
               /\ Json!value_(<<"array", m>>) = m
               /\ DOMAIN m \subseteq 0..(old - 1)
               /\ old > 0 => old - 1 \in DOMAIN m
               /\ \A i : Json!getIndex(v, i) = IF i \in DOMAIN m THEN m[i] ELSE Json!Null
               /\ Json!type_(v) = "array" => v = <<"array", m>>
               /\ Json!type_(v) \in {"null", "array"}
  BY OrElseArray
<1>3. Json!size(a) = old /\ Json!type_(a) = "array" /\ Json!value_(a) = m
  <2>1. Json!size(<<"array", m>>) = old
    BY <1>1, <1>2, SizeIs, Zenon
  <2> QED BY <1>2, <2>1 DEF Json!type_
<1>4. hole <=> n > 0 /\ n <= old /\ n - 1 \notin DOMAIN m
  <2>1. CASE Json!type_(v) = "array"
    BY <1>1, <1>2, <2>1 DEF Json!Hole
  <2>2. CASE Json!type_(v) # "array"
    <3>1. old = 0
      BY <2>2, SizeType
    <3> QED BY <3>1 DEF Json!Hole
  <2> QED BY <2>1, <2>2
<1> DEFINE S == Items(v, {})
<1>5. /\ Json!List(v) \in Seq(S) /\ Len(Json!List(v)) = old
      /\ \A i \in 1..old : Json!List(v)[i] = Json!getIndex(v, i - 1)
  BY ListType
<1>6. Json!Null \in S
  BY DEF Items
<1> HIDE DEF S, old, hole, a
<1> DEFINE list == Json!Resized(Json!List(v), n)
<1>7. /\ list \in Seq(S) /\ Len(list) = n
      /\ \A i \in 1..n : list[i] = IF i <= old THEN Json!getIndex(v, i - 1) ELSE Json!Null
  <2>1. /\ list \in Seq(S) /\ Len(list) = n
        /\ \A i \in 1..n : list[i] = IF i <= Len(Json!List(v)) THEN Json!List(v)[i] ELSE Json!Null
    BY <1>5, <1>6, ResizedType
  <2> HIDE DEF list
  <2> QED BY <1>1, <1>5, <2>1
<1> HIDE DEF list
(* A map that agrees with m below n is the list. *)
<1>8. ASSUME NEW w, DOMAIN w \subseteq 0..(n - 1), n > 0 => n - 1 \in DOMAIN w,
             \A i \in 0..(n - 1) :
               (IF i \in DOMAIN w THEN w[i] ELSE Json!Null) =
                 (IF i \in DOMAIN m THEN m[i] ELSE Json!Null)
      PROVE  /\ IsBoundedArray(<<"array", w>>)
             /\ Json!List(<<"array", w>>) = list /\ Json!size(<<"array", w>>) = n
  <2>1. IsBoundedArray(<<"array", w>>) /\ Json!size(<<"array", w>>) = n
    BY <1>8, SizeIs
  <2>2. \A i \in 1..n : Json!getIndex(<<"array", w>>, i - 1) = list[i]
    <3> SUFFICES ASSUME NEW i \in 1..n
                 PROVE  Json!getIndex(<<"array", w>>, i - 1) = list[i]
      OBVIOUS
    <3>1. i - 1 \in 0..(n - 1)
      OBVIOUS
    <3>2. Json!getIndex(<<"array", w>>, i - 1) = Json!getIndex(v, i - 1)
      BY <1>2, <1>8, <3>1, IndexOf, Zenon
    <3>3. i > old => Json!getIndex(v, i - 1) = Json!Null
      <4>1. i > old => i - 1 \notin DOMAIN m
        BY <1>1, <1>2
      <4> QED BY <1>2, <4>1
    <3> QED BY <1>1, <1>7, <3>2, <3>3
  <2> QED BY <1>7, <2>1, <2>2, ListIs
<1>9. CASE n = 0
  <2>1. ~hole
    BY <1>9, <1>4
  <2>2. r = Json!clear(a)
    <3>1. ~(Json!type_(v) \notin {"null", "array"})
      BY <1>2
    <3>2. ~(n > Json!size(Json!OrElse(v, Json!EmptyArray)))
      BY <1>1, <1>3, <1>9 DEF a
    <3> QED BY <1>9, <3>1, <3>2, Zenon DEF Json!resize, a
  <2>3. Json!clear(a) = Json!Gives(<<"array", <<>>>>)
    BY <1>3, Zenon DEF Json!clear, Json!isContainer
  <2>4. IsBoundedArray(<<"array", <<>>>>) /\ Json!List(<<"array", <<>>>>) = list
    <3>1. DOMAIN <<>> = {}
      OBVIOUS
    <3>2. \A i \in 0..(n - 1) : i \notin DOMAIN m
      BY <1>9
    <3>3. \A i \in 0..(n - 1) : FALSE
      BY <1>9
    <3> QED BY <1>8, <1>9, <3>1, <3>3
  <2> QED BY <2>1, <2>2, <2>3, <2>4, GivesGives, Zenon DEF Json!ResizedTo, hole, list
<1>10. CASE n > old
  <2>1. ~hole /\ n # 0
    BY <1>1, <1>10, <1>4
  <2>2. r = Json!resolveIndex(a, n - 1)
    <3>1. Json!size(Json!OrElse(v, Json!EmptyArray)) = old
      BY <1>3 DEF a
    <3> QED BY <1>2, <1>10, <2>1, <3>1 DEF Json!resize, a
  <2>3. n - 1 \notin DOMAIN m /\ n - 1 \in 0..(n - 1)
    BY <1>1, <1>2, <1>10
  <2> DEFINE w == Json!Put(m, n - 1, Json!Null)
  <2>4. Json!resolveIndex(a, n - 1) = Json!Gives(<<"array", w>>)
    <3>1. Json!OrElse(a, Json!EmptyArray) = a
      BY <1>3 DEF Json!OrElse
    <3> QED BY <1>3, <2>3, <3>1 DEF Json!resolveIndex
  <2>5. /\ DOMAIN w = DOMAIN m \cup {n - 1} /\ w[n - 1] = Json!Null
        /\ \A i \in DOMAIN m : w[i] = m[i]
    BY <2>3 DEF Json!Put
  <2> HIDE DEF w
  <2>6. IsBoundedArray(<<"array", w>>) /\ Json!List(<<"array", w>>) = list
    <3>1. DOMAIN w \subseteq 0..(n - 1) /\ n - 1 \in DOMAIN w
      BY <1>1, <1>2, <1>10, <2>5
    <3>2. \A i \in 0..(n - 1) :
               (IF i \in DOMAIN w THEN w[i] ELSE Json!Null) =
                 (IF i \in DOMAIN m THEN m[i] ELSE Json!Null)
      BY <2>5
    <3> QED BY <1>8, <3>1, <3>2
  <2> QED BY <2>1, <2>2, <2>4, <2>6, GivesGives, Zenon DEF Json!ResizedTo, hole, list
<1>11. CASE n > 0 /\ n <= old
  <2> DEFINE w == Json!Without(m, n..(old - 1))
             e == <<"array", w>>
  <2>1. DOMAIN w = DOMAIN m \ (n..(old - 1)) /\ \A i \in DOMAIN w : w[i] = m[i]
    <3>1. /\ DOMAIN w = DOMAIN m \ (n..(old - 1))
          /\ \A i \in DOMAIN m \ (n..(old - 1)) : w[i] = m[i]
      BY <1>2, CutMap, Zenon
    <3> QED BY <3>1, Zenon
  <2>2. r = [threw |-> Json!size(e) # n, v |-> e]
    <3>1. /\ Json!size(Json!OrElse(v, Json!EmptyArray)) = old
          /\ Json!value_(Json!OrElse(v, Json!EmptyArray)) = m
      BY <1>3 DEF a
    <3>2. ~(n > old) /\ n # 0
      BY <1>1, <1>11
    <3> HIDE DEF w
    <3> QED BY <1>2, <3>1, <3>2 DEF Json!resize, w
  <2>3. r.threw = (Json!size(e) # n) /\ r.v = e
    BY <2>2
  <2> HIDE DEF w, r
  <2>4. DOMAIN w \subseteq 0..(n - 1) /\ \A i \in 0..(n - 1) : i \in DOMAIN w <=> i \in DOMAIN m
    BY <1>1, <1>2, <1>11, <2>1
  <2>5. CASE hole
    <3>1. n - 1 \notin DOMAIN w
      BY <1>4, <2>4, <2>5
    <3>2. IsBoundedArray(e) /\ Json!type_(e) = "array" /\ Json!value_(e) = w
      <4>1. Json!type_(e) = "array" /\ Json!value_(e) = w
        BY DEF Json!type_, Json!value_
      <4>2. DOMAIN w \subseteq 0..n
        BY <2>4
      <4> QED BY <4>1, <4>2 DEF IsBoundedArray
    <3>3. Json!size(e) > 0 => Json!size(e) - 1 \in DOMAIN w
      BY <3>2, SizeType
    <3>4. Json!size(e) # n
      BY <1>11, <3>1, <3>3
    <3> QED BY <2>3, <2>5, <3>2, <3>4, Zenon DEF Json!ResizedTo, hole, r
  <2>6. CASE ~hole
    <3>1. n - 1 \in DOMAIN w
      BY <1>4, <1>11, <2>1, <2>6
    <3>2. \A i \in 0..(n - 1) :
               (IF i \in DOMAIN w THEN w[i] ELSE Json!Null) =
                 (IF i \in DOMAIN m THEN m[i] ELSE Json!Null)
      BY <2>1, <2>4
    <3>3. IsBoundedArray(e) /\ Json!List(e) = list /\ Json!size(e) = n
      BY <1>8, <2>4, <3>1, <3>2
    <3> QED BY <2>3, <2>6, <3>3, Zenon DEF Json!ResizedTo, hole, r, list
  <2> QED BY <2>5, <2>6
<1> QED BY <1>1, <1>9, <1>10, <1>11

(* The list without its item i + 1. *)
LEMMA RemovedType ==
  ASSUME NEW S, NEW list \in Seq(S), NEW i \in 0..(Len(list) - 1)
  PROVE  /\ Json!Removed(list, i) \in Seq(S)
         /\ Len(Json!Removed(list, i)) = Len(list) - 1
         /\ \A k \in 1..(Len(list) - 1) :
              Json!Removed(list, i)[k] = IF k <= i THEN list[k] ELSE list[k + 1]
<1> DEFINE n == Len(list)
           front == SubSeq(list, 1, i)
           back == SubSeq(list, i + 2, n)
<1>1. n \in Nat /\ \A k \in 1..n : list[k] \in S
  BY LenProperties, ElementOfSeq
<1>2. /\ front \in Seq(S) /\ Len(front) = i
      /\ \A k \in 1..i : front[k] = list[k]
  <2>1. 1 \in Int /\ i \in Int /\ \A k \in 1..i : list[k] \in S
    BY <1>1
  <2>2. /\ front \in Seq(S) /\ Len(front) = IF 1 <= i THEN i - 1 + 1 ELSE 0
        /\ \A k \in 1..(i - 1 + 1) : front[k] = list[1 + k - 1]
    BY <2>1, SubSeqProperties
  <2> HIDE DEF front
  <2> QED BY <2>1, <2>2
<1>3. /\ back \in Seq(S) /\ Len(back) = n - i - 1
      /\ \A k \in 1..(n - i - 1) : back[k] = list[k + i + 1]
  <2>1. i + 2 \in Int /\ n \in Int /\ \A k \in (i + 2)..n : list[k] \in S
    BY <1>1
  <2>2. /\ back \in Seq(S) /\ Len(back) = IF i + 2 <= n THEN n - (i + 2) + 1 ELSE 0
        /\ \A k \in 1..(n - (i + 2) + 1) : back[k] = list[(i + 2) + k - 1]
    BY <2>1, SubSeqProperties
  <2> HIDE DEF back
  <2> QED BY <1>1, <2>1, <2>2
<1> DEFINE both == front \o back
<1>4. Json!Removed(list, i) = both
  BY DEF Json!Removed
<1> HIDE DEF front, back, n
<1>5. /\ both \in Seq(S) /\ Len(both) = Len(front) + Len(back)
      /\ \A k \in 1..(Len(front) + Len(back)) :
           both[k] = IF k <= Len(front) THEN front[k] ELSE back[k - Len(front)]
  <2>1. front \in Seq(S) /\ back \in Seq(S)
    BY <1>2, <1>3
  <2> QED BY ONLY <2>1, ConcatProperties
<1> HIDE DEF both
<1>6. i \in 0..(n - 1)
  BY DEF n
<1>7. Len(front) + Len(back) = n - 1
  BY <1>1, <1>2, <1>3, <1>6
<1>8. \A k \in 1..(n - 1) : both[k] = IF k <= i THEN list[k] ELSE list[k + 1]
  <2> SUFFICES ASSUME NEW k \in 1..(n - 1)
               PROVE  both[k] = IF k <= i THEN list[k] ELSE list[k + 1]
    OBVIOUS
  <2>1. both[k] = IF k <= i THEN front[k] ELSE back[k - i]
    BY <1>2, <1>5, <1>7
  <2>2. CASE k <= i
    BY <1>2, <1>6, <2>1, <2>2
  <2>3. CASE k > i
    <3>1. k - i \in 1..(n - i - 1) /\ (k - i) + i + 1 = k + 1
      BY <1>1, <1>6, <2>3
    <3>2. back[k - i] = list[k + 1]
      BY <1>3, <3>1
    <3> QED BY <1>6, <2>1, <2>3, <3>2
  <2> QED BY <1>6, <2>2, <2>3
<1> QED BY <1>4, <1>5, <1>7, <1>8 DEF n

(* removeIndex takes one item out and moves those after it down, the holes *)
(* among them with them; a hole cannot be removed, and with the last item  *)
(* go the holes before it. *)
THEOREM RemoveRemoves ==
  ASSUME NEW v, IsBoundedArray(v), NEW i \in Nat
  PROVE  /\ IsBoundedArray(Json!removeIndex(v, i))
         /\ Json!RemovedAt(v, i, Json!removeIndex(v, i))
<1> DEFINE n == Json!size(v)
           list == Json!List(v)
           r == Json!removeIndex(v, i)
           S == Items(v, {})
<1>1. n \in Nat
  BY SizeType
<1>2. /\ list \in Seq(S) /\ Len(list) = n
      /\ \A k \in 1..n : list[k] = Json!getIndex(v, k - 1)
  BY ListType
<1> HIDE DEF S, list, n
<1>3. CASE i >= n \/ Json!Hole(v, i)
  <2>1. Json!type_(v) # "array" \/ i \notin DOMAIN Json!value_(v)
    <3>1. CASE i >= n
      <4>1. Json!type_(v) = "array" => DOMAIN Json!value_(v) \subseteq 0..(n - 1)
        BY SizeType DEF n
      <4> QED BY <1>1, <3>1, <4>1
    <3>2. CASE Json!Hole(v, i)
      BY <3>2 DEF Json!Hole
    <3> QED BY <1>3, <3>1, <3>2
  <2>2. r = v
    BY <2>1, Zenon DEF Json!removeIndex
  <2>3. i >= Len(list) \/ Json!Hole(v, i)
    BY <1>2, <1>3
  <2> QED BY <2>2, <2>3, Zenon DEF Json!RemovedAt, list
<1>4. CASE ~(i >= n \/ Json!Hole(v, i))
  <2>1. /\ i < n /\ Json!type_(v) = "array"
        /\ DOMAIN Json!value_(v) \subseteq 0..(n - 1) /\ n - 1 \in DOMAIN Json!value_(v)
    <3>1. i < n
      BY <1>1, <1>4
    <3>2. Json!type_(v) = "array"
      BY <3>1, SizeType DEF n
    <3> QED BY <1>1, <3>1, <3>2, SizeType DEF n
  <2>2. PICK m : v = <<"array", m>>
    BY <2>1 DEF IsBoundedArray, Json!Null, Json!type_
  <2>3. Json!value_(v) = m
    BY <2>2 DEF Json!value_
  <2>4. i \in DOMAIN m
    BY <1>4, <2>1, <2>3 DEF Json!Hole, n
  <2>5. \A k : Json!getIndex(v, k) = IF k \in DOMAIN m THEN m[k] ELSE Json!Null
    BY <2>2, IndexOf
  <2> DEFINE kept == {j \in DOMAIN m : j < i}
             w == [j \in kept \cup (i..(n - 2)) |->
                     IF j < i THEN m[j] ELSE Json!getIndex(v, j + 1)]
  <2>6. r = <<"array", w>>
    BY <2>1, <2>3, <2>4 DEF Json!removeIndex, n
  <2>7. /\ DOMAIN w = kept \cup (i..(n - 2))
        /\ \A j \in DOMAIN w : w[j] = IF j < i THEN m[j] ELSE Json!getIndex(v, j + 1)
    OBVIOUS
  <2>8. /\ kept \subseteq 0..(i - 1) /\ \A j \in 0..(i - 1) : j \in kept <=> j \in DOMAIN m
    BY <2>1, <2>3
  <2> HIDE DEF w, r
  <2>9. /\ \A k \in 1..i : Json!getIndex(<<"array", w>>, k - 1) = list[k]
        /\ \A k \in (i + 1)..(n - 1) : Json!getIndex(<<"array", w>>, k - 1) = list[k + 1]
    <3>1. ASSUME NEW k \in 1..i
          PROVE  Json!getIndex(<<"array", w>>, k - 1) = list[k]
      <4>1. k - 1 \in 0..(i - 1) /\ k \in 1..n /\ k - 1 < i /\ k - 1 \notin i..(n - 2)
        BY <1>1, <2>1
      <4>2. k - 1 \in DOMAIN w <=> k - 1 \in DOMAIN m
        BY <2>7, <2>8, <4>1
      <4>3. list[k] = IF k - 1 \in DOMAIN m THEN m[k - 1] ELSE Json!Null
        BY <1>2, <2>5, <4>1
      <4> QED BY <2>7, <4>1, <4>2, <4>3, IndexOf
    <3>2. ASSUME NEW k \in (i + 1)..(n - 1)
          PROVE  Json!getIndex(<<"array", w>>, k - 1) = list[k + 1]
      <4>1. k - 1 \in i..(n - 2) /\ ~(k - 1 < i) /\ (k - 1) + 1 = (k + 1) - 1 /\ k + 1 \in 1..n
        BY <1>1
      <4>2. w[k - 1] = Json!getIndex(v, (k + 1) - 1)
        BY <2>7, <4>1
      <4> QED BY <1>2, <2>7, <4>1, <4>2, IndexOf
    <3> QED BY <3>1, <3>2
  <2> HIDE DEF kept
  <2>10. i \in 0..(Len(list) - 1) /\ Len(list) = n
    BY <1>1, <1>2, <2>1
  <2>11. ~(i >= Len(list) \/ Json!Hole(v, i))
    BY <1>2, <1>4
  <2> DEFINE lone == i = n - 1 /\ i > 0 /\ Json!Hole(v, i - 1)
  <2>12. CASE lone
    <3>1. i - 1 \notin DOMAIN m /\ i - 1 \in 0..(i - 1)
      BY <2>3, <2>12 DEF Json!Hole
    <3>2. DOMAIN w \subseteq 0..(i - 1) /\ i - 1 \notin DOMAIN w
      BY <1>1, <2>7, <2>8, <2>12, <3>1
    <3>3. IsBoundedArray(r) /\ Json!type_(r) = "array" /\ Json!value_(r) = w
      <4>1. Json!type_(r) = "array" /\ Json!value_(r) = w
        BY <2>6 DEF Json!type_, Json!value_
      <4> QED BY <2>6, <3>2, <4>1 DEF IsBoundedArray
    <3> DEFINE k == Json!size(r)
    <3>4. k \in 0..(i - 1)
      <4>1. k \in Nat /\ (k > 0 => k - 1 \in DOMAIN w)
        BY <3>3, SizeType
      <4> HIDE DEF k
      <4>2. k > 0 => k - 1 \in 0..(i - 1) /\ k - 1 # i - 1
        BY <3>2, <4>1
      <4> QED BY <2>12, <4>1, <4>2
    <3>5. k \in 0..Len(list) /\ \A j \in 1..k : j \in 1..i
      BY <2>10, <3>4
    <3>6. /\ SubSeq(list, 1, k) \in Seq(S) /\ Len(SubSeq(list, 1, k)) = k
          /\ \A j \in 1..k : SubSeq(list, 1, k)[j] = list[j]
      <4> HIDE DEF k
      <4> QED BY <1>2, <3>5, PrefixType
    <3>7. Json!List(r) = SubSeq(list, 1, k)
      <4>1. \A j \in 1..k : Json!getIndex(r, j - 1) = SubSeq(list, 1, k)[j]
        <5> HIDE DEF k
        <5> QED BY <2>6, <2>9, <3>5, <3>6
      <4>2. Json!size(r) = Len(SubSeq(list, 1, k))
        BY <3>6
      <4>3. PICK s : s = SubSeq(list, 1, k)
        OBVIOUS
      <4> HIDE DEF k
      <4> QED BY <3>3, <3>6, <4>1, <4>2, <4>3, ListIs
    <3>8. i = Len(list) - 1
      BY <2>10, <2>12
    <3> HIDE DEF k
    <3> QED BY <2>11, <2>12, <3>3, <3>4, <3>7, <3>8, Zenon DEF Json!RemovedAt, list, r
  <2>13. CASE ~lone
    <3>1. /\ Json!Removed(list, i) \in Seq(S) /\ Len(Json!Removed(list, i)) = n - 1
          /\ \A k \in 1..(n - 1) :
               Json!Removed(list, i)[k] = IF k <= i THEN list[k] ELSE list[k + 1]
      BY <1>2, <2>10, RemovedType
    <3>2. DOMAIN w \subseteq 0..(n - 1 - 1) /\ n - 1 \in Nat
      BY <1>1, <2>1, <2>7, <2>8
    <3>3. n - 1 > 0 => n - 1 - 1 \in DOMAIN w
      <4>1. CASE i < n - 1
        <5>1. n - 2 \in i..(n - 2) /\ n - 1 - 1 = n - 2
          BY <1>1, <4>1
        <5> QED BY <2>7, <5>1
      <4>2. CASE i = n - 1 /\ i > 0
        <5>1. i - 1 < n /\ ~Json!Hole(v, i - 1)
          BY <1>1, <2>1, <2>13, <4>2
        <5>2. i - 1 \in DOMAIN m
          BY <2>3, <5>1 DEF Json!Hole, n
        <5>3. i - 1 \in 0..(i - 1)
          BY <4>2
        <5> QED BY <2>7, <2>8, <4>2, <5>2, <5>3
      <4>3. CASE i = n - 1 /\ i = 0
        BY <4>3
      <4> QED BY <1>1, <2>1, <4>1, <4>2, <4>3
    <3>4. IsBoundedArray(r) /\ Json!size(r) = n - 1
      <4>1. PICK k \in Nat : k = n - 1
        BY <3>2
      <4> QED BY <2>6, <3>2, <3>3, <4>1, SizeIs
    <3>5. \A k \in 1..(n - 1) : Json!getIndex(r, k - 1) = Json!Removed(list, i)[k]
      <4> SUFFICES ASSUME NEW k \in 1..(n - 1)
                   PROVE  Json!getIndex(r, k - 1) = Json!Removed(list, i)[k]
        OBVIOUS
      <4>1. CASE k <= i
        <5>1. k \in 1..i
          BY <4>1
        <5> QED BY <2>6, <2>9, <3>1, <4>1, <5>1
      <4>2. CASE k > i
        <5>1. k \in (i + 1)..(n - 1) /\ ~(k <= i)
          BY <1>1, <4>2
        <5> QED BY <2>6, <2>9, <3>1, <5>1
      <4> QED BY <1>1, <4>1, <4>2
    <3>6. Json!List(r) = Json!Removed(list, i)
      BY <3>1, <3>4, <3>5, ListIs
    <3>7. ~(i = Len(list) - 1 /\ i > 0 /\ Json!Hole(v, i - 1))
      BY <2>10, <2>13
    <3> QED BY <2>11, <3>4, <3>6, <3>7, Zenon DEF Json!RemovedAt, list, r
  <2> QED BY <2>12, <2>13
<1> QED BY <1>3, <1>4

(* Whatever is done to a value, it stays what it was, is null or an array  *)
(* whose indices have a bound, or is an object: the theorems here are      *)
(* about every value that operations build. *)
THEOREM OperationsBuildValues ==
  ASSUME NEW v, Json!IsArray(v) => IsBoundedArray(v),
         NEW x, NEW i \in Nat, NEW name, NEW w,
         w \in {Json!setIndex(v, i, x).v, Json!append(v, x).v,
                Json!resize(v, i).v, Json!removeIndex(v, i), Json!clear(v).v,
                Json!setMember(v, name, x).v, Json!removeMember(v, name).v}
  PROVE  w = v \/ IsBoundedArray(w) \/ \E m : w = <<"object", m>>
<1>0. /\ \A y : Json!Throws(y).v = y /\ Json!Throws(y).threw
      /\ \A t, m : Json!type_(<<t, m>>) = t /\ Json!value_(<<t, m>>) = m
  BY DEF Json!Throws, Json!type_, Json!value_
<1>1. CASE w = Json!setIndex(v, i, x).v
  <2> DEFINE r == Json!resolveIndex(v, i)
  <2>1. CASE ~Json!IsArray(v)
    <3>1. r = Json!Throws(v)
      BY <2>1 DEF Json!resolveIndex, Json!IsArray
    <3> QED BY <1>0, <1>1, <3>1, Zenon DEF Json!setIndex
  <2>2. CASE Json!IsArray(v)
    <3>1. PICK m : /\ Json!OrElse(v, Json!EmptyArray) = <<"array", m>>
                   /\ DOMAIN m \subseteq 0..(Json!size(v) - 1)
                   /\ Json!type_(v) \in {"null", "array"}
      BY <2>2, OrElseArray
    <3> DEFINE m1 == Json!value_(r.v)
               w1 == Json!Put(m1, i, x)
    <3>2. ~r.threw /\ DOMAIN m1 = DOMAIN m \cup {i}
      <4>1. CASE i \in DOMAIN m
        <5>1. r = Json!Gives(<<"array", m>>)
          BY <1>0, <3>1, <4>1 DEF Json!resolveIndex
        <5> QED BY <1>0, <4>1, <5>1, GivesGives
      <4>2. CASE i \notin DOMAIN m
        <5>1. r = Json!Gives(<<"array", Json!Put(m, i, Json!Null)>>)
          BY <1>0, <3>1, <4>2 DEF Json!resolveIndex
        <5>2. DOMAIN Json!Put(m, i, Json!Null) = DOMAIN m \cup {i}
          BY DEF Json!Put
        <5> QED BY <1>0, <5>1, <5>2, GivesGives
      <4> QED BY <4>1, <4>2
    <3>3. w = <<"array", w1>>
      <4>1. Json!setIndex(v, i, x) = Json!Gives(<<"array", w1>>)
        BY <3>2, Zenon DEF Json!setIndex
      <4> QED BY <1>1, <4>1, GivesGives, Zenon
    <3> HIDE DEF m1
    <3>4. DOMAIN w1 = DOMAIN m \cup {i}
      BY <3>2 DEF Json!Put
    <3> HIDE DEF w1
    <3>5. Json!size(v) \in Nat
      BY <2>2, SizeType
    <3>6. PICK b \in Nat : Json!size(v) <= b /\ i <= b
      <4>1. /\ Json!size(v) <= Json!size(v) + i /\ i <= Json!size(v) + i
            /\ Json!size(v) + i \in Nat
        BY <3>5
      <4> QED BY <4>1
    <3>7. DOMAIN w1 \subseteq 0..b
      BY <3>1, <3>4, <3>5, <3>6
    <3> QED BY <1>0, <3>3, <3>7 DEF IsBoundedArray
  <2> QED BY <2>1, <2>2
<1>2. CASE w = Json!append(v, x).v
  <2>1. CASE Json!IsArray(v)
    BY <1>2, <2>1, AppendAppends
  <2>2. CASE ~Json!IsArray(v)
    <3>1. \A k : Json!resolveIndex(v, k) = Json!Throws(v)
      BY <2>2 DEF Json!resolveIndex, Json!IsArray
    <3>2. \A k : Json!setIndex(v, k, x) = Json!Throws(v)
      <4> TAKE k
      <4>1. Json!resolveIndex(v, k) = Json!Throws(v) /\ Json!Throws(v).threw
        BY <1>0, <3>1
      <4>2. Json!resolveIndex(v, k).threw
        BY <4>1, Zenon
      <4> QED BY <4>1, <4>2, Zenon DEF Json!setIndex
    <3> QED BY <1>0, <1>2, <3>2, Zenon DEF Json!append
  <2> QED BY <2>1, <2>2
<1>3. CASE w = Json!resize(v, i).v
  <2>1. CASE Json!IsArray(v)
    BY <1>3, <2>1, ResizeResizes
  <2>2. CASE ~Json!IsArray(v)
    <3>1. Json!resize(v, i) = Json!Throws(v)
      BY <2>2 DEF Json!resize, Json!IsArray
    <3> QED BY <1>0, <1>3, <3>1
  <2> QED BY <2>1, <2>2
<1>4. CASE w = Json!removeIndex(v, i)
  <2>1. CASE Json!type_(v) = "array"
    BY <1>4, <2>1, RemoveRemoves DEF Json!IsArray
  <2>2. CASE Json!type_(v) # "array"
    BY <1>4, <2>2, Zenon DEF Json!removeIndex
  <2> QED BY <2>1, <2>2
<1>5. CASE w = Json!clear(v).v
  <2>1. CASE Json!type_(v) = "array"
    <3>1. w = <<"array", <<>>>>
      BY <1>5, <2>1, GivesGives DEF Json!clear, Json!isContainer
    <3>2. DOMAIN <<>> \subseteq 0..0
      OBVIOUS
    <3> QED BY <1>0, <3>1, <3>2 DEF IsBoundedArray
  <2>2. CASE Json!type_(v) = "object"
    BY <1>5, <2>2, GivesGives DEF Json!clear, Json!isContainer
  <2>3. CASE Json!type_(v) \notin {"array", "object"}
    BY <1>0, <1>5, <2>3, GivesGives DEF Json!clear, Json!isContainer
  <2> QED BY <2>1, <2>2, <2>3
<1>6. CASE w = Json!setMember(v, name, x).v
  <2> DEFINE r == Json!resolveReference(v, name)
  <2>1. CASE r.threw
    <3>1. r.v = v
      BY <1>0, <2>1, GivesGives DEF Json!resolveReference
    <3> QED BY <1>6, <2>1, <3>1, Zenon DEF Json!setMember
  <2>2. CASE ~r.threw
    <3>1. Json!setMember(v, name, x)
            = Json!Gives(<<"object", Json!Put(Json!value_(r.v), name, x)>>)
      BY <2>2, Zenon DEF Json!setMember
    <3> QED BY <1>6, <3>1, GivesGives
  <2> QED BY <2>1, <2>2
<1>7. CASE w = Json!removeMember(v, name).v
  <2>1. CASE Json!type_(v) = "object"
    BY <1>7, <2>1, GivesGives DEF Json!removeMember
  <2>2. CASE Json!type_(v) # "object"
    BY <1>0, <1>7, <2>2, GivesGives DEF Json!removeMember
  <2> QED BY <2>1, <2>2
<1> QED BY <1>1, <1>2, <1>3, <1>4, <1>5, <1>6, <1>7

-----------------------------------------------------------------------------
(* JSON numbers. *)

(* For any widths and every value: isConvertibleTo tells which conversion  *)
(* throws, isInt, isUInt, isInt64 and isUInt64 tell which is exact, and a  *)
(* result has the width of its type, but that of a double which is the     *)
(* largest integer rounded up. *)
THEOREM ConversionsAlwaysAgree ==
  ASSUME NEW a, NEW b, NEW c, NEW d, Width(a, b, c, d)!WidthAssumption,
         NEW v, Width(a, b, c, d)!IsValue(v)
  PROVE  Width(a, b, c, d)!Agrees(v)
<1>1. /\ a \in Nat /\ b \in Nat /\ c \in Nat /\ d \in Nat /\ a > 0 /\ c > 0
      /\ b = 2 * a + 1 /\ d = 2 * c + 1 /\ b < c
  BY DEF Width!WidthAssumption
<1>2. PICK t, n : /\ v = <<t, n>>
                  /\ \/ t = "null" /\ n = 0
                     \/ t = "int" /\ n \in (-c - 1)..c
                     \/ t = "uint" /\ n \in 0..d
                     \/ t = "real" /\ n \in Int
                     \/ t = "bool" /\ n \in BOOLEAN
                     \/ t \in {"string", "array", "object"}
  BY DEF Width!IsValue, Width!IsNumber, Width!Null, Width!MinLargestInt
<1>3. Width(a, b, c, d)!isConvertibleTo(v, "int") = ~Width(a, b, c, d)!asInt(v).threw
  BY <1>1, <1>2 DEF Width!type_, Width!value_, Width!isConvertibleTo,
     Width!asInt, Width!isInt, Width!InRange, Width!IsIntegral, Width!MinInt,
     Width!Gives, Width!Throws, Width!GivesIf, Width!AsNumber
<1>4. Width(a, b, c, d)!isConvertibleTo(v, "uint") = ~Width(a, b, c, d)!asUInt(v).threw
  BY <1>1, <1>2 DEF Width!type_, Width!value_, Width!isConvertibleTo,
     Width!asUInt, Width!isUInt, Width!InRange, Width!IsIntegral,
     Width!Gives, Width!Throws, Width!GivesIf, Width!AsNumber
<1>5. Width(a, b, c, d)!isConvertibleTo(v, "real") = ~Width(a, b, c, d)!asDouble(v).threw
  BY <1>1, <1>2 DEF Width!type_, Width!value_, Width!isConvertibleTo,
     Width!isDouble, Width!asDouble, Width!Gives, Width!Throws,
     Width!GivesIf, Width!AsNumber
<1>6. Width(a, b, c, d)!isConvertibleTo(v, "bool") = ~Width(a, b, c, d)!asBool(v).threw
  BY <1>1, <1>2 DEF Width!type_, Width!value_, Width!isConvertibleTo,
     Width!isDouble, Width!asBool, Width!Gives, Width!Throws, Width!GivesIf,
     Width!AsNumber
<1>7. Width(a, b, c, d)!isConvertibleTo(v, "string") = ~Width(a, b, c, d)!asString(v).threw
  BY <1>1, <1>2 DEF Width!type_, Width!value_, Width!isConvertibleTo,
     Width!isDouble, Width!asString, Width!Gives, Width!Throws,
     Width!GivesIf, Width!AsNumber
<1>8. Width(a, b, c, d)!isConvertibleTo(v, "null") /\ ~Width(a, b, c, d)!isContainer(v)
        => Width(a, b, c, d)!asBool(v).threw \/ ~Width(a, b, c, d)!asBool(v).v
  <2>1. CASE t \in {"int", "uint", "real"}
    <3>1. n \in Int
      BY <1>1, <1>2, <2>1
    <3>2. Width(a, b, c, d)!asBool(v).v = (n # 0)
      BY <1>2, <2>1 DEF Width!type_, Width!value_, Width!isDouble, Width!asBool,
         Width!Gives
    <3>3. Width(a, b, c, d)!isConvertibleTo(v, "null") => n = 0
      <4>0. Width(a, b, c, d)!isConvertibleTo(v, "null")
              => Width(a, b, c, d)!asDouble(v).v = 0
        BY <1>2, <2>1 DEF Width!type_, Width!value_, Width!isDouble,
           Width!isContainer, Width!isConvertibleTo
      <4>1. CASE t = "real"
        <5>1. Width(a, b, c, d)!asDouble(v).v = n
          BY <1>2, <4>1 DEF Width!type_, Width!value_, Width!asDouble, Width!Gives
        <5> QED BY <4>0, <5>1
      <4>2. CASE t # "real"
        <5>1. Width(a, b, c, d)!asDouble(v).v = 2 * Width(a, b, c, d)!Rounded(n)
          BY <1>2, <2>1, <4>2 DEF Width!type_, Width!value_, Width!asDouble, Width!Gives
        <5>2. \/ Width(a, b, c, d)!Rounded(n) = n
              \/ n \in {c, d} /\ Width(a, b, c, d)!Rounded(n) = n + 1
          BY DEF Width!Rounded
        <5> QED BY <1>1, <3>1, <4>0, <5>1, <5>2
      <4> QED BY <4>1, <4>2
    <3> QED BY <3>2, <3>3
  <2>2. CASE t \notin {"int", "uint", "real"}
    BY <1>2, <2>2 DEF Width!type_, Width!value_, Width!isConvertibleTo,
       Width!isContainer, Width!isDouble, Width!asBool, Width!asString,
       Width!Gives, Width!Throws
  <2> QED BY <2>1, <2>2
<1>9. Width(a, b, c, d)!Exact(v, Width(a, b, c, d)!isInt(v), Width(a, b, c, d)!asInt(v), Width(a, b, c, d)!MinInt, a)
  BY <1>1, <1>2 DEF Width!type_, Width!value_, Width!Exact, Width!Fits,
     Width!isInt, Width!asInt, Width!Halves, Width!InRange,
     Width!IsIntegral, Width!Truncated, Width!MinInt, Width!Gives,
     Width!Throws, Width!GivesIf, Width!AsNumber
<1>10. Width(a, b, c, d)!Exact(v, Width(a, b, c, d)!isUInt(v), Width(a, b, c, d)!asUInt(v), 0, b)
  BY <1>1, <1>2 DEF Width!type_, Width!value_, Width!Exact, Width!Fits,
     Width!isUInt, Width!asUInt, Width!Halves, Width!InRange,
     Width!IsIntegral, Width!Truncated, Width!Gives, Width!Throws,
     Width!GivesIf, Width!AsNumber
<1>11. Width(a, b, c, d)!Exact(v, Width(a, b, c, d)!isInt64(v), Width(a, b, c, d)!asInt64(v), Width(a, b, c, d)!MinLargestInt, c)
  BY <1>1, <1>2 DEF Width!type_, Width!value_, Width!Exact, Width!Fits,
     Width!isInt64, Width!asInt64, Width!Halves, Width!InRange,
     Width!IsIntegral, Width!Truncated, Width!MinLargestInt,
     Width!DoubleMaxInt64, Width!Gives, Width!Throws, Width!GivesIf,
     Width!AsNumber
<1>12. Width(a, b, c, d)!Exact(v, Width(a, b, c, d)!isUInt64(v), Width(a, b, c, d)!asUInt64(v), 0, d)
  BY <1>1, <1>2 DEF Width!type_, Width!value_, Width!Exact, Width!Fits,
     Width!isUInt64, Width!asUInt64, Width!Halves, Width!InRange,
     Width!IsIntegral, Width!Truncated, Width!DoubleMaxUInt64, Width!Gives,
     Width!Throws, Width!GivesIf, Width!AsNumber
<1>13. Width(a, b, c, d)!isIntegral(v)
         = (Width(a, b, c, d)!isInt64(v) \/ Width(a, b, c, d)!isUInt64(v))
  <2>1. CASE t = "real"
    <3>1. n \in Int
      BY <1>2, <2>1
    <3>2. Width(a, b, c, d)!isIntegral(v)
            = (n >= 2 * (-c - 1) /\ n < 2 * (d + 1) /\ Width(a, b, c, d)!IsIntegral(n))
      BY <1>2, <2>1 DEF Width!type_, Width!value_, Width!isIntegral,
         Width!MinLargestInt, Width!DoubleMaxUInt64
    <3>3. Width(a, b, c, d)!isInt64(v)
            = (n >= 2 * (-c - 1) /\ n < 2 * (c + 1) /\ Width(a, b, c, d)!IsIntegral(n))
      BY <1>2, <2>1 DEF Width!type_, Width!value_, Width!isInt64,
         Width!MinLargestInt, Width!DoubleMaxInt64
    <3>4. Width(a, b, c, d)!isUInt64(v)
            = (n >= 0 /\ n < 2 * (d + 1) /\ Width(a, b, c, d)!IsIntegral(n))
      BY <1>2, <2>1 DEF Width!type_, Width!value_, Width!isUInt64,
         Width!DoubleMaxUInt64
    <3>5. Width(a, b, c, d)!IsIntegral(n) \in BOOLEAN
      BY DEF Width!IsIntegral
    <3>6. n >= 2 * (-c - 1) /\ n < 2 * (d + 1)
            <=> \/ n >= 2 * (-c - 1) /\ n < 2 * (c + 1)
                \/ n >= 0 /\ n < 2 * (d + 1)
      BY <1>1, <3>1
    <3> QED BY <3>2, <3>3, <3>4, <3>5, <3>6, Zenon
  <2>2. CASE t \in {"int", "uint"}
    BY <1>1, <1>2, <2>2 DEF Width!type_, Width!value_, Width!isIntegral,
       Width!isInt64, Width!isUInt64
  <2>3. CASE t \notin {"int", "uint", "real"}
    BY <1>2, <2>3 DEF Width!type_, Width!value_, Width!isIntegral,
       Width!isInt64, Width!isUInt64
  <2> QED BY <2>1, <2>2, <2>3
<1>14. Width(a, b, c, d)!Fits(Width(a, b, c, d)!asInt(v), Width(a, b, c, d)!MinInt, a)
  BY <1>1, <1>2 DEF Width!type_, Width!value_, Width!Fits, Width!isInt,
     Width!asInt, Width!InRange, Width!IsIntegral, Width!Truncated,
     Width!MinInt, Width!Gives, Width!Throws, Width!GivesIf, Width!AsNumber
<1>15. Width(a, b, c, d)!Fits(Width(a, b, c, d)!asUInt(v), 0, b)
  BY <1>1, <1>2 DEF Width!type_, Width!value_, Width!Fits, Width!isUInt,
     Width!asUInt, Width!InRange, Width!IsIntegral, Width!Truncated,
     Width!Gives, Width!Throws, Width!GivesIf, Width!AsNumber
<1>16. \/ v = <<"real", 2 * Width(a, b, c, d)!DoubleMaxInt64>>
       \/ Width(a, b, c, d)!Fits(Width(a, b, c, d)!asInt64(v), Width(a, b, c, d)!MinLargestInt, c)
  BY <1>1, <1>2 DEF Width!type_, Width!value_, Width!Fits, Width!isInt64,
     Width!asInt64, Width!InRange, Width!IsIntegral, Width!Truncated,
     Width!MinLargestInt, Width!DoubleMaxInt64, Width!Gives, Width!Throws,
     Width!GivesIf, Width!AsNumber
<1>17. \/ v = <<"real", 2 * Width(a, b, c, d)!DoubleMaxUInt64>>
       \/ Width(a, b, c, d)!Fits(Width(a, b, c, d)!asUInt64(v), 0, d)
  BY <1>1, <1>2 DEF Width!type_, Width!value_, Width!Fits, Width!isUInt64,
     Width!asUInt64, Width!InRange, Width!IsIntegral, Width!Truncated,
     Width!DoubleMaxUInt64, Width!Gives, Width!Throws, Width!GivesIf,
     Width!AsNumber
<1> QED
  BY <1>3, <1>4, <1>5, <1>6, <1>7, <1>8, <1>9, <1>10, <1>11, <1>12, <1>13, <1>14, <1>15, <1>16, <1>17 DEF Width!Agrees
=============================================================================
