--------------------------- MODULE MsgFile_proofs ---------------------------
(***************************************************************************)
(* What the file protocol of CMsgBox guarantees for any number of messages *)
(* and faults and any width of the count.                                  *)
(***************************************************************************)
EXTENDS MsgFile, SequenceTheorems, TLAPS

-----------------------------------------------------------------------------
(* Slots and files. *)

LEMMA MsgType ==
  ASSUME NEW m \in 0..MsgBound
  PROVE  Msg(m) \in Slots
BY DEF Msg, Slots

LEMMA HdrType ==
  ASSUME NEW n \in Int
  PROVE  Hdr(n) \in Slots
<1>1. n % HeaderRange \in 0..(HeaderRange - 1)
  BY FileAssumption
<1> QED
  BY <1>1 DEF Hdr, Slots

(* A function on 1..n is a sequence of length n. *)
LEMMA FunctionIsSeq ==
  ASSUME NEW T, NEW n \in Nat, NEW f \in [1..n -> T]
  PROVE  f \in Seq(T) /\ Len(f) = n
<1>1. f \in UNION {[1..k -> T] : k \in Nat}
  OBVIOUS
<1>2. f \in Seq(T)
  BY <1>1, SeqDef, Zenon
<1>3. DOMAIN f = 1..n
  OBVIOUS
<1> QED
  BY <1>2, <1>3

(* The bodies of some messages. *)
LEMMA BodiesType ==
  ASSUME NEW b \in Seq(1..MsgBound), NEW n \in 0..Len(b)
  PROVE  /\ [i \in 1..n |-> Msg(b[i])] \in Seq(Slots)
         /\ Len([i \in 1..n |-> Msg(b[i])]) = n
<1>1. \A i \in 1..n : Msg(b[i]) \in Slots
  <2> TAKE i \in 1..n
  <2>1. i \in 1..Len(b)
    OBVIOUS
  <2>2. b[i] \in 1..MsgBound
    BY <2>1, ElementOfSeq
  <2>3. b[i] \in 0..MsgBound
    BY <2>2, FileAssumption
  <2> QED BY <2>3, MsgType
<1>2. [i \in 1..n |-> Msg(b[i])] \in [1..n -> Slots]
  BY <1>1
<1>3. n \in Nat
  OBVIOUS
<1> QED
  BY <1>2, <1>3, FunctionIsSeq

LEMMA WriteAtType ==
  ASSUME NEW f \in Seq(Slots), NEW offset \in Nat, NEW s \in Seq(Slots)
  PROVE  WriteAt(f, offset, s) \in Seq(Slots) /\ Len(WriteAt(f, offset, s)) = offset + Len(s)
<1> DEFINE e(i) == IF i > offset THEN s[i - offset] ELSE IF i <= Len(f) THEN f[i] ELSE Blank
           n == offset + Len(s)
<1>1. n \in Nat
  OBVIOUS
<1>2. \A i \in 1..n : e(i) \in Slots
  <2> TAKE i \in 1..n
  <2>1. CASE i > offset
    <3>1. i - offset \in 1..Len(s)
      BY <2>1
    <3> QED BY <2>1, <3>1, ElementOfSeq
  <2>2. CASE i <= offset /\ i <= Len(f)
    <3>1. i \in 1..Len(f)
      BY <2>2
    <3> QED BY <2>2, <3>1, ElementOfSeq
  <2>3. CASE i <= offset /\ i > Len(f)
    BY <2>3, MsgType, FileAssumption DEF Blank
  <2> QED
    BY <2>1, <2>2, <2>3
<1>3. [i \in 1..n |-> e(i)] \in [1..n -> Slots]
  BY <1>2
<1>4. WriteAt(f, offset, s) = [i \in 1..n |-> e(i)]
  BY DEF WriteAt
<1> QED
  BY <1>1, <1>3, <1>4, FunctionIsSeq, SMTT(30)

LEMMA WriteHeaderAtType ==
  ASSUME NEW f \in Seq(Slots), NEW n \in Int
  PROVE  /\ WriteHeaderAt(f, n) \in Seq(Slots)
         /\ WriteHeaderAt(f, n) # <<>>
         /\ WriteHeaderAt(f, n)[1] = Hdr(n)
         /\ f # <<>> => Len(WriteHeaderAt(f, n)) = Len(f)
         /\ f = <<>> => Len(WriteHeaderAt(f, n)) = 1
<1>1. Hdr(n) \in Slots
  BY HdrType
<1>2. CASE f = <<>>
  BY <1>1, <1>2 DEF WriteHeaderAt
<1>3. CASE f # <<>>
  <2>1. 1 \in 1..Len(f)
    BY <1>3, EmptySeq
  <2>2. WriteHeaderAt(f, n) = [f EXCEPT ![1] = Hdr(n)]
    BY <1>3 DEF WriteHeaderAt
  <2> HIDE DEF WriteHeaderAt
  <2>3. /\ WriteHeaderAt(f, n) \in Seq(Slots)
        /\ Len(WriteHeaderAt(f, n)) = Len(f)
        /\ WriteHeaderAt(f, n)[1] = Hdr(n)
    BY <1>1, <2>1, <2>2, ExceptSeq
  <2> QED
    BY <1>3, <2>1, <2>3, EmptySeq
<1> QED
  BY <1>2, <1>3

LEMMA HeaderKeepsSize ==
  ASSUME NEW f \in Seq(Slots), NEW n \in Int
  PROVE  /\ WriteHeaderAt(f, n) \in Seq(Slots)
         /\ Len(f) <= Len(WriteHeaderAt(f, n))
         /\ Len(WriteHeaderAt(f, n)) = Len(f) \/ Len(WriteHeaderAt(f, n)) = 1
<1>1. Len(f) \in Nat /\ (f = <<>> => Len(f) = 0)
  OBVIOUS
<1>2. CASE f = <<>>
  <2>1. WriteHeaderAt(f, n) \in Seq(Slots) /\ Len(WriteHeaderAt(f, n)) = 1
    BY <1>2, WriteHeaderAtType, Zenon
  <2> QED BY <1>1, <1>2, <2>1
<1>3. CASE f # <<>>
  <2>1. WriteHeaderAt(f, n) \in Seq(Slots) /\ Len(WriteHeaderAt(f, n)) = Len(f)
    BY <1>3, WriteHeaderAtType, Zenon
  <2> QED BY <1>1, <1>3, <2>1
<1> QED
  BY <1>2, <1>3

LEMMA SetOfType ==
  ASSUME NEW T, NEW s \in Seq(T)
  PROVE  /\ SetOf(s) \subseteq T
         /\ s # <<>> => Head(s) \in SetOf(s)
<1>1. DOMAIN s = 1..Len(s)
  OBVIOUS
<1>2. SetOf(s) \subseteq T
  BY <1>1, ElementOfSeq DEF SetOf
<1>3. ASSUME s # <<>> PROVE Head(s) \in SetOf(s)
  <2>1. 1 \in 1..Len(s)
    BY <1>3, EmptySeq
  <2> QED
    BY <1>1, <2>1 DEF SetOf
<1> QED
  BY <1>2, <1>3

-----------------------------------------------------------------------------
(* Types. *)

(* What the type invariant needs: the file never shrinks under a reader,   *)
(* and a writer never ends short of the end of the file.                   *)
SizeInv ==
  /\ rpc = "read" => 2 <= rsize /\ rsize <= Len(file)
  /\ wpc = "bodies" => Len(file) <= wsize \/ Len(file) <= 1

IInv == TypeOK /\ SizeInv

LEMMA InitIInv == Init => IInv
<1> SUFFICES ASSUME Init PROVE IInv
  OBVIOUS
<1>1. file \in Seq(Slots)
  <2>1. Hdr(0) \in Slots
    BY HdrType
  <2> HIDE DEF Hdr, Slots
  <2>2. <<>> \in Seq(Slots) /\ <<Hdr(0)>> \in Seq(Slots)
    BY <2>1
  <2>3. file = <<>> \/ file = <<Hdr(0)>>
    BY DEF Init
  <2> QED
    BY <2>2, <2>3
<1>2. 0 \in 0..MsgBound /\ 0 \in 0..FaultBound
  BY FileAssumption
<1> HIDE DEF Slots, Hdr
<1>3. TypeOK
  BY <1>1, <1>2, EmptySeq DEF Init, TypeOK
<1>4. SizeInv
  BY DEF Init, SizeInv
<1> QED
  BY <1>3, <1>4 DEF IInv

LEMMA NextIInv == IInv /\ [Next]_vars => IInv'
<1> SUFFICES ASSUME IInv, [Next]_vars PROVE IInv'
  OBVIOUS
<1> USE FileAssumption DEF IInv, TypeOK, SizeInv, fvars, wvars, rvars, faultvars, Fault
<1>1. CASE SendMsg
  <2>1. sent + 1 \in 1..MsgBound
    BY <1>1 DEF SendMsg
  <2>2. qWriteMsg' \in Seq(1..MsgBound)
    BY <1>1, <2>1 DEF SendMsg
  <2> QED BY <1>1, <2>1, <2>2 DEF SendMsg
<1>2. CASE Create BY <1>2 DEF Create
<1>3. CASE CreateHeader
  <2>1. file' = WriteHeaderAt(file, 0) /\ file \in Seq(Slots)
    BY <1>3 DEF CreateHeader
  <2>2. file' \in Seq(Slots) /\ Len(file) <= Len(file')
    <3> HIDE DEF IInv
    <3> QED BY <2>1, HeaderKeepsSize
  <2> QED BY <1>3, <2>2 DEF CreateHeader
<1>4. CASE WriteSize
  <2>1. SetOf(qWriteMsg) \subseteq 1..MsgBound /\ Head(qWriteMsg) \in 1..MsgBound
    BY <1>4, SetOfType DEF WriteSize
  <2>2. during' \subseteq 1..MsgBound /\ excused' \subseteq 1..MsgBound
    BY <1>4, <2>1 DEF WriteSize
  <2> QED BY <1>4, <2>2 DEF WriteSize
<1>5. CASE WriteBodies
  <2> DEFINE bodies == [i \in DOMAIN wbuf |-> Msg(wbuf[i])]
  <2>1. bodies \in Seq(Slots) /\ Len(bodies) = Len(wbuf)
    <3>1. wbuf \in Seq(1..MsgBound) /\ DOMAIN wbuf = 1..Len(wbuf) /\ Len(wbuf) \in 0..Len(wbuf)
      OBVIOUS
    <3> HIDE DEF IInv
    <3> QED BY <3>1, BodiesType
  <2>2. file' = WriteAt(file, wsize, bodies)
    BY <1>5 DEF WriteBodies
  <2> HIDE DEF bodies
  <2>3. file' \in Seq(Slots) /\ Len(file') = wsize + Len(wbuf)
    <3>1. file \in Seq(Slots) /\ wsize \in Nat
      OBVIOUS
    <3> HIDE DEF IInv
    <3>2. /\ WriteAt(file, wsize, bodies) \in Seq(Slots)
          /\ Len(WriteAt(file, wsize, bodies)) = wsize + Len(bodies)
      BY <2>1, <2>2, <3>1, WriteAtType, Zenon
    <3> QED BY <2>1, <2>2, <3>2
  <2>4. Len(wbuf) \in Nat /\ Len(wbuf) >= 1
    BY <1>5, EmptySeq DEF WriteBodies
  <2>5. SetOf(wbuf) \subseteq 1..MsgBound
    BY SetOfType
  <2>6. Len(file) <= Len(file')
    BY <1>5, <2>3, <2>4 DEF WriteBodies
  <2>7. /\ wpc = "bodies" /\ wpc' = "header" /\ stored' = stored \cup SetOf(wbuf)
        /\ UNCHANGED <<exists, torn, sent, qWriteMsg, wbuf, wsize, rvars, during, excused,
                        faultvars>>
    BY <1>5 DEF WriteBodies
  <2>8. TypeOK'
    BY <2>3, <2>5, <2>7
  <2>9. SizeInv'
    <3> HIDE DEF TypeOK
    <3>1. wpc' = "header" /\ rpc' = rpc /\ rsize' = rsize
      BY <2>7
    <3>2. rpc = "read" => rsize <= Len(file) /\ 2 <= rsize
      OBVIOUS
    <3>3. Len(file) \in Nat /\ Len(file') \in Nat /\ rsize \in Nat
      BY <2>3 DEF TypeOK
    <3> HIDE DEF IInv, SizeInv
    <3> QED BY <2>6, <3>1, <3>2, <3>3 DEF SizeInv
  <2> QED BY <2>8, <2>9
<1>6. CASE WriteHeader
  <2>1. /\ file' = WriteHeaderAt(file, wsize - 1 + Len(wbuf))
        /\ file \in Seq(Slots) /\ wsize - 1 + Len(wbuf) \in Int
    BY <1>6 DEF WriteHeader
  <2>2. file' \in Seq(Slots) /\ Len(file) <= Len(file')
    <3> HIDE DEF IInv
    <3> QED BY <2>1, HeaderKeepsSize
  <2> QED BY <1>6, <2>2, EmptySeq, SMTT(30) DEF WriteHeader
<1>7. CASE ReadSize
  <2>1. SetOf(wbuf) \subseteq 1..MsgBound
    BY SetOfType
  <2> QED BY <1>7, <2>1 DEF ReadSize
<1>8. CASE ReadBodies
  <2> DEFINE slots == SubSeq(file, 1, rsize)
  <2>1. slots \in Seq(Slots) /\ Len(slots) = rsize
    <3>1. rsize \in Nat /\ 2 <= rsize /\ rsize <= Len(file)
      BY <1>8 DEF ReadBodies
    <3>2. \A i \in 1..rsize : file[i] \in Slots
      BY <3>1, ElementOfSeq
    <3> QED BY <3>1, <3>2, SubSeqProperties, Z3
  <2>2. \/ rpc' = "reset" /\ rbuf' = Tail(slots) /\ during' = during
        \/ rpc' = "idle" /\ rbuf' = rbuf /\ during' = {}
    BY <1>8 DEF ReadBodies
  <2> HIDE DEF slots
  <2>3. slots # <<>> /\ Tail(slots) \in Seq(Slots) /\ Tail(slots) # <<>>
    <3>1. Len(slots) >= 2
      BY <1>8, <2>1 DEF ReadBodies
    <3>2. slots # <<>>
      BY <3>1, EmptySeq
    <3>3. Tail(slots) \in Seq(Slots) /\ Len(Tail(slots)) = Len(slots) - 1
      BY <2>1, <3>2, HeadTailProperties
    <3>4. Len(slots) \in Nat
      BY <2>1
    <3> HIDE DEF IInv
    <3>5. Len(Tail(slots)) # 0
      BY <3>1, <3>3, <3>4
    <3> QED BY <3>2, <3>3, <3>5, EmptySeq
  <2> QED BY <1>8, <2>2, <2>3 DEF ReadBodies
<1>9. CASE ReadReset
  <2>1. file' = <<>> /\ Len(file') = 0 /\ file' \in Seq(Slots)
    BY <1>9 DEF ReadReset
  <2>2. /\ torn' = FALSE /\ rpc = "reset" /\ rpc' = "header"
        /\ excused' = excused \cup during /\ during' = {}
        /\ UNCHANGED <<exists, wvars, rbuf, rsize, got, stored, faultvars>>
    BY <1>9 DEF ReadReset
  <2>3. TypeOK'
    BY <2>1, <2>2
  <2>4. SizeInv'
    BY <2>1, <2>2
  <2> QED BY <2>3, <2>4
<1>10. CASE ReadHeader
  <2>1. file' = WriteHeaderAt(file, 0) /\ file \in Seq(Slots)
    BY <1>10 DEF ReadHeader
  <2>2. /\ file' \in Seq(Slots)
        /\ Len(file') = Len(file) \/ Len(file') = 1
    <3> HIDE DEF IInv
    <3> QED BY <2>1, HeaderKeepsSize
  <2>3. /\ rpc = "header" /\ rpc' = "push"
        /\ UNCHANGED <<exists, torn, wvars, rbuf, rsize, got, stored, during, excused, faultvars>>
    BY <1>10 DEF ReadHeader
  <2>4. TypeOK'
    BY <2>2, <2>3
  <2>5. SizeInv'
    <3> HIDE DEF TypeOK
    <3>1. wpc' = wpc /\ wsize' = wsize /\ rpc' = "push"
      BY <2>3
    <3>2. wpc = "bodies" => Len(file) <= wsize \/ Len(file) <= 1
      OBVIOUS
    <3>3. Len(file) \in Nat /\ Len(file') \in Nat /\ wsize \in Nat
      BY <2>2 DEF TypeOK
    <3> HIDE DEF IInv, SizeInv
    <3>4. wpc' = "bodies" => Len(file') <= wsize' \/ Len(file') <= 1
      <4>1. CASE Len(file') = Len(file)
        BY <3>1, <3>2, <4>1, Zenon
      <4>2. CASE Len(file') = 1
        BY <3>3, <4>2
      <4> QED BY <2>2, <4>1, <4>2
    <3>5. rpc' # "read"
      BY <3>1
    <3> QED BY <3>4, <3>5 DEF SizeInv
  <2> QED BY <2>4, <2>5
<1>11. CASE PushRead
  <2>1. got' \in Seq(Slots)
    BY <1>11, ConcatProperties DEF PushRead
  <2> QED BY <1>11, <2>1, EmptySeq DEF PushRead
<1>12. CASE WriterCrash BY <1>12, EmptySeq DEF WriterCrash
<1>13. CASE TornWrite
  <2> DEFINE bodies(n) == [i \in 1..n |-> Msg(wbuf[i])]
  <2>1. PICK k \in 0..(Len(wbuf) - 1), n \in 0..Len(wbuf) :
          /\ n = IF wsize + k < Len(file) THEN k + 1 ELSE k
          /\ file' = WriteAt(file, wsize, bodies(n))
          /\ torn' \in BOOLEAN
          /\ stored' = stored \cup {wbuf[i] : i \in 1..k}
    <3>1. PICK k \in 0..(Len(wbuf) - 1) :
          /\ file' = WriteAt(file, wsize, bodies(IF wsize + k < Len(file) THEN k + 1 ELSE k))
          /\ torn' = ~(wsize + k < Len(file))
          /\ stored' = stored \cup {wbuf[i] : i \in 1..k}
      BY <1>13 DEF TornWrite
    <3>2. (IF wsize + k < Len(file) THEN k + 1 ELSE k) \in 0..Len(wbuf)
      OBVIOUS
    <3> QED BY <3>1, <3>2
  <2>2. bodies(n) \in Seq(Slots) /\ Len(bodies(n)) = n
    BY BodiesType
  <2> HIDE DEF bodies
  <2>3. file' \in Seq(Slots) /\ Len(file') = wsize + n
    <3>1. file \in Seq(Slots) /\ wsize \in Nat
      OBVIOUS
    <3> HIDE DEF IInv
    <3>2. /\ WriteAt(file, wsize, bodies(n)) \in Seq(Slots)
          /\ Len(WriteAt(file, wsize, bodies(n))) = wsize + Len(bodies(n))
      BY <2>1, <2>2, <3>1, WriteAtType, ZenonT(60)
    <3> QED BY <2>1, <2>2, <3>2
  <2>4. wpc = "bodies"
    BY <1>13 DEF TornWrite
  <2>5. Len(file) <= Len(file')
    BY <2>1, <2>3, <2>4, SMTT(30)
  <2>6. {wbuf[i] : i \in 1..k} \subseteq 1..MsgBound
    <3>1. wbuf \in Seq(1..MsgBound) /\ \A i \in 1..k : i \in 1..Len(wbuf)
      OBVIOUS
    <3> HIDE DEF IInv
    <3> QED BY <3>1, ElementOfSeq
  <2>7. stored' \subseteq 1..MsgBound /\ torn' \in BOOLEAN
    BY <2>1, <2>6
  <2>8. /\ wpc' = "idle" /\ qWriteMsg' = <<>> /\ wbuf' = <<>> /\ wsize' = 0
        /\ faults' = faults + 1 /\ faults < FaultBound
        /\ UNCHANGED <<exists, sent, rvars, during, excused, again>>
    BY <1>13 DEF TornWrite
  <2> QED BY <2>3, <2>5, <2>7, <2>8, EmptySeq, SMTT(30)
<1>14. CASE ReaderCrash
  <2> DEFINE inhand == {m \in 1..MsgBound :
                         rpc \in {"header", "push"} /\ Msg(m) \in SetOf(rbuf)}
  <2>1. /\ excused' = excused \cup inhand /\ inhand \subseteq 1..MsgBound
        /\ during' = {} /\ faults' = faults + 1 /\ faults < FaultBound
        /\ rpc' = "idle" /\ rbuf' = <<>> /\ rsize' = 0
        /\ UNCHANGED <<fvars, wvars, got, stored, again>>
    BY <1>14 DEF ReaderCrash
  <2> HIDE DEF inhand
  <2> QED BY <2>1, EmptySeq
<1>15. CASE ResetFails
  <2>1. SetOf(rbuf) \subseteq Slots
    BY SetOfType
  <2> QED BY <1>15, <2>1 DEF ResetFails
<1>16. CASE UNCHANGED vars BY <1>16 DEF vars
<1> QED
  BY <1>1, <1>2, <1>3, <1>4, <1>5, <1>6, <1>7, <1>8, <1>9, <1>10, <1>11, <1>12, <1>13,
     <1>14, <1>15, <1>16 DEF Next, WriterStep, ReaderStep

LEMMA InductiveIInv == Spec => []IInv
  BY InitIInv, NextIInv, PTL DEF Spec

(* The types hold in every reachable state, and with them that a write and *)
(* a read have messages in hand exactly from beginning to end              *)
(* (WriteMsgFile, ReadMsgFile).                                            *)
THEOREM TypeCorrect == Spec => []TypeOK
<1>1. IInv => TypeOK
  BY DEF IInv
<1> QED
  BY <1>1, InductiveIInv, PTL

-----------------------------------------------------------------------------
(* A write that no read disturbs. *)

(* While a write lasts, a read that can still empty the file knows of it,  *)
(* one that has emptied it has excused its messages, and otherwise the     *)
(* file has the size the writer believes it has.                           *)
WriteInv ==
  wpc \in {"bodies", "header"} =>
    /\ rpc \in {"read", "reset"} => SetOf(wbuf) \subseteq during
    /\ rpc = "header" => SetOf(wbuf) \cap excused # {}
    /\ SetOf(wbuf) \cap excused = {} =>
         /\ file # <<>>
         /\ wpc = "bodies" => Len(file) = wsize
         /\ wpc = "header" => Len(file) = wsize + Len(wbuf)

LEMMA NextWriteInv == IInv /\ IInv' /\ WriteInv /\ [Next]_vars => WriteInv'
<1> SUFFICES ASSUME IInv, IInv', WriteInv, [Next]_vars PROVE WriteInv'
  OBVIOUS
<1> USE DEF fvars, wvars, rvars, faultvars, Fault
<1>0. /\ file \in Seq(Slots) /\ file' \in Seq(Slots)
      /\ wbuf \in Seq(1..MsgBound) /\ qWriteMsg \in Seq(1..MsgBound)
      /\ wpc \in {"bodies", "header"} => wbuf # <<>>
  BY DEF IInv, TypeOK
<1>1. ASSUME UNCHANGED <<file, wpc, wbuf, wsize, rpc, during, excused>>
      PROVE  WriteInv'
  BY <1>1 DEF WriteInv
<1>2. CASE SendMsg BY <1>1, <1>2 DEF SendMsg
<1>3. CASE Create BY <1>3 DEF Create, WriteInv
<1>4. CASE CreateHeader BY <1>4 DEF CreateHeader, WriteInv
<1>5. CASE WriteSize
  <2>1. /\ wbuf' = qWriteMsg /\ wpc' = "bodies" /\ wsize' = Len(file) /\ file' = file
        /\ rpc' = rpc /\ qWriteMsg # <<>>
        /\ during' = during \cup (IF rpc \in {"read", "reset"} THEN SetOf(qWriteMsg) ELSE {})
        /\ excused' = excused \cup (IF rpc = "header" THEN SetOf(qWriteMsg)
                                    ELSE IF file = <<>> THEN {Head(qWriteMsg)} ELSE {})
    BY <1>5 DEF WriteSize
  <2>2. Head(qWriteMsg) \in SetOf(qWriteMsg)
    BY <1>0, <2>1, SetOfType
  <2>3. rpc' \in {"read", "reset"} => SetOf(wbuf') \subseteq during'
    BY <2>1, Zenon
  <2>4. rpc' = "header" => SetOf(wbuf') \cap excused' # {}
    BY <2>1, <2>2
  <2>5. SetOf(wbuf') \cap excused' = {} => file' # <<>> /\ Len(file') = wsize'
    BY <2>1, <2>2
  <2>6. SetOf(wbuf)' = SetOf(wbuf')
    BY DEF SetOf
  <2> QED BY <2>1, <2>3, <2>4, <2>5, <2>6 DEF WriteInv
<1>6. CASE WriteBodies
  <2> DEFINE bodies == [i \in DOMAIN wbuf |-> Msg(wbuf[i])]
  <2>1. /\ wpc = "bodies" /\ wpc' = "header" /\ file' = WriteAt(file, wsize, bodies)
        /\ wbuf' = wbuf /\ wsize' = wsize /\ rpc' = rpc
        /\ during' = during /\ excused' = excused
    BY <1>6 DEF WriteBodies
  <2>2. bodies \in Seq(Slots) /\ Len(bodies) = Len(wbuf)
    <3>1. DOMAIN wbuf = 1..Len(wbuf) /\ Len(wbuf) \in 0..Len(wbuf)
      BY <1>0
    <3> QED BY <1>0, <3>1, BodiesType
  <2>3. Len(file') = wsize + Len(wbuf)
    <3>1. wsize \in Nat
      BY DEF IInv, TypeOK
    <3> HIDE DEF bodies
    <3>2. Len(WriteAt(file, wsize, bodies)) = wsize + Len(bodies)
      BY <1>0, <2>2, <3>1, WriteAtType, Zenon
    <3> QED BY <2>1, <2>2, <3>2
  <2>4. file' # <<>>
    <3>1. wsize \in Nat /\ Len(wbuf) \in Nat /\ Len(wbuf) # 0
      BY <1>0, <2>1, EmptySeq DEF IInv, TypeOK
    <3>2. Len(file') # 0
      BY <2>3, <3>1
    <3> QED BY <1>0, <3>2, EmptySeq
  <2> HIDE DEF bodies
  <2>5. wpc \in {"bodies", "header"}
    BY <2>1
  <2>6. SetOf(wbuf)' = SetOf(wbuf)
    BY <2>1 DEF SetOf
  <2> QED BY <2>1, <2>3, <2>4, <2>5, <2>6 DEF WriteInv
<1>7. CASE WriteHeader BY <1>7 DEF WriteHeader, WriteInv
<1>8. CASE ReadSize
  <2>1. /\ during' = SetOf(wbuf) /\ rpc' = "read"
        /\ UNCHANGED <<file, wpc, wbuf, wsize, excused>>
    BY <1>8 DEF ReadSize
  <2>2. SetOf(wbuf)' = SetOf(wbuf)
    BY <2>1 DEF SetOf
  <2> QED BY <2>1, <2>2 DEF WriteInv
<1>9. CASE ReadBodies
  <2>1. /\ rpc = "read"
        /\ (rpc' = "reset" /\ during' = during) \/ rpc' = "idle"
        /\ UNCHANGED <<file, wpc, wbuf, wsize, excused>>
    BY <1>9 DEF ReadBodies
  <2>2. SetOf(wbuf)' = SetOf(wbuf)
    BY <2>1 DEF SetOf
  <2> QED BY <2>1, <2>2 DEF WriteInv
<1>10. CASE ReadReset
  <2>1. /\ rpc = "reset" /\ rpc' = "header" /\ excused' = excused \cup during
        /\ UNCHANGED <<wpc, wbuf, wsize>>
    BY <1>10 DEF ReadReset
  <2>2. SetOf(wbuf)' = SetOf(wbuf)
    BY <2>1 DEF SetOf
  <2>3. ASSUME wpc \in {"bodies", "header"} PROVE SetOf(wbuf) \cap excused' # {}
    <3>1. Head(wbuf) \in SetOf(wbuf)
      BY <1>0, <2>3, SetOfType
    <3>2. SetOf(wbuf) \subseteq during
      BY <2>1, <2>3 DEF WriteInv
    <3> QED BY <2>1, <3>1, <3>2
  <2> QED BY <2>1, <2>2, <2>3 DEF WriteInv
<1>11. CASE ReadHeader
  <2>1. /\ rpc = "header" /\ rpc' = "push"
        /\ UNCHANGED <<wpc, wbuf, wsize, excused>>
    BY <1>11 DEF ReadHeader
  <2>2. SetOf(wbuf)' = SetOf(wbuf)
    BY <2>1 DEF SetOf
  <2> QED BY <2>1, <2>2 DEF WriteInv
<1>12. CASE PushRead
  <2>1. rpc' = "idle" /\ UNCHANGED <<file, wpc, wbuf, wsize, excused>>
    BY <1>12 DEF PushRead
  <2>2. SetOf(wbuf)' = SetOf(wbuf)
    BY <2>1 DEF SetOf
  <2> QED BY <2>1, <2>2 DEF WriteInv
<1>13. CASE WriterCrash BY <1>13 DEF WriterCrash, WriteInv
<1>14. CASE TornWrite BY <1>14 DEF TornWrite, WriteInv
<1>15. CASE ReaderCrash
  <2>1. /\ rpc' = "idle" /\ excused \subseteq excused'
        /\ UNCHANGED <<file, wpc, wbuf, wsize>>
    BY <1>15 DEF ReaderCrash
  <2>2. SetOf(wbuf)' = SetOf(wbuf)
    BY <2>1 DEF SetOf
  <2>3. SetOf(wbuf) \cap excused' = {} => SetOf(wbuf) \cap excused = {}
    BY <2>1
  <2> QED BY <2>1, <2>2, <2>3 DEF WriteInv
<1>16. CASE ResetFails
  <2>1. rpc' = "push" /\ UNCHANGED <<file, wpc, wbuf, wsize, excused>>
    BY <1>16 DEF ResetFails
  <2>2. SetOf(wbuf)' = SetOf(wbuf)
    BY <2>1 DEF SetOf
  <2> QED BY <2>1, <2>2 DEF WriteInv
<1>17. CASE UNCHANGED vars BY <1>1, <1>17 DEF vars
<1> QED
  BY <1>2, <1>3, <1>4, <1>5, <1>6, <1>7, <1>8, <1>9, <1>10, <1>11, <1>12, <1>13, <1>14,
     <1>15, <1>16, <1>17 DEF Next, WriterStep, ReaderStep

(* The step that ends a write leaves the count equal to the size. *)
LEMMA RepairStep ==
  IInv /\ WriteInv /\ [Next]_vars =>
    (wpc = "header" /\ wpc' = "idle" /\ faults' = faults /\ SetOf(wbuf) \cap excused = {}
       => Consistent')
<1> SUFFICES ASSUME IInv, WriteInv, [Next]_vars, wpc = "header", wpc' = "idle",
                    faults' = faults, SetOf(wbuf) \cap excused = {}
             PROVE  Consistent'
  OBVIOUS
<1>1. /\ file \in Seq(Slots) /\ wbuf \in Seq(1..MsgBound) /\ wsize \in Nat
      /\ faults \in Nat
  BY FileAssumption DEF IInv, TypeOK
<1>2. WriteHeader
  <2>1. ~WriterCrash /\ ~TornWrite
    <3>1. faults' # faults + 1
      BY <1>1
    <3> QED BY <3>1 DEF WriterCrash, TornWrite, Fault
  <2>2. ~SendMsg /\ ~ReaderStep /\ ~ReaderCrash /\ ~ResetFails /\ ~UNCHANGED vars
    BY DEF SendMsg, ReaderStep, ReadSize, ReadBodies, ReadReset, ReadHeader, PushRead,
           ReaderCrash, ResetFails, wvars, faultvars, vars
  <2>3. ~Create /\ ~CreateHeader /\ ~WriteSize /\ ~WriteBodies
    BY DEF Create, CreateHeader, WriteSize, WriteBodies
  <2> QED BY <2>1, <2>2, <2>3 DEF Next, WriterStep
<1>3. file # <<>> /\ Len(file) = wsize + Len(wbuf)
  BY DEF WriteInv
<1>4. wsize - 1 + Len(wbuf) \in Int /\ wsize - 1 + Len(wbuf) = Len(file) - 1
  BY <1>1, <1>3
<1>5. file' = WriteHeaderAt(file, Len(file) - 1)
  BY <1>2, <1>4 DEF WriteHeader
<1>6. /\ file' # <<>> /\ file'[1] = Hdr(Len(file) - 1) /\ Len(file') = Len(file)
  BY <1>1, <1>3, <1>4, <1>5, WriteHeaderAtType
<1> QED
  BY <1>6 DEF Consistent, Hdr

(* A write that no read disturbs leaves the count equal to the size, for   *)
(* every width of msg_no and whatever died before (WriteMsgFile).          *)
THEOREM WritesRepair == Spec => WriteRepairs
<1>1. Init => WriteInv
  BY DEF Init, WriteInv
<1>2. Spec => []WriteInv
  BY <1>1, NextWriteInv, InductiveIInv, PTL DEF Spec
<1>3. IInv /\ WriteInv /\ [Next]_vars =>
        [wpc = "header" /\ wpc' = "idle" /\ faults' = faults /\ SetOf(wbuf) \cap excused = {}
           => Consistent']_vars
  BY RepairStep
<1> QED
  BY <1>2, <1>3, InductiveIInv, PTL DEF Spec, WriteRepairs

-----------------------------------------------------------------------------
(* What the steps do to the file and to what was read, slot by slot. *)

LEMMA SlotFacts ==
  ASSUME NEW m \in Nat, NEW n \in Nat, NEW k \in Int
  PROVE  /\ Msg(m) = Msg(n) <=> m = n
         /\ Msg(m)[1] = "msg" /\ Msg(m)[2] = m
         /\ Hdr(k)[1] = "hdr" /\ Hdr(k) # Msg(m)
         /\ Blank = Msg(0)
BY DEF Msg, Hdr, Blank

(* A write, complete or torn, appends the first messages of the buffer     *)
(* where the writer saw the end of the file; at most the slot of the       *)
(* header is written over.                                                 *)
LEMMA BodiesStep ==
  ASSUME IInv, WriteBodies \/ TornWrite
  PROVE  \E n \in 0..Len(wbuf) :
           /\ file' \in Seq(Slots) /\ Len(file') = wsize + n /\ Len(file) <= Len(file')
           /\ \A i \in 1..Len(file') :
                file'[i] = IF i > wsize THEN Msg(wbuf[i - wsize])
                           ELSE IF i <= Len(file) THEN file[i] ELSE Blank
           /\ stored' \subseteq stored \cup {wbuf[i] : i \in 1..n}
<1>0. /\ file \in Seq(Slots) /\ wsize \in Nat /\ wbuf \in Seq(1..MsgBound)
      /\ Len(wbuf) \in Nat /\ DOMAIN wbuf = 1..Len(wbuf)
  BY DEF IInv, TypeOK
<1> DEFINE bodies(n) == [i \in 1..n |-> Msg(wbuf[i])]
<1>1. ASSUME NEW n \in 0..Len(wbuf), file' = WriteAt(file, wsize, bodies(n))
      PROVE  /\ file' \in Seq(Slots) /\ Len(file') = wsize + n
             /\ \A i \in 1..Len(file') :
                  file'[i] = IF i > wsize THEN Msg(wbuf[i - wsize])
                             ELSE IF i <= Len(file) THEN file[i] ELSE Blank
  <2>1. bodies(n) \in Seq(Slots) /\ Len(bodies(n)) = n
    BY <1>0, BodiesType
  <2>2. \A j \in 1..n : bodies(n)[j] = Msg(wbuf[j])
    OBVIOUS
  <2>7. \A i \in 1..(wsize + n) :
          WriteAt(file, wsize, bodies(n))[i]
            = IF i > wsize THEN bodies(n)[i - wsize] ELSE IF i <= Len(file) THEN file[i] ELSE Blank
    <3> HIDE DEF bodies
    <3> QED BY <2>1, Zenon DEF WriteAt
  <2> HIDE DEF bodies
  <2>3. /\ WriteAt(file, wsize, bodies(n)) \in Seq(Slots)
        /\ Len(WriteAt(file, wsize, bodies(n))) = wsize + Len(bodies(n))
    BY <1>0, <2>1, WriteAtType, Zenon
  <2>4. file' \in Seq(Slots) /\ Len(file') = wsize + n
    BY <1>1, <2>1, <2>3
  <2>5. ASSUME NEW i \in 1..(wsize + n)
        PROVE  file'[i] = IF i > wsize THEN bodies(n)[i - wsize]
                          ELSE IF i <= Len(file) THEN file[i] ELSE Blank
    BY <1>1, <2>7
  <2>6. ASSUME NEW i \in 1..(wsize + n), i > wsize PROVE i - wsize \in 1..n
    BY <1>0, <2>6
  <2> QED BY <2>2, <2>4, <2>5, <2>6
<1>2. wpc = "bodies"
  BY DEF WriteBodies, TornWrite
<1>3. Len(file) <= wsize \/ Len(file) <= 1
  BY <1>2 DEF IInv, SizeInv
<1>4. CASE WriteBodies
  <2>1. file' = WriteAt(file, wsize, bodies(Len(wbuf))) /\ Len(wbuf) \in 0..Len(wbuf)
    BY <1>0, <1>4 DEF WriteBodies
  <2>2. Len(wbuf) >= 1
    BY <1>0, <1>2, EmptySeq DEF IInv, TypeOK
  <2>3. stored' = stored \cup {wbuf[i] : i \in 1..Len(wbuf)}
    BY <1>0, <1>4 DEF WriteBodies, SetOf
  <2>4. Len(file) \in Nat
    BY <1>0
  <2>5. wsize + Len(wbuf) >= Len(file)
    BY <1>0, <1>3, <2>2, <2>4
  <2> HIDE DEF bodies
  <2> QED BY <1>1, <2>1, <2>3, <2>5
<1>5. CASE TornWrite
  <2>1. PICK k \in 0..(Len(wbuf) - 1) :
          /\ file' = WriteAt(file, wsize, bodies(IF wsize + k < Len(file) THEN k + 1 ELSE k))
          /\ stored' = stored \cup {wbuf[i] : i \in 1..k}
    BY <1>5 DEF TornWrite
  <2> DEFINE n == IF wsize + k < Len(file) THEN k + 1 ELSE k
  <2>2. n \in 0..Len(wbuf) /\ k <= n /\ Len(file) \in Nat /\ wsize + n >= Len(file)
    BY <1>0, <1>3
  <2>3. file' = WriteAt(file, wsize, bodies(n))
    BY <2>1
  <2>4. {wbuf[i] : i \in 1..k} \subseteq {wbuf[i] : i \in 1..n}
    BY <2>2
  <2> HIDE DEF bodies, n
  <2> QED BY <1>1, <2>1, <2>2, <2>3, <2>4
<1> QED
  BY <1>4, <1>5

(* A header is written over the first slot, or makes the first one. *)
LEMMA HeaderStep ==
  ASSUME NEW f \in Seq(Slots), NEW n \in Int
  PROVE  LET g == WriteHeaderAt(f, n) IN
         /\ g \in Seq(Slots) /\ g[1] = Hdr(n)
         /\ (Len(g) = Len(f) /\ Len(f) >= 1) \/ (Len(g) = 1 /\ Len(f) = 0)
         /\ \A i \in 2..Len(g) : g[i] = f[i]
<1> DEFINE g == WriteHeaderAt(f, n)
<1>0. Len(f) \in Nat /\ (f = <<>> <=> Len(f) = 0)
  BY EmptySeq
<1>g. g = WriteHeaderAt(f, n)
  OBVIOUS
<1> SUFFICES /\ g \in Seq(Slots) /\ g[1] = Hdr(n)
             /\ (Len(g) = Len(f) /\ Len(f) >= 1) \/ (Len(g) = 1 /\ Len(f) = 0)
             /\ \A i \in 2..Len(g) : g[i] = f[i]
  OBVIOUS
<1> HIDE DEF g
<1>1. CASE f = <<>>
  <2>1. g \in Seq(Slots) /\ g[1] = Hdr(n) /\ Len(g) = 1
    BY <1>1, <1>g, WriteHeaderAtType, Zenon
  <2> QED BY <1>0, <1>1, <2>1
<1>2. CASE f # <<>>
  <2>1. g \in Seq(Slots) /\ g[1] = Hdr(n) /\ Len(g) = Len(f)
    BY <1>2, <1>g, WriteHeaderAtType, Zenon
  <2>2. g = [f EXCEPT ![1] = Hdr(n)]
    BY <1>2, <1>g DEF WriteHeaderAt
  <2>3. \A i \in 2..Len(g) : g[i] = f[i]
    <3> TAKE i \in 2..Len(g)
    <3>1. i \in 1..Len(f) /\ i # 1
      BY <1>0, <2>1
    <3>2. i \in DOMAIN f
      BY <3>1
    <3> QED BY <2>2, <3>1, <3>2
  <2> QED BY <1>0, <1>2, <2>1, <2>3
<1> QED
  BY <1>1, <1>2

(* A read takes the slots behind the header, up to the size it saw. *)
LEMMA ReadStep ==
  ASSUME IInv, ReadBodies
  PROVE  /\ rpc = "read" /\ rbuf = <<>> /\ rsize \in Nat
         /\ 2 <= rsize /\ rsize <= Len(file)
         /\ UNCHANGED <<fvars, wvars, got, stored, excused, faultvars>>
         /\ \/ /\ rpc' = "reset" /\ during' = during
               /\ rbuf' \in Seq(Slots) /\ Len(rbuf') = rsize - 1
               /\ \A i \in 1..Len(rbuf') : rbuf'[i] = file[i + 1]
            \/ rpc' = "idle" /\ during' = {} /\ rbuf' = rbuf
<1> DEFINE slots == SubSeq(file, 1, rsize)
<1>0. /\ rpc = "read" /\ rbuf = <<>> /\ rsize \in Nat /\ 2 <= rsize /\ rsize <= Len(file)
      /\ file \in Seq(Slots) /\ Len(file) \in Nat
  BY DEF ReadBodies, IInv, TypeOK, SizeInv
<1>1. slots \in Seq(Slots) /\ Len(slots) = rsize /\ \A i \in 1..rsize : slots[i] = file[i]
  <2>1. \A i \in 1..rsize : file[i] \in Slots
    BY <1>0, ElementOfSeq
  <2> QED BY <1>0, <2>1, SubSeqProperties, Z3
<1>2. /\ UNCHANGED <<fvars, wvars, got, stored, excused, faultvars>>
      /\ \/ rpc' = "reset" /\ rbuf' = Tail(slots) /\ during' = during
         \/ rpc' = "idle" /\ rbuf' = rbuf /\ during' = {}
  BY DEF ReadBodies
<1> HIDE DEF slots
<1>3. slots # <<>>
  BY <1>0, <1>1, EmptySeq
<1>4. /\ Tail(slots) \in Seq(Slots) /\ Len(Tail(slots)) = rsize - 1
      /\ \A i \in 1..(rsize - 1) : Tail(slots)[i] = slots[i + 1]
  BY <1>0, <1>1, <1>3, HeadTailProperties
<1>5. \A i \in 1..(rsize - 1) : Tail(slots)[i] = file[i + 1]
  BY <1>0, <1>1, <1>4
<1> QED
  BY <1>0, <1>2, <1>4, <1>5

-----------------------------------------------------------------------------
(* No message gets lost but in the three ways. *)

(* A message in the place of the header is excused: the next header is     *)
(* written over it.  A writer about to write has the end of the file, or   *)
(* finds a header only, after its file was emptied.                        *)
HeaderFirst ==
  /\ \A m \in 1..MsgBound : Len(file) >= 1 /\ file[1] = Msg(m) => m \in excused
  /\ wpc = "bodies" =>
       /\ wsize = 0 => wbuf[1] \in excused
       /\ Len(file) <= wsize \/ (Len(file) = 1 /\ file[1][1] = "hdr")

(* The message in a slot is one of a write that overlaps the read. *)
Overlaps(i) == \A m \in 1..MsgBound : file[i] = Msg(m) => m \in during \cup excused

(* What a read has not seen of the file was written while it lasted; what  *)
(* it has taken is still there until it empties the file.                  *)
ReadInv ==
  /\ rpc = "read" => \A i \in (rsize + 1)..Len(file) : Overlaps(i)
  /\ rpc = "reset" =>
       /\ Len(rbuf) + 1 <= Len(file)
       /\ \A i \in 1..Len(rbuf) : rbuf[i] = file[i + 1]
       /\ \A i \in (Len(rbuf) + 2)..Len(file) : Overlaps(i)

KeepInv == NotLost /\ HeaderFirst /\ ReadInv

LEMMA InSetOf ==
  ASSUME NEW T, NEW s \in Seq(T), NEW x
  PROVE  x \in SetOf(s) <=> \E i \in 1..Len(s) : s[i] = x
<1>1. DOMAIN s = 1..Len(s)
  OBVIOUS
<1> QED
  BY <1>1 DEF SetOf

LEMMA InitKeepInv == Init => KeepInv
<1> SUFFICES ASSUME Init PROVE KeepInv
  OBVIOUS
<1>1. stored = {} /\ wpc = "idle" /\ rpc = "idle" /\ (file = <<>> \/ file = <<Hdr(0)>>)
  BY DEF Init
<1>2. ASSUME NEW m \in 1..MsgBound, Len(file) >= 1, file[1] = Msg(m) PROVE FALSE
  BY <1>1, <1>2 DEF Hdr, Msg
<1> QED
  BY <1>1, <1>2 DEF KeepInv, NotLost, HeaderFirst, ReadInv

LEMMA NextKeepInv ==
  ASSUME IInv, IInv', WriteInv, KeepInv, [Next]_vars
  PROVE  KeepInv'
<1> DEFINE Goal == KeepInv'
<1> SUFFICES Goal
  OBVIOUS
<1>0. /\ file \in Seq(Slots) /\ file' \in Seq(Slots) /\ Len(file) \in Nat /\ Len(file') \in Nat
      /\ rbuf \in Seq(Slots) /\ rbuf' \in Seq(Slots) /\ Len(rbuf) \in Nat
      /\ got \in Seq(Slots) /\ got' \in Seq(Slots)
      /\ wbuf \in Seq(1..MsgBound) /\ qWriteMsg \in Seq(1..MsgBound) /\ Len(wbuf) \in Nat
      /\ wsize \in Nat /\ stored \subseteq 1..MsgBound /\ stored' \subseteq 1..MsgBound
      /\ MsgBound \in Nat
  BY FileAssumption, SMTT(30) DEF IInv, TypeOK
<1>n. /\ Len(file) \in Nat /\ Len(file') \in Nat /\ Len(rbuf) \in Nat
      /\ Len(wbuf) \in Nat /\ wsize \in Nat
  BY <1>0
<1>00. ASSUME NEW m \in 1..MsgBound
       PROVE  /\ m \in Nat /\ m # 0
              /\ Msg(m) \in SetOf(file) <=> \E i \in 1..Len(file) : file[i] = Msg(m)
              /\ Msg(m) \in SetOf(rbuf) <=> \E i \in 1..Len(rbuf) : rbuf[i] = Msg(m)
              /\ Msg(m) \in SetOf(file)' <=> \E i \in 1..Len(file') : file'[i] = Msg(m)
  <2>1. Msg(m) \in SetOf(file') <=> \E i \in 1..Len(file') : file'[i] = Msg(m)
    BY <1>0, InSetOf
  <2>2. SetOf(file)' = SetOf(file')
    BY DEF SetOf
  <2> QED BY <1>0, <2>1, <2>2, InSetOf, SMTT(30)
<1>k. NotLost /\ HeaderFirst /\ ReadInv
  BY DEF KeepInv
(* A step that leaves the file and what was read alone. *)
<1>1. ASSUME UNCHANGED <<file, rbuf, got>>, stored' = stored, excused \subseteq excused'
      PROVE  NotLost'
  BY <1>1, <1>k DEF NotLost, SetOf
<1>2. ASSUME UNCHANGED <<file, rpc, rbuf, rsize>>, during \subseteq during', excused \subseteq excused'
      PROVE  ReadInv'
  BY <1>2, <1>k, Zenon DEF ReadInv, Overlaps
<1>3. ASSUME UNCHANGED <<file, wpc, wsize, wbuf>>, excused \subseteq excused'
      PROVE  HeaderFirst'
  BY <1>3, <1>k DEF HeaderFirst
<1> USE DEF fvars, wvars, rvars, faultvars, Fault
<1>4. CASE SendMsg \/ Create
  <2>1. UNCHANGED <<file, wpc, wsize, wbuf>> \/ (UNCHANGED <<file, wsize, wbuf>> /\ wpc' = "create")
    BY <1>4 DEF SendMsg, Create
  <2>2. /\ UNCHANGED <<rbuf, got, rpc, rsize>> /\ UNCHANGED <<stored, during, excused>>
        /\ file' = file
    BY <1>4 DEF SendMsg, Create
  <2>3. HeaderFirst'
    BY <1>k, <2>1, <2>2 DEF HeaderFirst
  <2>4. NotLost'
    BY <1>1, <2>2
  <2>5. ReadInv'
    BY <1>2, <2>2
  <2> QED BY <2>3, <2>4, <2>5 DEF KeepInv
<1>5. CASE WriteSize
  <2>1. /\ wbuf' = qWriteMsg /\ wpc' = "bodies" /\ wsize' = Len(file) /\ qWriteMsg # <<>>
        /\ UNCHANGED <<file, rpc, rbuf, rsize, got, stored>> /\ during \subseteq during'
        /\ excused' = excused \cup (IF rpc = "header" THEN SetOf(qWriteMsg)
                                    ELSE IF file = <<>> THEN {Head(qWriteMsg)} ELSE {})
    BY <1>5 DEF WriteSize
  <2>2. excused \subseteq excused'
    BY <2>1
  <2>3. Len(file) = 0 => qWriteMsg[1] \in excused'
    <3>1. Head(qWriteMsg) \in SetOf(qWriteMsg) /\ Head(qWriteMsg) = qWriteMsg[1]
      BY <1>0, <2>1, SetOfType
    <3>2. Len(file) = 0 => file = <<>>
      BY <1>0, EmptySeq
    <3> QED BY <2>1, <3>1, <3>2
  <2>4. HeaderFirst'
    BY <1>k, <1>0, <2>1, <2>2, <2>3 DEF HeaderFirst
  <2> QED BY <1>1, <1>2, <2>1, <2>2, <2>4 DEF KeepInv
<1>6. CASE WriteBodies \/ TornWrite
  <2>1. PICK n \in 0..Len(wbuf) :
           /\ Len(file') = wsize + n /\ Len(file) <= Len(file')
           /\ \A i \in 1..Len(file') :
                file'[i] = IF i > wsize THEN Msg(wbuf[i - wsize])
                           ELSE IF i <= Len(file) THEN file[i] ELSE Blank
           /\ stored' \subseteq stored \cup {wbuf[i] : i \in 1..n}
    BY <1>6, BodiesStep
  <2>2. /\ wpc = "bodies" /\ wpc' # "bodies"
        /\ UNCHANGED <<rpc, rbuf, rsize, got, during, excused>>
    BY <1>6 DEF WriteBodies, TornWrite
  <2>3. /\ wsize = 0 => wbuf[1] \in excused
        /\ Len(file) <= wsize \/ (Len(file) = 1 /\ file[1][1] = "hdr")
        /\ rpc \in {"read", "reset"} => SetOf(wbuf) \subseteq during
    BY <1>k, <2>2 DEF HeaderFirst, WriteInv
  <2>4. \A i \in 1..n : wbuf[i] \in SetOf(wbuf) /\ wbuf[i] \in 1..MsgBound
    <3> TAKE i \in 1..n
    <3>1. i \in 1..Len(wbuf)
      BY <1>0
    <3> QED BY <3>1, <1>0, InSetOf, ElementOfSeq
  (* Slots that hold a message in the new file. *)
  <2>5. ASSUME NEW m \in 1..MsgBound, NEW i \in 1..Len(file'), file'[i] = Msg(m)
        PROVE  \/ i <= Len(file) /\ i <= wsize /\ file[i] = Msg(m)
               \/ i > wsize /\ wbuf[i - wsize] = m /\ m \in SetOf(wbuf)
    <3>1. m \in Nat /\ Msg(m) # Blank
      BY <1>0, SlotFacts
    <3>2. ASSUME i > wsize PROVE wbuf[i - wsize] = m /\ m \in SetOf(wbuf)
      <4>1. i - wsize \in 1..n
        BY <1>0, <2>1, <3>2
      <4>2. wbuf[i - wsize] \in Nat /\ Msg(wbuf[i - wsize]) = Msg(m)
        BY <1>0, <2>1, <2>4, <2>5, <3>2, <4>1, SMTT(30)
      <4>3. wbuf[i - wsize] = m
        BY <3>1, <4>2, SlotFacts
      <4> QED BY <2>4, <4>1, <4>3
    <3> QED BY <1>0, <2>1, <2>5, <3>1, <3>2
  (* Slots of the old file are kept, but for a header. *)
  <2>6. ASSUME NEW i \in 1..Len(file), i <= wsize \/ i >= 2
        PROVE  i \in 1..Len(file') /\ i <= wsize /\ file'[i] = file[i]
    <3>0. Len(file) <= wsize \/ Len(file) = 1
      BY <2>3
    <3>1. i <= wsize
      <4>1. CASE Len(file) <= wsize
        BY <1>n, <4>1
      <4>2. CASE Len(file) = 1
        <5>1. i = 1
          BY <4>2
        <5> QED BY <2>6, <5>1
      <4> QED BY <3>0, <4>1, <4>2
    <3> QED BY <1>0, <2>1, <3>1
  <2>7. NotLost'
    <3> SUFFICES ASSUME NEW m \in stored', m \notin excused
                 PROVE  Msg(m) \in SetOf(file)' \cup SetOf(rbuf) \cup SetOf(got)
      BY <2>2 DEF NotLost, SetOf
    <3>1. m \in 1..MsgBound
      BY <1>0
    <3>2. CASE m \in stored
      <4>1. Msg(m) \in SetOf(file) \cup SetOf(rbuf) \cup SetOf(got)
        BY <1>k, <3>2 DEF NotLost
      <4>2. ASSUME Msg(m) \in SetOf(file) PROVE Msg(m) \in SetOf(file)'
        <5>1. PICK i \in 1..Len(file) : file[i] = Msg(m)
          BY <1>00, <3>1, <4>2
        <5>2. i <= wsize \/ i >= 2
          <6>1. CASE Len(file) <= wsize
            BY <1>0, <6>1
          <6>2. CASE Len(file) = 1 /\ file[1][1] = "hdr"
            <7>1. file[1] = Msg(m)
              BY <5>1, <6>2
            <7> QED BY <7>1, <6>2 DEF Msg
          <6> QED BY <2>3, <6>1, <6>2
        <5> QED BY <1>00, <2>6, <3>1, <5>1, <5>2
      <4> QED BY <4>1, <4>2
    <3>3. CASE m \notin stored
      <4>1. PICK j \in 1..n : m = wbuf[j]
        BY <2>1, <3>3
      <4>2. /\ wsize + j \in 1..Len(file') /\ wsize + j > wsize /\ (wsize + j) - wsize = j
        BY <1>0, <2>1
      <4>3. file'[wsize + j] = Msg(m)
        BY <2>1, <4>1, <4>2
      <4> QED BY <1>00, <3>1, <4>2, <4>3
    <3> QED BY <3>2, <3>3
  <2>8. HeaderFirst'
    <3> SUFFICES ASSUME NEW m \in 1..MsgBound, Len(file') >= 1, file'[1] = Msg(m)
                 PROVE  m \in excused
      BY <2>2 DEF HeaderFirst
    <3>1. 1 \in 1..Len(file')
      BY <1>0
    <3>2. CASE 1 <= Len(file) /\ file[1] = Msg(m)
      BY <1>k, <3>2 DEF HeaderFirst
    <3>3. CASE 1 > wsize /\ wbuf[1 - wsize] = m
      <4>1. wsize = 0 /\ 1 - wsize = 1
        BY <1>0, <3>3
      <4> QED BY <2>3, <3>3, <4>1
    <3> QED BY <2>5, <3>1, <3>2, <3>3
  <2>9. ReadInv'
    <3>1. ASSUME rpc \in {"read", "reset"}, NEW b \in Nat, 2 <= b,
                 \A i \in b..Len(file) : Overlaps(i)
          PROVE  \A i \in b..Len(file') : Overlaps(i)'
      <4> SUFFICES ASSUME NEW i \in b..Len(file'), NEW m \in 1..MsgBound, file'[i] = Msg(m)
                   PROVE  m \in during \cup excused
        BY <2>2 DEF Overlaps
      <4>1. i \in 1..Len(file')
        BY <3>1
      <4>2. CASE i <= Len(file) /\ file[i] = Msg(m)
        BY <3>1, <4>2, <1>0 DEF Overlaps
      <4>3. CASE m \in SetOf(wbuf)
        BY <2>3, <3>1, <4>3
      <4> QED BY <2>5, <4>1, <4>2, <4>3
    <3>2. rpc' = "read" => \A i \in (rsize + 1)..Len(file') : Overlaps(i)'
      <4> SUFFICES ASSUME rpc = "read"
                   PROVE  \A i \in (rsize + 1)..Len(file') : Overlaps(i)'
        BY <2>2
      <4>1. rsize \in Nat /\ 2 <= rsize + 1 /\ rsize + 1 \in Nat
        BY DEF IInv, TypeOK, SizeInv
      <4>2. \A i \in (rsize + 1)..Len(file) : Overlaps(i)
        BY <1>k DEF ReadInv
      <4> DEFINE b == rsize + 1
      <4> HIDE DEF b
      <4>3. b \in Nat /\ 2 <= b /\ \A i \in b..Len(file) : Overlaps(i)
        BY <4>1, <4>2 DEF b
      <4>4. \A i \in b..Len(file') : Overlaps(i)'
        BY <3>1, <4>3
      <4> QED BY <4>4 DEF b
    <3>3. ASSUME rpc = "reset"
          PROVE  /\ Len(rbuf) + 1 <= Len(file')
                 /\ \A i \in 1..Len(rbuf) : rbuf[i] = file'[i + 1]
                 /\ \A i \in (Len(rbuf) + 2)..Len(file') : Overlaps(i)'
      <4>1. /\ Len(rbuf) + 1 <= Len(file)
            /\ \A i \in 1..Len(rbuf) : rbuf[i] = file[i + 1]
            /\ \A i \in (Len(rbuf) + 2)..Len(file) : Overlaps(i)
        BY <1>k, <3>3 DEF ReadInv
      <4>2. \A i \in 1..Len(rbuf) : i + 1 \in 1..Len(file) /\ i + 1 >= 2
        BY <1>0, <4>1
      <4>3. \A i \in 1..Len(rbuf) : rbuf[i] = file'[i + 1]
        BY <2>6, <4>1, <4>2
      <4> DEFINE b == Len(rbuf) + 2
      <4>5. b \in Nat /\ 2 <= b
        BY <1>0
      <4>6. \A i \in b..Len(file) : Overlaps(i)
        BY <4>1
      <4>4. Len(rbuf) + 1 <= Len(file')
        BY <1>0, <2>1, <4>1
      <4> HIDE DEF b
      <4>7. \A i \in b..Len(file') : Overlaps(i)'
        BY <3>1, <3>3, <4>5, <4>6
      <4> QED BY <4>3, <4>4, <4>7 DEF b
    <3> QED BY <2>2, <3>2, <3>3 DEF ReadInv
  <2> QED BY <2>7, <2>8, <2>9 DEF KeepInv
<1>7. ASSUME NEW k \in Int, file' = WriteHeaderAt(file, k), wpc' # "bodies" \/ UNCHANGED <<wpc, wsize, wbuf>>,
             rpc' \in {"read", "reset"} => rpc' = rpc,
             UNCHANGED <<rbuf, rsize, got, stored, during, excused>>
      PROVE  Goal
  <2>1. /\ file'[1] = Hdr(k)
        /\ (Len(file') = Len(file) /\ Len(file) >= 1) \/ (Len(file') = 1 /\ Len(file) = 0)
        /\ \A i \in 2..Len(file') : file'[i] = file[i]
    <3> HIDE DEF Goal
    <3>1. file \in Seq(Slots) /\ k \in Int /\ file' = WriteHeaderAt(file, k)
      BY <1>0, <1>7
    <3> DEFINE g == WriteHeaderAt(file, k)
    <3>2. /\ g[1] = Hdr(k)
          /\ (Len(g) = Len(file) /\ Len(file) >= 1) \/ (Len(g) = 1 /\ Len(file) = 0)
          /\ \A i \in 2..Len(g) : g[i] = file[i]
      BY <3>1, HeaderStep
    <3> QED BY <3>1, <3>2, Zenon
  <2>0. Len(file') = Len(file) \/ (Len(file') = 1 /\ Len(file) = 0)
    BY <2>1
  <2>2. ASSUME NEW m \in 1..MsgBound PROVE file'[1] # Msg(m)
    BY <2>1, SlotFacts
  <2>3. NotLost'
    <3> SUFFICES ASSUME NEW m \in stored, m \notin excused
                 PROVE  Msg(m) \in SetOf(file)' \cup SetOf(rbuf) \cup SetOf(got)
      BY <1>7 DEF NotLost, SetOf
    <3>1. m \in 1..MsgBound /\ Msg(m) \in SetOf(file) \cup SetOf(rbuf) \cup SetOf(got)
      BY <1>0, <1>k DEF NotLost
    <3>2. ASSUME NEW i \in 1..Len(file), file[i] = Msg(m)
          PROVE  i \in 1..Len(file') /\ file'[i] = Msg(m)
      <4>1. i # 1
        BY <1>k, <1>0, <3>1, <3>2 DEF HeaderFirst
      <4>2. i \in 2..Len(file')
        BY <1>0, <2>1, <4>1
      <4> QED BY <2>1, <3>2, <4>2
    <3> QED BY <1>00, <3>1, <3>2
  <2>4. HeaderFirst'
    <3>1. wpc' = "bodies" => /\ wsize' = 0 => wbuf'[1] \in excused'
                             /\ Len(file') <= wsize' \/ (Len(file') = 1 /\ file'[1][1] = "hdr")
      <4> SUFFICES ASSUME wpc' = "bodies"
                   PROVE  /\ wsize = 0 => wbuf[1] \in excused
                          /\ Len(file') <= wsize \/ (Len(file') = 1 /\ file'[1][1] = "hdr")
        BY <1>7
      <4>1. file'[1][1] = "hdr"
        BY <2>1 DEF Hdr
      <4>2. /\ wsize = 0 => wbuf[1] \in excused
            /\ Len(file) <= wsize \/ Len(file) = 1
        BY <1>k, <1>7 DEF HeaderFirst
      <4>3. Len(file') <= wsize \/ Len(file') = 1
        BY <1>0, <2>0, <4>2
      <4> QED BY <4>1, <4>2, <4>3
    <3> QED BY <2>2, <3>1, Zenon DEF HeaderFirst
  <2>5. ReadInv'
    <3>1. ASSUME NEW b \in Nat, b >= 2, \A i \in b..Len(file) : Overlaps(i)
          PROVE  \A i \in b..Len(file') : Overlaps(i)'
      <4> SUFFICES ASSUME NEW i, i \in b..Len(file') PROVE Overlaps(i)'
        OBVIOUS
      <4>1. i \in 2..Len(file') /\ i \in b..Len(file)
        <5>1. b \in Nat /\ b >= 2
          BY <3>1
        <5>2. PICK n \in Nat, l \in Nat : n = Len(file') /\ l = Len(file)
          BY <1>n
        <5>3. n = l \/ (n = 1 /\ l = 0)
          BY <2>0, <5>2
        <5>4. i \in b..n
          BY <5>2
        <5>5. i \in 2..n /\ i \in b..l
          BY <5>1, <5>3, <5>4
        <5> QED BY <5>2, <5>5
      <4>2. file'[i] = file[i] /\ Overlaps(i)
        BY <2>1, <3>1, <4>1
      <4> QED BY <1>7, <4>2 DEF Overlaps
    <3>2. ASSUME rpc' = "read" PROVE \A i \in (rsize + 1)..Len(file') : Overlaps(i)'
      <4> DEFINE b == rsize + 1
      <4>1. b \in Nat /\ b >= 2 /\ \A i \in b..Len(file) : Overlaps(i)
        BY <1>k, <1>7, <3>2 DEF IInv, TypeOK, SizeInv, ReadInv
      <4> HIDE DEF b
      <4>2. \A i \in b..Len(file') : Overlaps(i)'
        BY <3>1, <4>1
      <4> QED BY <4>2 DEF b
    <3>3. ASSUME rpc' = "reset"
          PROVE  /\ Len(rbuf) + 1 <= Len(file')
                 /\ \A i \in 1..Len(rbuf) : rbuf[i] = file'[i + 1]
                 /\ \A i \in (Len(rbuf) + 2)..Len(file') : Overlaps(i)'
      <4>1. /\ Len(rbuf) + 1 <= Len(file)
            /\ \A i \in 1..Len(rbuf) : rbuf[i] = file[i + 1]
            /\ \A i \in (Len(rbuf) + 2)..Len(file) : Overlaps(i)
        BY <1>k, <1>7, <3>3 DEF ReadInv
      <4>2. \A i \in 1..Len(rbuf) : i + 1 \in 2..Len(file')
        BY <1>0, <2>1, <4>1
      <4>3. \A i \in 1..Len(rbuf) : rbuf[i] = file'[i + 1]
        BY <2>1, <4>1, <4>2
      <4> DEFINE b == Len(rbuf) + 2
      <4>4. b \in Nat /\ b >= 2 /\ \A i \in b..Len(file) : Overlaps(i)
        BY <1>0, <4>1
      <4>5. Len(rbuf) + 1 <= Len(file')
        BY <1>0, <2>1, <4>1
      <4> HIDE DEF b
      <4>6. \A i \in b..Len(file') : Overlaps(i)'
        BY <3>1, <4>4
      <4> QED BY <4>3, <4>5, <4>6 DEF b
    <3>4. rpc' = "read" => \A i \in (rsize' + 1)..Len(file') : Overlaps(i)'
      BY <1>7, <3>2
    <3>5. rpc' = "reset" => /\ Len(rbuf') + 1 <= Len(file')
                            /\ \A i \in 1..Len(rbuf') : rbuf'[i] = file'[i + 1]
                            /\ \A i \in (Len(rbuf') + 2)..Len(file') : Overlaps(i)'
      BY <1>7, <3>3
    <3> QED BY <3>4, <3>5, Zenon DEF ReadInv
  <2> QED BY <2>3, <2>4, <2>5 DEF KeepInv
<1>8. CASE CreateHeader
  BY <1>7, <1>8 DEF CreateHeader
<1>9. CASE WriteHeader
  <2>1. wsize - 1 + Len(wbuf) \in Int
    BY <1>0
  <2>2. /\ file' = WriteHeaderAt(file, wsize - 1 + Len(wbuf)) /\ wpc' # "bodies" /\ rpc' = rpc
        /\ UNCHANGED <<rbuf, rsize, got, stored, during, excused>>
    BY <1>9 DEF WriteHeader
  <2> HIDE DEF Goal
  <2> QED BY <1>7, <2>1, <2>2
<1>10. CASE ReadHeader
  BY <1>7, <1>10 DEF ReadHeader
<1>11. CASE ReadSize
  <2>1. /\ UNCHANGED <<file, rbuf, got, stored, excused, wpc, wsize, wbuf>>
        /\ rsize' = Len(file) /\ rpc' = "read"
    BY <1>11 DEF ReadSize
  <2>2. ReadInv'
    BY <1>0, <2>1 DEF ReadInv
  <2> QED BY <1>1, <1>3, <2>1, <2>2 DEF KeepInv
<1>12. CASE ReadBodies
  <2>1. /\ rpc = "read" /\ rbuf = <<>> /\ rsize \in Nat
        /\ 2 <= rsize /\ rsize <= Len(file)
        /\ UNCHANGED <<fvars, wvars, got, stored, excused, faultvars>>
        /\ \/ /\ rpc' = "reset" /\ during' = during
              /\ Len(rbuf') = rsize - 1
              /\ \A i \in 1..Len(rbuf') : rbuf'[i] = file[i + 1]
           \/ rpc' = "idle" /\ during' = {} /\ rbuf' = rbuf
    BY <1>12, ReadStep
  <2>2. NotLost'
    <3>1. SetOf(rbuf) = {}
      BY <2>1 DEF SetOf
    <3> QED BY <1>k, <2>1, <3>1 DEF NotLost, SetOf
  <2>3. ReadInv'
    <3>1. CASE rpc' = "idle"
      BY <3>1 DEF ReadInv
    <3>2. CASE rpc' # "idle"
      <4>1. /\ rpc' = "reset" /\ during' = during /\ Len(rbuf') = rsize - 1
            /\ \A i \in 1..Len(rbuf') : rbuf'[i] = file[i + 1]
        BY <2>1, <3>2
      <4>2. Len(rbuf') + 2 = rsize + 1 /\ Len(rbuf') + 1 <= Len(file')
        BY <2>1, <4>1
      <4>3. \A i \in (rsize + 1)..Len(file) : Overlaps(i)
        BY <1>k, <2>1 DEF ReadInv
      <4>4. \A i \in (Len(rbuf') + 2)..Len(file') : Overlaps(i)'
        BY <2>1, <4>1, <4>2, <4>3 DEF Overlaps
      <4> QED BY <2>1, <4>1, <4>2, <4>4 DEF ReadInv
    <3> QED BY <3>1, <3>2
  <2>4. HeaderFirst'
    BY <1>3, <2>1
  <2> QED BY <2>2, <2>3, <2>4 DEF KeepInv
<1>13. CASE ReadReset
  <2>1. /\ rpc = "reset" /\ file' = <<>> /\ rpc' = "header" /\ excused' = excused \cup during
        /\ UNCHANGED <<wpc, wsize, wbuf, rbuf, got, stored>>
    BY <1>13 DEF ReadReset
  <2>2. Len(file') = 0
    BY <2>1
  <2>3. HeaderFirst'
    BY <1>k, <1>0, <2>1, <2>2 DEF HeaderFirst
  <2>4. NotLost'
    <3> SUFFICES ASSUME NEW m \in stored, m \notin excused, m \notin during
                 PROVE  Msg(m) \in SetOf(rbuf) \cup SetOf(got)
      BY <2>1 DEF NotLost, SetOf
    <3>1. m \in 1..MsgBound /\ Msg(m) \in SetOf(file) \cup SetOf(rbuf) \cup SetOf(got)
      BY <1>0, <1>k DEF NotLost
    <3>2. ASSUME NEW i \in 1..Len(file), file[i] = Msg(m) PROVE Msg(m) \in SetOf(rbuf)
      <4>1. /\ \A j \in 1..Len(rbuf) : rbuf[j] = file[j + 1]
            /\ \A j \in (Len(rbuf) + 2)..Len(file) : Overlaps(j)
        BY <1>k, <2>1 DEF ReadInv
      <4>2. i # 1
        BY <1>k, <1>0, <3>1, <3>2 DEF HeaderFirst
      <4>3. i \notin (Len(rbuf) + 2)..Len(file)
        BY <3>1, <3>2, <4>1 DEF Overlaps
      <4>4. i - 1 \in 1..Len(rbuf) /\ (i - 1) + 1 = i
        BY <1>0, <4>2, <4>3
      <4>5. rbuf[i - 1] = Msg(m)
        BY <3>2, <4>1, <4>4
      <4> QED BY <1>00, <3>1, <4>4, <4>5
    <3> QED BY <1>00, <3>1, <3>2
  <2>5. ReadInv'
    BY <2>1 DEF ReadInv
  <2> QED BY <2>3, <2>4, <2>5 DEF KeepInv
<1>14. CASE PushRead
  <2>1. /\ got' = got \o rbuf /\ rpc' = "idle" /\ UNCHANGED <<file, wpc, wsize, wbuf, stored, excused>>
    BY <1>14 DEF PushRead
  <2>2. SetOf(rbuf) \cup SetOf(got) \subseteq SetOf(got)'
    <3>1. SetOf(got)' = SetOf(got \o rbuf)
      BY <2>1 DEF SetOf
    <3>2. /\ got \o rbuf \in Seq(Slots) /\ Len(got) \in Nat
          /\ Len(got \o rbuf) = Len(got) + Len(rbuf)
          /\ \A i \in 1..(Len(got) + Len(rbuf)) :
               (got \o rbuf)[i] = IF i <= Len(got) THEN got[i] ELSE rbuf[i - Len(got)]
      BY <1>0, ConcatProperties
    <3>3. ASSUME NEW i \in 1..Len(got) PROVE got[i] \in SetOf(got \o rbuf)
      <4>1. i \in 1..(Len(got) + Len(rbuf)) /\ i <= Len(got)
        BY <1>0, <3>2
      <4>2. (got \o rbuf)[i] = got[i]
        BY <3>2, <4>1
      <4> QED BY <3>2, <4>1, <4>2, InSetOf
    <3>4. ASSUME NEW i \in 1..Len(rbuf) PROVE rbuf[i] \in SetOf(got \o rbuf)
      <4>1. /\ Len(got) + i \in 1..(Len(got) + Len(rbuf)) /\ ~(Len(got) + i <= Len(got))
            /\ (Len(got) + i) - Len(got) = i
        BY <1>0, <3>2
      <4>2. (got \o rbuf)[Len(got) + i] = rbuf[i]
        BY <3>2, <4>1
      <4> QED BY <3>2, <4>1, <4>2, InSetOf
    <3>5. ASSUME NEW x \in SetOf(rbuf) \cup SetOf(got) PROVE x \in SetOf(got \o rbuf)
      <4>1. (\E i \in 1..Len(rbuf) : rbuf[i] = x) \/ (\E i \in 1..Len(got) : got[i] = x)
        BY <1>0, InSetOf
      <4> QED BY <3>3, <3>4, <4>1
    <3> QED BY <3>1, <3>5
  <2>3. SetOf(file)' = SetOf(file)
    BY <2>1 DEF SetOf
  <2>4. NotLost'
    BY <1>k, <2>1, <2>2, <2>3 DEF NotLost
  <2>5. ReadInv'
    BY <2>1 DEF ReadInv
  <2> QED BY <1>3, <2>1, <2>4, <2>5 DEF KeepInv
<1>15. CASE WriterCrash
  <2>1. HeaderFirst'
    BY <1>15, <1>k DEF WriterCrash, HeaderFirst
  <2> QED BY <1>15, <1>1, <1>2, <2>1 DEF WriterCrash, KeepInv
<1>16. CASE ReaderCrash
  <2>1. /\ excused' = excused \cup {m \in 1..MsgBound :
                                     rpc \in {"header", "push"} /\ Msg(m) \in SetOf(rbuf)}
        /\ rpc' = "idle" /\ rbuf' = <<>>
        /\ UNCHANGED <<file, got, stored, wpc, wsize, wbuf>>
    BY <1>16 DEF ReaderCrash
  <2>2. NotLost'
    <3> SUFFICES ASSUME NEW m \in stored, m \notin excused'
                 PROVE  Msg(m) \in SetOf(file) \cup SetOf(got)
      BY <2>1 DEF NotLost, SetOf
    <3>1. /\ m \in 1..MsgBound /\ m \notin excused
          /\ Msg(m) \in SetOf(file) \cup SetOf(rbuf) \cup SetOf(got)
      BY <1>0, <1>k, <2>1 DEF NotLost
    <3>2. ASSUME Msg(m) \in SetOf(rbuf) PROVE Msg(m) \in SetOf(file)
      <4>1. PICK i \in 1..Len(rbuf) : rbuf[i] = Msg(m)
        BY <1>00, <3>1, <3>2
      <4>2. rpc \notin {"header", "push"}
        BY <2>1, <3>1, <3>2
      <4>3. rbuf # <<>>
        BY <1>0, <4>1, EmptySeq
      <4>4. rpc = "reset"
        BY <4>2, <4>3 DEF IInv, TypeOK
      <4>5. Len(rbuf) + 1 <= Len(file) /\ rbuf[i] = file[i + 1]
        BY <1>k, <4>4 DEF ReadInv
      <4>6. i + 1 \in 1..Len(file) /\ file[i + 1] = Msg(m)
        BY <1>0, <4>1, <4>5
      <4> QED BY <1>00, <3>1, <4>6
    <3> QED BY <3>1, <3>2
  <2>3. ReadInv'
    BY <2>1 DEF ReadInv
  <2>4. HeaderFirst'
    <3>1. excused \subseteq excused'
      BY <2>1
    <3> QED BY <1>3, <2>1, <3>1
  <2> QED BY <2>2, <2>3, <2>4 DEF KeepInv
<1>17. CASE ResetFails
  <2>1. rpc' = "push" /\ UNCHANGED <<file, rbuf, got, stored, excused, wpc, wsize, wbuf>>
    BY <1>17 DEF ResetFails
  <2>2. ReadInv'
    BY <2>1 DEF ReadInv
  <2> QED BY <1>1, <1>3, <2>1, <2>2 DEF KeepInv
<1>18. CASE UNCHANGED vars
  BY <1>18, <1>1, <1>2, <1>3 DEF vars, KeepInv
<1> HIDE DEF Goal
<1> QED
  BY <1>4, <1>5, <1>6, <1>8, <1>9, <1>10, <1>11, <1>12, <1>13, <1>14, <1>15, <1>16, <1>17,
     <1>18 DEF Next, WriterStep, ReaderStep

LEMMA WriteInvariant == Spec => []WriteInv
<1>1. Init => WriteInv
  BY DEF Init, WriteInv
<1> QED
  BY <1>1, NextWriteInv, InductiveIInv, PTL DEF Spec

(* A message in the file is in the file or was read, for any interleaving  *)
(* of writes and reads, crashes, torn writes and failed resets, but in the *)
(* three cases that NotLost names (WriteMsgFile, ReadMsgFile).             *)
THEOREM NoOtherLoss == Spec => []NotLost
<1>1. Init => KeepInv
  BY InitKeepInv
<1>2. IInv /\ IInv' /\ WriteInv /\ KeepInv /\ [Next]_vars => KeepInv'
  BY NextKeepInv
<1>3. KeepInv => NotLost
  BY DEF KeepInv
<1> QED
  BY <1>1, <1>2, <1>3, InductiveIInv, WriteInvariant, PTL DEF Spec

-----------------------------------------------------------------------------
(* Messages are read once and in order. *)

(* The slots behind the header, and with them all that was read. *)
Bodies == {file[i] : i \in 2..Len(file)}
Seen == Bodies \cup SetOf(rbuf) \cup SetOf(got)

(* What the writer has in hand is in the order of SendMsg, and older than  *)
(* what waits in the queue.                                                *)
QueueInv ==
  /\ \A i, j \in 1..Len(qWriteMsg) : i < j => qWriteMsg[i] < qWriteMsg[j]
  /\ \A i, j \in 1..Len(wbuf) : i < j => wbuf[i] < wbuf[j]
  /\ \A i \in 1..Len(wbuf) : \A j \in 1..Len(qWriteMsg) : wbuf[i] < qWriteMsg[j]
  /\ \A i \in 1..Len(wbuf) : wbuf[i] <= sent
  /\ \A i \in 1..Len(qWriteMsg) : qWriteMsg[i] <= sent

(* A message that was written is older than all that are still to be       *)
(* written.                                                                *)
Older(x) ==
  /\ x[1] = "msg" /\ x[2] <= sent
  /\ \A i \in 1..Len(qWriteMsg) : x[2] < qWriteMsg[i]
  /\ wpc = "bodies" => \A i \in 1..Len(wbuf) : x[2] < wbuf[i]

SeenIsOlder == \A x \in Seen : Older(x)

(* Zeros from a hole come before nothing. *)
Before(x, y) == y # Blank => x[2] < y[2]

(* In the file, in what the reader has in hand and in what it has read the *)
(* messages are in order, and what was read comes before what is in hand   *)
(* and in the file, but for what was read from a file not emptied.         *)
OrderInv ==
  /\ \A i, j \in 2..Len(file) : i < j => Before(file[i], file[j])
  /\ \A i, j \in 1..Len(rbuf) : i < j => Before(rbuf[i], rbuf[j])
  /\ \A i, j \in 1..Len(got) : i < j => Before(got[i], got[j]) \/ got[j] \in again
  /\ \A i \in 1..Len(got) : \A y \in Bodies \cup SetOf(rbuf) : Before(got[i], y) \/ y \in again
  /\ rpc \in {"header", "push"} =>
       \A i \in 1..Len(rbuf) : \A y \in Bodies : Before(rbuf[i], y) \/ y \in again

LEMMA NextQueueInv == IInv /\ QueueInv /\ [Next]_vars => QueueInv'
<1> SUFFICES ASSUME IInv, QueueInv, [Next]_vars PROVE QueueInv'
  OBVIOUS
<1>0. /\ qWriteMsg \in Seq(1..MsgBound) /\ Len(qWriteMsg) \in Nat
      /\ wbuf \in Seq(1..MsgBound) /\ Len(wbuf) \in Nat /\ sent \in Nat /\ MsgBound \in Nat
  BY FileAssumption DEF IInv, TypeOK
<1> USE DEF fvars, wvars, rvars, faultvars, Fault
<1>1. CASE SendMsg
  <2>1. qWriteMsg' = Append(qWriteMsg, sent + 1) /\ sent' = sent + 1 /\ wbuf' = wbuf
    BY <1>1 DEF SendMsg
  <2>2. /\ Len(qWriteMsg') = Len(qWriteMsg) + 1
        /\ \A i \in 1..Len(qWriteMsg) : qWriteMsg'[i] = qWriteMsg[i]
        /\ qWriteMsg'[Len(qWriteMsg) + 1] = sent + 1
    BY <1>0, <2>1
  <2>3. ASSUME NEW i, i \in 1..Len(qWriteMsg')
        PROVE  i \in 1..Len(qWriteMsg) \/ i = Len(qWriteMsg) + 1
    <3>1. PICK n \in Nat : n = Len(qWriteMsg)
      BY <1>0
    <3>2. i \in 1..(n + 1)
      BY <2>2, <2>3, <3>1
    <3> QED BY <3>1, <3>2
  <2>4. \A i \in 1..Len(qWriteMsg) : qWriteMsg[i] \in 1..MsgBound /\ qWriteMsg[i] < sent + 1
    BY <1>0, ElementOfSeq DEF QueueInv
  <2>5. \A i \in 1..Len(wbuf) : wbuf[i] \in 1..MsgBound /\ wbuf[i] < sent + 1
    BY <1>0, ElementOfSeq DEF QueueInv
  <2>6. \A i, j \in 1..Len(qWriteMsg') : i < j => qWriteMsg'[i] < qWriteMsg'[j]
    <3> SUFFICES ASSUME NEW i, NEW j, i \in 1..Len(qWriteMsg'), j \in 1..Len(qWriteMsg'), i < j
                 PROVE  qWriteMsg'[i] < qWriteMsg'[j]
      OBVIOUS
    <3>1. PICK n \in Nat : n = Len(qWriteMsg)
      BY <1>0
    <3>2. i \in 1..(n + 1) /\ j \in 1..(n + 1)
      BY <2>2, <3>1
    <3>3. i \in 1..n
      BY <3>2
    <3>4. CASE j \in 1..n
      BY <2>2, <3>1, <3>3, <3>4 DEF QueueInv
    <3>5. CASE j = n + 1
      BY <2>2, <2>4, <3>1, <3>3, <3>5
    <3> QED BY <3>2, <3>4, <3>5
  <2>7. \A i \in 1..Len(wbuf) : \A j \in 1..Len(qWriteMsg') : wbuf[i] < qWriteMsg'[j]
    <3> SUFFICES ASSUME NEW i \in 1..Len(wbuf), NEW j, j \in 1..Len(qWriteMsg')
                 PROVE  wbuf[i] < qWriteMsg'[j]
      OBVIOUS
    <3>1. CASE j \in 1..Len(qWriteMsg)
      BY <2>2, <3>1 DEF QueueInv
    <3>2. CASE j = Len(qWriteMsg) + 1
      BY <2>2, <2>5, <3>2
    <3> QED BY <2>3, <3>1, <3>2
  <2>8. \A i \in 1..Len(qWriteMsg') : qWriteMsg'[i] <= sent + 1
    <3> SUFFICES ASSUME NEW i, i \in 1..Len(qWriteMsg') PROVE qWriteMsg'[i] <= sent + 1
      OBVIOUS
    <3>1. CASE i \in 1..Len(qWriteMsg)
      <4>1. qWriteMsg'[i] = qWriteMsg[i]
        BY <2>2, <3>1
      <4>2. qWriteMsg[i] \in 1..MsgBound /\ qWriteMsg[i] < sent + 1
        BY <2>4, <3>1
      <4> HIDE DEF QueueInv
      <4>3. qWriteMsg[i] <= sent + 1
        BY <1>0, <4>2
      <4> QED BY <4>1, <4>3
    <3>2. CASE i = Len(qWriteMsg) + 1
      BY <1>0, <2>2, <3>2
    <3> QED BY <2>3, <3>1, <3>2
  <2>9. \A i \in 1..Len(wbuf) : wbuf[i] <= sent + 1
    BY <1>0, <2>5
  <2>10. \A i, j \in 1..Len(wbuf) : i < j => wbuf[i] < wbuf[j]
    BY DEF QueueInv
  <2> QED BY <2>1, <2>6, <2>7, <2>8, <2>9, <2>10 DEF QueueInv
<1>2. ASSUME sent' = sent, wbuf' = qWriteMsg \/ wbuf' = wbuf \/ wbuf' = <<>>,
             qWriteMsg' = <<>> \/ (qWriteMsg' = qWriteMsg /\ wbuf' # qWriteMsg)
               \/ UNCHANGED <<wbuf, qWriteMsg>>
      PROVE  QueueInv'
  <2>1. Len(<<>>) = 0 /\ \A i : i \notin 1..0
    OBVIOUS
  <2> QED BY <1>2, <2>1 DEF QueueInv
<1>3. CASE WriteSize BY <1>2, <1>3 DEF WriteSize
<1>4. CASE WriteHeader
  <2>1. wbuf' = <<>> /\ qWriteMsg' = qWriteMsg /\ sent' = sent
    BY <1>4 DEF WriteHeader
  <2>2. Len(wbuf') = 0 /\ \A i : i \notin 1..0
    BY <2>1
  <2> QED BY <2>1, <2>2 DEF QueueInv
<1>5. CASE WriterCrash \/ TornWrite BY <1>2, <1>5 DEF WriterCrash, TornWrite
<1>6. CASE \/ Create \/ CreateHeader \/ WriteBodies \/ ReadSize \/ ReadBodies \/ ReadReset
           \/ ReadHeader \/ PushRead \/ ReaderCrash \/ ResetFails \/ UNCHANGED vars
  <2>1. UNCHANGED <<sent, wbuf, qWriteMsg>>
    BY <1>6 DEF Create, CreateHeader, WriteBodies, ReadSize, ReadBodies, ReadReset, ReadHeader,
         PushRead, ReaderCrash, ResetFails, vars
  <2> QED BY <1>2, <2>1
<1> QED
  BY <1>1, <1>3, <1>4, <1>5, <1>6 DEF Next, WriterStep, ReaderStep

(* But for a write, no step moves a slot behind the header or adds one. *)
LEMMA OtherSteps ==
  ASSUME IInv, [Next]_vars, ~(WriteBodies \/ TornWrite)
  PROVE  \A i : i \in 2..Len(file') => i \in 2..Len(file) /\ file'[i] = file[i]
<1>0. file \in Seq(Slots) /\ Len(file) \in Nat /\ wsize \in Nat /\ Len(wbuf) \in Nat
  BY DEF IInv, TypeOK
<1> USE DEF fvars, wvars, rvars, faultvars, Fault
<1>1. ASSUME NEW k \in Int, file' = WriteHeaderAt(file, k)
      PROVE  \A i : i \in 2..Len(file') => i \in 2..Len(file) /\ file'[i] = file[i]
  <2> DEFINE g == WriteHeaderAt(file, k)
  <2>1. /\ (Len(g) = Len(file) /\ Len(file) >= 1) \/ (Len(g) = 1 /\ Len(file) = 0)
        /\ \A i \in 2..Len(g) : g[i] = file[i]
    BY <1>0, HeaderStep
  <2>2. file' = g
    BY <1>1
  <2> HIDE DEF g
  <2>3. PICK n, l \in Nat : n = Len(g) /\ l = Len(file)
    BY <1>0, <2>1
  <2>4. (n = l /\ l >= 1) \/ (n = 1 /\ l = 0)
    BY <2>1, <2>3
  <2>5. \A i : i \in 2..n => i \in 2..l
    BY <2>4
  <2> QED BY <2>1, <2>2, <2>3, <2>5
<1>2. CASE CreateHeader
  BY <1>1, <1>2 DEF CreateHeader
<1>3. CASE ReadHeader
  BY <1>1, <1>3 DEF ReadHeader
<1>4. CASE WriteHeader
  <2>1. wsize - 1 + Len(wbuf) \in Int /\ file' = WriteHeaderAt(file, wsize - 1 + Len(wbuf))
    BY <1>0, <1>4 DEF WriteHeader
  <2> QED BY <1>1, <2>1
<1>5. CASE ReadReset
  <2>1. Len(file') = 0
    BY <1>5 DEF ReadReset
  <2> QED BY <2>1
<1>6. CASE \/ SendMsg \/ Create \/ WriteSize \/ ReadSize \/ ReadBodies \/ PushRead
           \/ WriterCrash \/ ReaderCrash \/ ResetFails \/ UNCHANGED vars
  BY <1>6 DEF SendMsg, Create, WriteSize, ReadSize, ReadBodies, PushRead, WriterCrash,
       ReaderCrash, ResetFails, vars
<1> QED
  BY <1>2, <1>3, <1>4, <1>5, <1>6 DEF Next, WriterStep, ReaderStep

(* What the reader has in hand comes out of the file, and what it has read *)
(* was in hand.                                                            *)
LEMMA HandStep ==
  ASSUME IInv, [Next]_vars
  PROVE  /\ \/ rbuf' = rbuf \/ rbuf' = <<>>
            \/ /\ ReadBodies /\ file' = file
               /\ \A i : i \in 1..Len(rbuf') => i + 1 \in 2..Len(file) /\ rbuf'[i] = file[i + 1]
         /\ got' = got \/ (PushRead /\ got' = got \o rbuf /\ rbuf' = <<>> /\ file' = file)
<1> USE DEF fvars, wvars, rvars, faultvars, Fault
<1>1. CASE ReadBodies
  <2>1. /\ rsize \in Nat /\ 2 <= rsize /\ rsize <= Len(file) /\ got' = got /\ file' = file
        /\ \/ Len(rbuf') = rsize - 1 /\ \A i \in 1..Len(rbuf') : rbuf'[i] = file[i + 1]
           \/ rbuf' = rbuf
    BY <1>1, ReadStep
  <2>2. ASSUME Len(rbuf') = rsize - 1, NEW i, i \in 1..Len(rbuf') PROVE i + 1 \in 2..Len(file)
    <3>1. PICK l \in Nat : l = Len(file)
      BY DEF IInv, TypeOK
    <3>2. i \in 1..(rsize - 1) /\ rsize <= l
      BY <2>1, <2>2, <3>1
    <3> QED BY <2>1, <3>1, <3>2
  <2> QED BY <1>1, <2>1, <2>2
<1>2. CASE PushRead
  BY <1>2 DEF PushRead
<1>3. CASE \/ SendMsg \/ Create \/ CreateHeader \/ WriteSize \/ WriteBodies \/ WriteHeader
           \/ ReadSize \/ ReadReset \/ ReadHeader \/ WriterCrash \/ TornWrite \/ ReaderCrash
           \/ ResetFails \/ UNCHANGED vars
  BY <1>3 DEF SendMsg, Create, CreateHeader, WriteSize, WriteBodies, WriteHeader, ReadSize,
       ReadReset, ReadHeader, WriterCrash, TornWrite, ReaderCrash, ResetFails, vars
<1> QED
  BY <1>1, <1>2, <1>3 DEF Next, WriterStep, ReaderStep

(* A write adds what the writer has in hand, and zeros. *)
LEMMA BodiesAdded ==
  ASSUME IInv, WriteBodies \/ TornWrite, NEW y \in Bodies'
  PROVE  y \in Bodies \/ y = Blank \/ \E k \in 1..Len(wbuf) : y = Msg(wbuf[k])
<1>1. PICK n \in 0..Len(wbuf) :
         /\ Len(file') = wsize + n
         /\ \A i \in 1..Len(file') :
              file'[i] = IF i > wsize THEN Msg(wbuf[i - wsize])
                         ELSE IF i <= Len(file) THEN file[i] ELSE Blank
  BY BodiesStep
<1>2. wsize \in Nat /\ Len(wbuf) \in Nat /\ Len(file) \in Nat
  BY DEF IInv, TypeOK
<1>3. PICK i : i \in 2..Len(file') /\ y = file'[i]
  BY DEF Bodies
<1>4. i \in 2..(wsize + n) /\ i \in 1..Len(file')
  BY <1>1, <1>2, <1>3
<1>5. CASE i > wsize
  <2>1. i - wsize \in 1..Len(wbuf) /\ y = Msg(wbuf[i - wsize])
    BY <1>1, <1>2, <1>3, <1>4, <1>5
  <2> QED BY <2>1
<1>6. CASE i <= wsize /\ i <= Len(file)
  <2>1. i \in 2..Len(file) /\ y = file[i]
    BY <1>1, <1>2, <1>3, <1>4, <1>6
  <2> QED BY <2>1 DEF Bodies
<1>7. CASE i <= wsize /\ ~(i <= Len(file))
  <2>1. i \in 1..Len(file') /\ ~(i > wsize)
    BY <1>2, <1>4, <1>7
  <2>2. file'[i] = Blank
    BY <1>1, <1>7, <2>1
  <2> QED BY <1>3, <2>2
<1> QED
  BY <1>2, <1>4, <1>5, <1>6, <1>7

LEMMA SeenStep ==
  ASSUME IInv, IInv', [Next]_vars, NEW y \in Seen'
  PROVE  \/ y \in Seen
         \/ (WriteBodies \/ TornWrite) /\ (y = Blank \/ \E k \in 1..Len(wbuf) : y = Msg(wbuf[k]))
<1>0. /\ rbuf \in Seq(Slots) /\ rbuf' \in Seq(Slots) /\ got \in Seq(Slots) /\ got' \in Seq(Slots)
  BY DEF IInv, TypeOK
<1>1. SetOf(rbuf)' = SetOf(rbuf') /\ SetOf(got)' = SetOf(got')
  BY DEF SetOf
<1>2. CASE y \in Bodies'
  <2>1. CASE WriteBodies \/ TornWrite
    BY <1>2, <2>1, BodiesAdded DEF Seen
  <2>2. CASE ~(WriteBodies \/ TornWrite)
    <3>1. PICK i : i \in 2..Len(file') /\ y = file'[i]
      BY <1>2 DEF Bodies
    <3>2. i \in 2..Len(file) /\ y = file[i]
      BY <2>2, <3>1, OtherSteps
    <3> QED BY <3>2 DEF Bodies, Seen
  <2> QED BY <2>1, <2>2
<1>3. ASSUME y \in SetOf(rbuf') PROVE y \in Seen
  <2>1. PICK i : i \in 1..Len(rbuf') /\ y = rbuf'[i]
    BY <1>0, <1>3, InSetOf
  <2>2. CASE rbuf' = rbuf
    BY <1>3, <2>2 DEF Seen
  <2>3. CASE rbuf' = <<>>
    BY <2>1, <2>3
  <2>4. CASE i + 1 \in 2..Len(file) /\ rbuf'[i] = file[i + 1]
    BY <2>1, <2>4 DEF Seen, Bodies
  <2> QED BY <2>1, <2>2, <2>3, <2>4, HandStep
<1>4. ASSUME y \in SetOf(got') PROVE y \in Seen
  <2>1. CASE got' = got
    BY <1>4, <2>1 DEF Seen
  <2>2. CASE got' = got \o rbuf
    <3>1. /\ Len(got) \in Nat /\ Len(rbuf) \in Nat
          /\ got \o rbuf \in Seq(Slots) /\ Len(got \o rbuf) = Len(got) + Len(rbuf)
          /\ \A i \in 1..(Len(got) + Len(rbuf)) :
               (got \o rbuf)[i] = IF i <= Len(got) THEN got[i] ELSE rbuf[i - Len(got)]
      BY <1>0, ConcatProperties
    <3>2. PICK i \in 1..(Len(got) + Len(rbuf)) : (got \o rbuf)[i] = y
      BY <1>4, <2>2, <3>1, InSetOf
    <3>3. CASE i <= Len(got)
      <4>1. i \in 1..Len(got) /\ got[i] = y
        BY <3>1, <3>2, <3>3
      <4> QED BY <1>0, <4>1, InSetOf DEF Seen
    <3>4. CASE ~(i <= Len(got))
      <4>1. i - Len(got) \in 1..Len(rbuf) /\ rbuf[i - Len(got)] = y
        BY <3>1, <3>2, <3>4
      <4> QED BY <1>0, <4>1, InSetOf DEF Seen
    <3> QED BY <3>3, <3>4
  <2> QED BY <2>1, <2>2, HandStep
<1>5. y \in Bodies' \/ y \in SetOf(rbuf)' \/ y \in SetOf(got)'
  BY DEF Seen
<1> QED
  BY <1>1, <1>2, <1>3, <1>4, <1>5

LEMMA SlotNumber ==
  ASSUME NEW x \in Slots
  PROVE  x[2] \in Int
BY FileAssumption DEF Slots

LEMMA SeenType ==
  ASSUME IInv
  PROVE  Seen \subseteq Slots
<1>1. file \in Seq(Slots) /\ rbuf \in Seq(Slots) /\ got \in Seq(Slots)
  BY DEF IInv, TypeOK
<1>2. \A i \in 2..Len(file) : file[i] \in Slots
  <2> TAKE i \in 2..Len(file)
  <2>1. i \in 1..Len(file)
    BY <1>1
  <2> QED BY <1>1, <2>1, ElementOfSeq
<1>3. Bodies \subseteq Slots
  BY <1>2 DEF Bodies
<1>4. SetOf(rbuf) \subseteq Slots /\ SetOf(got) \subseteq Slots
  BY <1>1, SetOfType
<1> QED
  BY <1>3, <1>4 DEF Seen

LEMMA NextSeenIsOlder ==
  ASSUME IInv, IInv', QueueInv, SeenIsOlder, [Next]_vars
  PROVE  SeenIsOlder'
<1>0. /\ qWriteMsg \in Seq(1..MsgBound) /\ Len(qWriteMsg) \in Nat /\ qWriteMsg' \in Seq(1..MsgBound)
      /\ wbuf \in Seq(1..MsgBound) /\ Len(wbuf) \in Nat /\ sent \in Nat /\ MsgBound \in Nat
      /\ sent' \in Nat
  BY FileAssumption, SMTT(30) DEF IInv, TypeOK
<1> USE DEF fvars, wvars, rvars, faultvars, Fault
<1>1. ASSUME NEW y \in Seen PROVE Older(y)'
  <2>0. y[2] \in Int /\ Older(y)
    BY SeenType, SlotNumber DEF SeenIsOlder
  <2>1. CASE SendMsg
    <3>1. /\ qWriteMsg' = Append(qWriteMsg, sent + 1) /\ sent' = sent + 1
          /\ wbuf' = wbuf /\ wpc' = wpc
      BY <2>1 DEF SendMsg
    <3>2. y[2] < sent + 1 /\ y[2] <= sent + 1
      BY <1>0, <2>0 DEF Older
    <3>3. PICK n \in Nat : n = Len(qWriteMsg)
      BY <1>0
    <3>4. /\ Len(qWriteMsg') = n + 1
          /\ \A i \in 1..n : qWriteMsg'[i] = qWriteMsg[i]
          /\ qWriteMsg'[n + 1] = sent + 1
      BY <1>0, <3>1, <3>3
    <3>5. \A i \in 1..n : y[2] < qWriteMsg'[i]
      BY <2>0, <3>3, <3>4 DEF Older
    <3>6. \A i \in 1..(n + 1) : y[2] < qWriteMsg'[i]
      <4> TAKE i \in 1..(n + 1)
      <4>1. i \in 1..n \/ i = n + 1
        OBVIOUS
      <4> QED BY <3>2, <3>4, <3>5, <4>1
    <3> QED BY <2>0, <3>1, <3>2, <3>4, <3>6 DEF Older
  <2>2. CASE WriteSize
    <3>1. qWriteMsg' = <<>> /\ wbuf' = qWriteMsg /\ sent' = sent
      BY <2>2 DEF WriteSize
    <3>2. Len(qWriteMsg') = 0
      BY <3>1
    <3> QED BY <2>0, <3>1, <3>2 DEF Older
  <2>3. CASE WriterCrash \/ TornWrite
    <3>1. qWriteMsg' = <<>> /\ wpc' = "idle" /\ sent' = sent
      BY <2>3 DEF WriterCrash, TornWrite
    <3>2. Len(qWriteMsg') = 0
      BY <3>1
    <3> QED BY <2>0, <3>1, <3>2 DEF Older
  <2>4. CASE \/ Create \/ CreateHeader \/ WriteBodies \/ WriteHeader \/ ReadSize \/ ReadBodies
             \/ ReadReset \/ ReadHeader \/ PushRead \/ ReaderCrash \/ ResetFails \/ UNCHANGED vars
    <3>1. /\ UNCHANGED <<qWriteMsg, sent>>
          /\ wpc' = "bodies" => UNCHANGED <<wpc, wbuf>>
      BY <2>4 DEF Create, CreateHeader, WriteBodies, WriteHeader, ReadSize, ReadBodies, ReadReset,
           ReadHeader, PushRead, ReaderCrash, ResetFails, vars
    <3> QED BY <2>0, <3>1 DEF Older
  <2> QED BY <2>1, <2>2, <2>3, <2>4 DEF Next, WriterStep, ReaderStep
<1>2. ASSUME WriteBodies \/ TornWrite, NEW k \in 0..MsgBound, k <= sent,
             \A i \in 1..Len(qWriteMsg) : k < qWriteMsg[i]
      PROVE  Older(Msg(k))'
  <2>1. /\ sent' = sent /\ wpc' # "bodies"
        /\ qWriteMsg' = qWriteMsg \/ qWriteMsg' = <<>>
    BY <1>2 DEF WriteBodies, TornWrite
  <2>2. k \in Nat
    BY <1>0
  <2>3. Msg(k)[1] = "msg" /\ Msg(k)[2] = k
    BY <2>2, SlotFacts
  <2>4. \A i : i \in 1..Len(qWriteMsg') => k < qWriteMsg'[i]
    <3>1. CASE qWriteMsg' = qWriteMsg BY <1>2, <3>1
    <3>2. CASE qWriteMsg' = <<>>
      <4>1. Len(qWriteMsg') = 0 BY <3>2
      <4> QED BY <4>1
    <3> QED BY <2>1, <3>1, <3>2
  <2>5. Msg(k)' = Msg(k)
    OBVIOUS
  <2> QED BY <1>2, <2>1, <2>3, <2>4 DEF Older
<1>3. ASSUME WriteBodies \/ TornWrite PROVE Older(Blank)'
  <2>1. \A i \in 1..Len(qWriteMsg) : qWriteMsg[i] \in 1..MsgBound
    BY <1>0, ElementOfSeq
  <2>2. 0 \in 0..MsgBound /\ 0 <= sent /\ \A i \in 1..Len(qWriteMsg) : 0 < qWriteMsg[i]
    BY <1>0, <2>1
  <2> QED BY <1>2, <1>3, <2>2 DEF Blank
<1>5. ASSUME NEW y \in Seen' PROVE Older(y)'
  <2>1. CASE y \in Seen
    BY <1>1, <2>1
  <2>2. CASE (WriteBodies \/ TornWrite) /\ y = Blank
    <3>1. y = Msg(0) BY <2>2 DEF Blank
    <3> QED BY <1>3, <2>2, <3>1 DEF Older, Blank
  <2>3. ASSUME WriteBodies \/ TornWrite, NEW k \in 1..Len(wbuf), y = Msg(wbuf[k])
        PROVE  Older(y)'
    <3>1. PICK m : m = wbuf[k]
      OBVIOUS
    <3>2. m \in 1..MsgBound
      BY <1>0, <3>1, ElementOfSeq
    <3>3. m \in 0..MsgBound /\ m <= sent /\ \A i \in 1..Len(qWriteMsg) : m < qWriteMsg[i]
      BY <1>0, <3>1, <3>2, SMTT(30) DEF QueueInv
    <3>4. Older(Msg(m))'
      BY <1>2, <2>3, <3>3
    <3>5. y = Msg(m)
      BY <2>3, <3>1
    <3> QED BY <3>4, <3>5 DEF Older
  <2> QED BY <2>1, <2>2, <2>3, SeenStep
<1> QED
  BY <1>5 DEF SeenIsOlder

LEMMA InitOrder == Init => QueueInv /\ SeenIsOlder /\ OrderInv
<1> SUFFICES ASSUME Init PROVE QueueInv /\ SeenIsOlder /\ OrderInv
  OBVIOUS
<1>1. /\ qWriteMsg = <<>> /\ wbuf = <<>> /\ rbuf = <<>> /\ got = <<>> /\ rpc = "idle"
      /\ file = <<>> \/ file = <<Hdr(0)>>
  BY DEF Init
<1>2. /\ Len(qWriteMsg) = 0 /\ Len(wbuf) = 0 /\ Len(rbuf) = 0 /\ Len(got) = 0
      /\ Len(file) = 0 \/ Len(file) = 1
  BY <1>1
<1>3. Bodies = {} /\ SetOf(rbuf) = {} /\ SetOf(got) = {}
  BY <1>1, <1>2 DEF Bodies, SetOf
<1>4. QueueInv
  BY <1>2 DEF QueueInv
<1>5. SeenIsOlder
  BY <1>3 DEF SeenIsOlder, Seen
<1>6. OrderInv
  BY <1>1, <1>2, <1>3 DEF OrderInv
<1> QED
  BY <1>4, <1>5, <1>6

LEMMA NextOrderInv ==
  ASSUME IInv, IInv', QueueInv, SeenIsOlder, ReadInv, OrderInv, [Next]_vars
  PROVE  OrderInv'
<1>0. /\ rbuf \in Seq(Slots) /\ rbuf' \in Seq(Slots) /\ got \in Seq(Slots) /\ got' \in Seq(Slots)
      /\ file \in Seq(Slots) /\ wbuf \in Seq(1..MsgBound)
  BY DEF IInv, TypeOK
<1>n. /\ Len(rbuf) \in Nat /\ Len(got) \in Nat /\ Len(file) \in Nat /\ Len(wbuf) \in Nat
      /\ wsize \in Nat
  BY <1>0, SMTT(30) DEF IInv, TypeOK
<1> USE DEF fvars, wvars, rvars, faultvars, Fault
<1>b. ASSUME NEW i, i \in 1..Len(rbuf) PROVE rbuf[i] \in SetOf(rbuf) /\ rbuf[i] \in Seen
  BY <1>0, <1>b, InSetOf DEF Seen
<1>g. ASSUME NEW i, i \in 1..Len(got) PROVE got[i] \in SetOf(got) /\ got[i] \in Seen
  BY <1>0, <1>g, InSetOf DEF Seen
<1>f. ASSUME NEW i, i \in 2..Len(file) PROVE file[i] \in Bodies /\ file[i] \in Seen
  BY <1>f DEF Bodies, Seen
<1>s. again \subseteq again'
  BY DEF Next, WriterStep, ReaderStep, SendMsg, Create, CreateHeader, WriteSize, WriteBodies,
     WriteHeader, ReadSize, ReadBodies, ReadReset, ReadHeader, PushRead, WriterCrash, TornWrite,
     ReaderCrash, ResetFails, vars
(* What is seen comes before what is written now. *)
<1>w. ASSUME WriteBodies \/ TornWrite, NEW x \in Seen, NEW k, k \in 1..Len(wbuf)
      PROVE  Before(x, Msg(wbuf[k]))
  <2>1. x[2] < wbuf[k]
    BY <1>w DEF SeenIsOlder, Older, WriteBodies, TornWrite
  <2>2. wbuf[k] \in Nat
    <3>1. wbuf[k] \in 1..MsgBound
      BY <1>0, <1>w, ElementOfSeq
    <3> QED BY <3>1, FileAssumption
  <2> QED BY <2>1, <2>2, SlotFacts DEF Before
<1>1. \A i, j : i \in 2..Len(file') /\ j \in 2..Len(file') /\ i < j => Before(file'[i], file'[j])
  <2>1. CASE ~(WriteBodies \/ TornWrite)
    BY <2>1, OtherSteps DEF OrderInv
  <2>2. CASE WriteBodies \/ TornWrite
    <3>1. PICK n \in 0..Len(wbuf) :
             /\ Len(file') = wsize + n
             /\ \A i \in 1..Len(file') :
                  file'[i] = IF i > wsize THEN Msg(wbuf[i - wsize])
                             ELSE IF i <= Len(file) THEN file[i] ELSE Blank
      BY <2>2, BodiesStep
    <3> SUFFICES ASSUME NEW i, NEW j, i \in 2..Len(file'), j \in 2..Len(file'), i < j
                 PROVE  Before(file'[i], file'[j])
      OBVIOUS
    <3>2. /\ i \in 2..(wsize + n) /\ j \in 2..(wsize + n)
          /\ i \in 1..Len(file') /\ j \in 1..Len(file')
      BY <1>n, <3>1
    <3>3. CASE j > wsize
      <4>1. j - wsize \in 1..Len(wbuf) /\ file'[j] = Msg(wbuf[j - wsize])
        BY <1>n, <3>1, <3>2, <3>3
      <4>m. PICK m : m = wbuf[j - wsize]
        OBVIOUS
      <4>t. m \in 1..MsgBound /\ m \in Nat /\ file'[j] = Msg(m) /\ m > 0
        <5>1. m \in 1..MsgBound
          BY <1>0, <4>1, <4>m, ElementOfSeq
        <5> QED BY <4>1, <4>m, <5>1, FileAssumption
      <4>2. CASE i > wsize
        <5>1. i - wsize \in 1..Len(wbuf) /\ file'[i] = Msg(wbuf[i - wsize]) /\ i - wsize < j - wsize
          BY <1>n, <3>1, <3>2, <4>2, SMTT(30)
        <5>2. wbuf[i - wsize] < m
          BY <4>1, <4>m, <5>1 DEF QueueInv
        <5>3. wbuf[i - wsize] \in Nat
          <6>1. wbuf[i - wsize] \in 1..MsgBound
            BY <1>0, <5>1, ElementOfSeq
          <6> QED BY <6>1, FileAssumption
        <5>4. PICK x : x = wbuf[i - wsize]
          OBVIOUS
        <5>5. Msg(x)[2] = x /\ Msg(m)[2] = m
          BY <4>t, <5>3, <5>4, SlotFacts, SMTT(30)
        <5>6. file'[i][2] = x /\ file'[j][2] = m /\ x < m
          BY <4>t, <5>1, <5>2, <5>4, <5>5
        <5> QED BY <5>6 DEF Before
      <4>3. CASE i <= wsize /\ i <= Len(file)
        <5>1. i \in 2..Len(file) /\ file'[i] = file[i]
          BY <1>n, <3>1, <3>2, <4>3
        <5> QED BY <1>f, <1>w, <2>2, <4>1, <5>1
      <4>4. CASE i <= wsize /\ ~(i <= Len(file))
        <5>1. file'[i] = Msg(0)
          BY <1>n, <3>1, <3>2, <4>4 DEF Blank
        <5>2. file'[i][2] = 0 /\ file'[j][2] = m
          BY <4>t, <5>1, SlotFacts
        <5> QED BY <4>t, <5>2 DEF Before
      <4> QED BY <1>n, <3>2, <4>2, <4>3, <4>4
    <3>4. CASE j <= wsize /\ j <= Len(file)
      <4>1. /\ i \in 2..Len(file) /\ j \in 2..Len(file)
            /\ file'[i] = file[i] /\ file'[j] = file[j]
        BY <1>n, <3>1, <3>2, <3>4
      <4> QED BY <4>1 DEF OrderInv
    <3>5. CASE j <= wsize /\ ~(j <= Len(file))
      <4>1. file'[j] = Blank
        BY <1>n, <3>1, <3>2, <3>5
      <4> QED BY <4>1 DEF Before
    <3> QED BY <1>n, <3>2, <3>3, <3>4, <3>5
  <2> QED BY <2>1, <2>2
<1>2. \A i, j : i \in 1..Len(rbuf') /\ j \in 1..Len(rbuf') /\ i < j => Before(rbuf'[i], rbuf'[j])
  <2>1. CASE rbuf' = rbuf
    BY <2>1 DEF OrderInv
  <2>2. CASE rbuf' = <<>>
    BY <2>2
  <2>3. CASE \A i : i \in 1..Len(rbuf') => i + 1 \in 2..Len(file) /\ rbuf'[i] = file[i + 1]
    <3> SUFFICES ASSUME NEW i, NEW j, i \in 1..Len(rbuf'), j \in 1..Len(rbuf'), i < j
                 PROVE  Before(rbuf'[i], rbuf'[j])
      OBVIOUS
    <3>1. /\ i + 1 \in 2..Len(file) /\ j + 1 \in 2..Len(file)
          /\ rbuf'[i] = file[i + 1] /\ rbuf'[j] = file[j + 1]
      BY <2>3
    <3>2. i + 1 < j + 1
      OBVIOUS
    <3> QED BY <3>1, <3>2 DEF OrderInv
  <2> QED BY <2>1, <2>2, <2>3, HandStep
<1>3. \A i, j : i \in 1..Len(got') /\ j \in 1..Len(got') /\ i < j
                  => Before(got'[i], got'[j]) \/ got'[j] \in again'
  <2>1. CASE got' = got
    BY <1>s, <2>1 DEF OrderInv
  <2>2. CASE got' = got \o rbuf
    <3>1. /\ Len(got \o rbuf) = Len(got) + Len(rbuf)
          /\ \A i \in 1..(Len(got) + Len(rbuf)) :
               (got \o rbuf)[i] = IF i <= Len(got) THEN got[i] ELSE rbuf[i - Len(got)]
      BY <1>0, ConcatProperties
    <3> SUFFICES ASSUME NEW i, NEW j, i \in 1..Len(got'), j \in 1..Len(got'), i < j
                 PROVE  Before(got'[i], got'[j]) \/ got'[j] \in again
      BY <1>s
    <3>2. i \in 1..(Len(got) + Len(rbuf)) /\ j \in 1..(Len(got) + Len(rbuf))
      BY <2>2, <3>1
    <3>3. CASE j <= Len(got)
      <4>1. /\ i \in 1..Len(got) /\ j \in 1..Len(got) /\ got'[i] = got[i] /\ got'[j] = got[j]
        BY <1>n, <2>2, <3>1, <3>2, <3>3
      <4> QED BY <4>1 DEF OrderInv
    <3>4. CASE ~(j <= Len(got)) /\ i <= Len(got)
      <4>1. /\ i \in 1..Len(got) /\ j - Len(got) \in 1..Len(rbuf)
            /\ got'[i] = got[i] /\ got'[j] = rbuf[j - Len(got)]
        BY <1>n, <2>2, <3>1, <3>2, <3>4
      <4> QED BY <1>b, <4>1 DEF OrderInv
    <3>5. CASE ~(j <= Len(got)) /\ ~(i <= Len(got))
      <4>1. /\ i - Len(got) \in 1..Len(rbuf) /\ j - Len(got) \in 1..Len(rbuf)
            /\ i - Len(got) < j - Len(got)
            /\ got'[i] = rbuf[i - Len(got)] /\ got'[j] = rbuf[j - Len(got)]
        BY <1>n, <2>2, <3>1, <3>2, <3>5
      <4> QED BY <4>1 DEF OrderInv
    <3> QED BY <3>3, <3>4, <3>5
  <2> QED BY <2>1, <2>2, HandStep
(* What is in the file or in hand after the step was seen, or is written   *)
(* by the step. *)
<1>t. SetOf(rbuf)' = SetOf(rbuf') /\ SetOf(got)' = SetOf(got')
  BY DEF SetOf
<1>y. ASSUME NEW y, y \in (Bodies \cup SetOf(rbuf))'
      PROVE  \/ y \in Bodies \/ (y \in SetOf(rbuf) /\ ~PushRead)
             \/ (WriteBodies \/ TornWrite)
                /\ (y = Blank \/ \E k \in 1..Len(wbuf) : y = Msg(wbuf[k]))
  <2>1. CASE y \in Bodies' /\ (WriteBodies \/ TornWrite)
    BY <2>1, BodiesAdded
  <2>2. CASE y \in Bodies' /\ ~(WriteBodies \/ TornWrite)
    <3>1. PICK i : i \in 2..Len(file') /\ y = file'[i]
      BY <2>2 DEF Bodies
    <3>2. i \in 2..Len(file) /\ y = file[i]
      BY <2>2, <3>1, OtherSteps
    <3> QED BY <1>f, <3>2
  <2>3. CASE y \in SetOf(rbuf')
    <3>1. PICK i : i \in 1..Len(rbuf') /\ y = rbuf'[i]
      BY <1>0, <2>3, InSetOf
    <3>2. rbuf' # <<>>
      BY <3>1
    <3>3. ~PushRead
      BY <3>2 DEF PushRead
    <3>4. CASE rbuf' = rbuf
      BY <2>3, <3>3, <3>4
    <3>5. CASE i + 1 \in 2..Len(file) /\ rbuf'[i] = file[i + 1]
      BY <1>f, <3>1, <3>5
    <3> QED BY <3>1, <3>2, <3>4, <3>5, HandStep
  <2> QED BY <1>t, <1>y, <2>1, <2>2, <2>3
<1>4. \A i : i \in 1..Len(got') => \A y \in (Bodies \cup SetOf(rbuf))' :
               Before(got'[i], y) \/ y \in again'
  <2> SUFFICES ASSUME NEW i, i \in 1..Len(got'), NEW y, y \in (Bodies \cup SetOf(rbuf))'
               PROVE  Before(got'[i], y) \/ y \in again'
    OBVIOUS
  <2>1. CASE got' = got
    <3>1. CASE y \in Bodies \cup SetOf(rbuf)
      BY <1>s, <2>1, <3>1 DEF OrderInv
    <3>2. CASE y = Blank
      BY <3>2 DEF Before
    <3>3. CASE (WriteBodies \/ TornWrite) /\ \E k \in 1..Len(wbuf) : y = Msg(wbuf[k])
      BY <1>g, <1>w, <2>1, <3>3
    <3> QED BY <1>y, <3>1, <3>2, <3>3
  <2>2. CASE PushRead /\ got' = got \o rbuf
    <3>1. /\ Len(got \o rbuf) = Len(got) + Len(rbuf)
          /\ \A k \in 1..(Len(got) + Len(rbuf)) :
               (got \o rbuf)[k] = IF k <= Len(got) THEN got[k] ELSE rbuf[k - Len(got)]
      BY <1>0, ConcatProperties
    <3>2. y \in Bodies /\ rpc = "push"
      <4>1. ~WriteBodies /\ ~TornWrite
        BY <2>2 DEF PushRead, WriteBodies, TornWrite
      <4> QED BY <1>y, <2>2, <4>1 DEF PushRead
    <3>3. i \in 1..(Len(got) + Len(rbuf))
      BY <2>2, <3>1
    <3>4. CASE i <= Len(got)
      <4>1. i \in 1..Len(got) /\ got'[i] = got[i]
        BY <1>n, <2>2, <3>1, <3>3, <3>4
      <4> QED BY <1>s, <3>2, <4>1 DEF OrderInv
    <3>5. CASE ~(i <= Len(got))
      <4>1. i - Len(got) \in 1..Len(rbuf) /\ got'[i] = rbuf[i - Len(got)]
        BY <1>n, <2>2, <3>1, <3>3, <3>5
      <4> QED BY <1>s, <3>2, <4>1 DEF OrderInv
    <3> QED BY <3>4, <3>5
  <2> QED BY <2>1, <2>2, HandStep
<1>5. rpc' \in {"header", "push"} =>
        \A i : i \in 1..Len(rbuf') => \A y \in Bodies' : Before(rbuf'[i], y) \/ y \in again'
  <2> SUFFICES ASSUME rpc' \in {"header", "push"}, NEW i, i \in 1..Len(rbuf'),
                      NEW y, y \in Bodies'
               PROVE  Before(rbuf'[i], y) \/ y \in again'
    OBVIOUS
  <2>0. rbuf' = rbuf
    <3>1. rbuf' # <<>>
      OBVIOUS
    <3>2. ~ReadBodies
      BY DEF ReadBodies
    <3> QED BY <3>1, <3>2, HandStep
  <2>1. CASE rpc \in {"header", "push"}
    <3>1. CASE y \in Bodies
      BY <1>s, <2>0, <2>1, <3>1 DEF OrderInv
    <3>2. CASE WriteBodies \/ TornWrite
      <4>1. CASE y = Blank
        BY <4>1 DEF Before
      <4>2. CASE \E k \in 1..Len(wbuf) : y = Msg(wbuf[k])
        BY <1>b, <1>w, <2>0, <3>2, <4>2
      <4> QED BY <3>1, <3>2, <4>1, <4>2, BodiesAdded
    <3>3. CASE ~(WriteBodies \/ TornWrite)
      <4>1. PICK k : k \in 2..Len(file') /\ y = file'[k]
        BY DEF Bodies
      <4>2. k \in 2..Len(file) /\ y = file[k]
        BY <3>3, <4>1, OtherSteps
      <4> QED BY <1>f, <3>1, <4>2
    <3> QED BY <3>2, <3>3
  <2>2. CASE rpc \notin {"header", "push"}
    <3>1. ReadReset \/ ResetFails
      BY <2>2 DEF Next, WriterStep, ReaderStep, SendMsg, Create, CreateHeader, WriteSize,
         WriteBodies, WriteHeader, ReadSize, ReadBodies, ReadHeader, PushRead, WriterCrash,
         TornWrite, ReaderCrash, vars
    <3>2. PICK k : k \in 2..Len(file') /\ y = file'[k]
      BY DEF Bodies
    <3>3. ~ReadReset
      <4> SUFFICES ASSUME ReadReset PROVE FALSE
        OBVIOUS
      <4>1. Len(file') = 0
        BY DEF ReadReset
      <4> QED BY <3>2, <4>1
    <3>4. /\ rpc = "reset" /\ file' = file /\ again' = again \cup SetOf(rbuf)
      BY <3>1, <3>3 DEF ResetFails
    <3>5. /\ Len(rbuf) + 1 <= Len(file)
          /\ \A j \in 1..Len(rbuf) : rbuf[j] = file[j + 1]
      BY <3>4 DEF ReadInv
    <3>6. k \in 2..Len(file) /\ y = file[k] /\ i \in 1..Len(rbuf)
      BY <2>0, <3>2, <3>4
    <3>7. CASE k - 1 <= Len(rbuf)
      <4>1. k - 1 \in 1..Len(rbuf) /\ (k - 1) + 1 = k
        BY <1>n, <3>6, <3>7
      <4>2. y = rbuf[k - 1]
        BY <3>5, <3>6, <4>1
      <4> QED BY <1>b, <3>4, <4>1, <4>2
    <3>8. CASE ~(k - 1 <= Len(rbuf))
      <4>1. i + 1 \in 2..Len(file) /\ i + 1 < k
        BY <1>n, <3>5, <3>6, <3>8
      <4>2. rbuf[i] = file[i + 1]
        BY <3>5, <3>6
      <4> QED BY <2>0, <3>6, <4>1, <4>2 DEF OrderInv
    <3> QED BY <3>7, <3>8
  <2> QED BY <2>1, <2>2
<1> QED
  BY <1>1, <1>2, <1>3, <1>4, <1>5 DEF OrderInv, Before, Blank, Msg

(* The inductive invariant of the order. *)
OrderedInv == KeepInv /\ QueueInv /\ SeenIsOlder /\ OrderInv

(* The reader gets the messages once and in the order of SendMsg, whatever *)
(* overlaps and whoever dies, but for those read from a file that could    *)
(* not be emptied (WriteMsgFile, ReadMsgFile).                             *)
THEOREM OrderKept == Spec => []InOrderOnce
<1>1. Init => OrderedInv
  BY InitKeepInv, InitOrder DEF OrderedInv
<1>2. IInv /\ IInv' /\ WriteInv /\ OrderedInv /\ [Next]_vars => OrderedInv'
  BY NextKeepInv, NextQueueInv, NextSeenIsOlder, NextOrderInv DEF OrderedInv, KeepInv
<1>3. IInv /\ OrderedInv => InOrderOnce
  <2> SUFFICES ASSUME IInv, OrderInv, NEW i \in DOMAIN got, NEW j \in DOMAIN got, i < j,
                      got[j] # Blank
               PROVE  got[i][2] < got[j][2] \/ got[j] \in again
    BY DEF InOrderOnce, OrderedInv
  <2>1. DOMAIN got = 1..Len(got)
    BY DEF IInv, TypeOK
  <2> QED BY <2>1 DEF OrderInv, Before
<1> QED
  BY <1>1, <1>2, <1>3, InductiveIInv, WriteInvariant, PTL DEF Spec
=============================================================================
