------------------------- MODULE MsgqThread_proofs -------------------------
(***************************************************************************)
(* Both directions of the bridge implement Channel, for every number of    *)
(* senders and messages and every capacity of the kernel queue.            *)
(***************************************************************************)
EXTENDS MsgqThread, SequenceTheorems, TLAPS

-----------------------------------------------------------------------------
(* Sequences. *)

(* The two parts of a concatenation are its subsequences. *)
LEMMA SplitConcat ==
  ASSUME NEW T, NEW s \in Seq(T), NEW t \in Seq(T)
  PROVE  /\ s \o t \in Seq(T) /\ Len(s \o t) = Len(s) + Len(t)
         /\ SubSeq(s \o t, 1, Len(s)) = s
         /\ SubSeq(s \o t, Len(s) + 1, Len(s) + Len(t)) = t
<1> DEFINE c == s \o t
           a == SubSeq(c, 1, Len(s))
           b == SubSeq(c, Len(s) + 1, Len(s) + Len(t))
<1>1. /\ c \in Seq(T) /\ Len(c) = Len(s) + Len(t)
      /\ \A i \in 1..(Len(s) + Len(t)) : c[i] = IF i <= Len(s) THEN s[i] ELSE t[i - Len(s)]
  BY ConcatProperties
<1>2. Len(s) \in Nat /\ Len(t) \in Nat
  OBVIOUS
<1>3. \A i \in 1..Len(c) : c[i] \in T
  BY <1>1, ElementOfSeq
<1>4. /\ a \in Seq(T) /\ Len(a) = Len(s)
      /\ \A i \in 1..Len(s) : a[i] = c[i]
  <2>1. \A i \in 1..Len(s) : c[i] \in T
    BY <1>1, <1>2, <1>3
  <2> HIDE DEF c
  <2> QED
    BY <1>2, <2>1, SubSeqProperties, Z3
<1>5. /\ b \in Seq(T) /\ Len(b) = Len(t)
      /\ \A i \in 1..Len(t) : b[i] = c[Len(s) + i]
  <2>1. \A i \in (Len(s) + 1)..(Len(s) + Len(t)) : c[i] \in T
    BY <1>1, <1>2, <1>3
  <2> HIDE DEF c
  <2> QED
    BY <1>2, <2>1, SubSeqProperties, Z3
<1> HIDE DEF a, b, c
<1>6. a = s
  <2>1. \A i \in 1..Len(a) : a[i] = s[i]
    BY <1>1, <1>2, <1>4
  <2> QED
    BY <1>4, <2>1, SeqEqual
<1>7. b = t
  <2>1. ASSUME NEW i \in 1..Len(t) PROVE b[i] = t[i]
    <3>1. Len(s) + i \in 1..(Len(s) + Len(t)) /\ ~(Len(s) + i <= Len(s))
          /\ (Len(s) + i) - Len(s) = i
      BY <1>2
    <3>2. c[Len(s) + i] = t[i]
      BY <1>1, <3>1
    <3> QED
      BY <1>5, <3>2
  <2> QED
    BY <1>5, <2>1, SeqEqual
<1> QED
  BY <1>1, <1>6, <1>7 DEF a, b, c

(* A sequence is its head before its tail. *)
LEMMA HeadBeforeTail ==
  ASSUME NEW T, NEW s \in Seq(T), s # <<>>
  PROVE  <<Head(s)>> \in Seq(T) /\ Tail(s) \in Seq(T) /\ <<Head(s)>> \o Tail(s) = s
<1>1. Head(s) \in T /\ Tail(s) \in Seq(T) /\ Len(Tail(s)) = Len(s) - 1
      /\ \A i \in 1..Len(Tail(s)) : Tail(s)[i] = s[i + 1]
  BY HeadTailProperties
<1>2. <<Head(s)>> \in Seq(T) /\ Len(<<Head(s)>>) = 1 /\ <<Head(s)>>[1] = s[1]
  BY <1>1
<1> DEFINE c == <<Head(s)>> \o Tail(s)
<1>3. Len(s) \in Nat \ {0}
  BY EmptySeq
<1>4. /\ c \in Seq(T) /\ Len(c) = 1 + (Len(s) - 1)
      /\ \A i \in 1..Len(s) : c[i] = IF i <= 1 THEN <<Head(s)>>[i] ELSE Tail(s)[i - 1]
  BY <1>1, <1>2, <1>3, ConcatProperties
<1> HIDE DEF c
<1>5. \A i \in 1..Len(c) : c[i] = s[i]
  BY <1>1, <1>2, <1>3, <1>4
<1>6. c = s
  BY <1>3, <1>4, <1>5, SeqEqual
<1> QED
  BY <1>1, <1>2, <1>6 DEF c

(* Append is concatenation with one element. *)
LEMMA AppendConcat ==
  ASSUME NEW T, NEW s \in Seq(T), NEW m \in T
  PROVE  Append(s, m) = s \o <<m>> /\ <<m>> \in Seq(T) /\ Append(s, m) \in Seq(T)
OBVIOUS

(* Consecutive numbers above k, up to n. *)
LEMMA BatchType ==
  ASSUME NEW k \in Nat, NEW n \in Nat, NEW N \in Nat, k <= n, n <= N
  PROVE  [i \in 1..(n - k) |-> k + i] \in Seq(1..N)
<1>1. n - k \in Nat
  OBVIOUS
<1>2. [i \in 1..(n - k) |-> k + i] \in [1..(n - k) -> 1..N]
  OBVIOUS
<1> HIDE DEF SeqDef
<1> QED
  BY <1>1, <1>2, SeqDef, Z3

-----------------------------------------------------------------------------
(* Types. *)

LEMMA InitTypeOK == Init => TypeOK
  BY BoundsAssumption, EmptySeq DEF Init, TypeOK, CheckPcs, ProcPcs, FilePcs, MainPcs

LEMMA NextTypeOK == TypeOK /\ [Next]_vars => TypeOK'
<1> SUFFICES ASSUME TypeOK, [Next]_vars PROVE TypeOK'
  OBVIOUS
<1> USE BoundsAssumption
    DEF TypeOK, CheckPcs, ProcPcs, FilePcs, MainPcs, HasRoom,
        kqvars, boxvars, hostvars, checkvars, procvars, condvars, outvars
<1>1. ASSUME NEW s \in Senders, SendMsg(s) PROVE TypeOK'
  <2>1. <<s, pushed[s] + 1>> \in Sent
    BY <1>1, SMTT(30) DEF SendMsg, Sent
  <2>2. sendq' \in Seq(Sent) /\ Len(sendq') = Len(sendq) + 1
    BY <1>1, <2>1 DEF SendMsg
  <2>3. pushed' \in [Senders -> 0..SendBound]
    BY <1>1, SMTT(30) DEF SendMsg
  <2> QED BY <1>1, <2>2, <2>3, SMTT(30) DEF SendMsg
<1>2. CASE HostWrite BY <1>2 DEF HostWrite
<1>3. CASE CheckExit BY <1>3 DEF CheckExit
<1>4. CASE PassSend
  <2>1. CASE sendq # <<>>
    <3>1. /\ Head(sendq) \in Sent /\ Tail(sendq) \in Seq(Sent)
          /\ Len(Tail(sendq)) = Len(sendq) - 1
      BY <2>1, HeadTailProperties
    <3>2. sendq' = Tail(sendq) /\ qWriteMsg' = Append(qWriteMsg, Head(sendq))
      BY <1>4, <2>1 DEF PassSend
    <3>3. qWriteMsg' \in Seq(Sent)
      BY <3>1, <3>2, AppendConcat
    <3> HIDE DEF Sent
    <3> QED BY <1>4, <3>1, <3>2, <3>3 DEF PassSend
  <2>2. CASE sendq = <<>> BY <1>4, <2>2 DEF PassSend
  <2> QED BY <2>1, <2>2
<1>5. CASE TakeRecv
  <2>1. CASE qReadMsg # <<>>
    <3>1. Head(qReadMsg) \in 1..HostBound /\ Tail(qReadMsg) \in Seq(1..HostBound)
      BY <2>1, HeadTailProperties
    <3>2. /\ checkMsg' = Head(qReadMsg) /\ qReadMsg' = Tail(qReadMsg) /\ checkPc' = "push"
          /\ UNCHANGED <<kqvars, qWriteMsg, hostvars, procvars, filePc, condvars, outvars>>
      BY <1>5, <2>1 DEF TakeRecv
    <3>3. checkMsg' \in 1..HostBound /\ qReadMsg' \in Seq(1..HostBound)
      BY <3>1, <3>2
    <3>4. checkMsg' \in 0..HostBound
      BY <3>3
    <3> QED BY <3>2, <3>3, <3>4
  <2>2. CASE qReadMsg = <<>> BY <1>5, <2>2 DEF TakeRecv
  <2> QED BY <2>1, <2>2
<1>6. CASE PushRecv
  <2>1. recvq' \in Seq(1..HostBound) /\ Len(recvq') = Len(recvq) + 1
    BY <1>6 DEF PushRecv
  <2> QED BY <1>6, <2>1 DEF PushRecv
<1>7. CASE ProcExit BY <1>7 DEF ProcExit
<1>8. CASE ProcMsg
  <2>1. /\ recvq' \in Seq(1..HostBound) /\ Len(recvq') = Len(recvq) - 1
        /\ handled' \in Seq(1..HostBound)
    BY <1>8, HeadTailProperties, SMTT(30) DEF ProcMsg
  <2> QED BY <1>8, <2>1, SMTT(30) DEF ProcMsg
<1>9. CASE Reply
  <2>1. <<"proc", Len(handled), replies>> \in Sent
    BY DEF Sent
  <2>2. sendq' \in Seq(Sent) /\ Len(sendq') = Len(sendq) + 1
    BY <1>9, <2>1 DEF Reply
  <2> QED BY <1>9, <2>2, SMTT(30) DEF Reply
<1>10. CASE ProcReturn BY <1>10 DEF ProcReturn
<1>11. CASE FileExit BY <1>11 DEF FileExit
<1>12. CASE FileWrite BY <1>12 DEF FileWrite
<1>13. CASE FileRead
  <2>1. [i \in 1..(hostSent - hostRead) |-> hostRead + i] \in Seq(1..HostBound)
    BY BatchType
  <2>2. qReadMsg' \in Seq(1..HostBound)
    BY <1>13, <2>1, ConcatProperties DEF FileRead
  <2> QED BY <1>13, <2>2 DEF FileRead
<1>14. CASE ClearFlags BY <1>14 DEF ClearFlags
<1>15. CASE JoinCheck BY <1>15 DEF JoinCheck
<1>16. CASE JoinProc BY <1>16 DEF JoinProc
<1>17. CASE JoinFile BY <1>17 DEF JoinFile
<1>18. CASE UNCHANGED vars BY <1>18 DEF vars
<1> QED
  BY <1>1, <1>2, <1>3, <1>4, <1>5, <1>6, <1>7, <1>8, <1>9, <1>10, <1>11, <1>12, <1>13,
     <1>14, <1>15, <1>16, <1>17, <1>18 DEF Next, CheckStep, ProcStep, FileStep, StopStep

(* The messages keep their types and the kernel queue its bound. *)
THEOREM TypeCorrect == Spec => []TypeOK
<1> QED BY InitTypeOK, NextTypeOK, PTL DEF Spec

-----------------------------------------------------------------------------
(* StopThread joins each thread before it goes on. *)

JoinedInv ==
  /\ mainPc # "run" => cond = FALSE
  /\ mainPc \in {"joinProc", "joinFile", "stopped"} => checkPc = "exit"
  /\ mainPc \in {"joinFile", "stopped"} => procPc = "exit"
  /\ mainPc = "stopped" => filePc = "exit"

LEMMA NextJoinedInv == JoinedInv /\ [Next]_vars => JoinedInv'
<1> SUFFICES ASSUME JoinedInv, [Next]_vars PROVE JoinedInv'
  OBVIOUS
<1> USE DEF JoinedInv, checkvars, procvars, condvars
<1>1. ASSUME NEW s \in Senders, SendMsg(s) PROVE JoinedInv'
  BY <1>1 DEF SendMsg
<1>2. CASE HostWrite BY <1>2 DEF HostWrite
<1>3. CASE CheckStep
  BY <1>3 DEF CheckStep, CheckExit, PassSend, TakeRecv, PushRecv
<1>4. CASE ProcStep
  BY <1>4 DEF ProcStep, ProcExit, ProcMsg, Reply, ProcReturn
<1>5. CASE FileStep
  BY <1>5 DEF FileStep, FileExit, FileWrite, FileRead
<1>6. CASE ClearFlags BY <1>6 DEF ClearFlags
<1>7. CASE StopStep
  BY <1>7 DEF StopStep, JoinCheck, JoinProc, JoinFile
<1>8. CASE UNCHANGED vars BY <1>8 DEF vars
<1> QED
  BY <1>1, <1>2, <1>3, <1>4, <1>5, <1>6, <1>7, <1>8 DEF Next

Joined == TypeOK /\ JoinedInv

LEMMA JoinedInvariant == Spec => []Joined
<1>1. Init => Joined
  BY InitTypeOK DEF Init, Joined, JoinedInv
<1>2. Joined /\ [Next]_vars => Joined'
  BY NextTypeOK, NextJoinedInv DEF Joined
<1> QED
  BY <1>1, <1>2, PTL DEF Spec

-----------------------------------------------------------------------------
(* SEND messages. *)

LEMMA SendPutStep ==
  ASSUME TypeOK, NEW m \in Sent, sendq' = Append(sendq, m),
         UNCHANGED <<qWriteMsg, written, mainPc>>
  PROVE  SendChannel!Put
<1> DEFINE q == qWriteMsg \o sendq
<1>1. q \in Seq(Sent) /\ <<m>> \in Seq(Sent) /\ sendq' = sendq \o <<m>>
  BY ConcatProperties, AppendConcat DEF TypeOK
<1>2. q' = q \o <<m>>
  <2>1. qWriteMsg \in Seq(Sent) /\ sendq \in Seq(Sent)
    BY DEF TypeOK
  <2>2. (qWriteMsg \o sendq) \o <<m>> = qWriteMsg \o (sendq \o <<m>>)
    BY <1>1, <2>1, ConcatAssociative
  <2>3. qWriteMsg' = qWriteMsg
    OBVIOUS
  <2> QED
    BY <1>1, <2>2, <2>3, Zenon
<1>3. Len(q \o <<m>>) = Len(q) + 1 /\ SubSeq(q \o <<m>>, 1, Len(q)) = q
  <2>1. Len(<<m>>) = 1
    OBVIOUS
  <2> HIDE DEF q
  <2>2. Len(q \o <<m>>) = Len(q) + Len(<<m>>) /\ SubSeq(q \o <<m>>, 1, Len(q)) = q
    BY <1>1, SplitConcat
  <2> QED BY <2>1, <2>2
<1>4. Len(q) \in Nat
  BY <1>1
<1>5. Len(q) < Len(q') /\ SubSeq(q', 1, Len(q)) = q
  BY <1>2, <1>3, <1>4, SMTT(30)
<1> QED
  BY <1>5 DEF SendChannel!Put

(* The message moves from one part of the channel to the other. *)
LEMMA PassSendStutters ==
  ASSUME TypeOK, PassSend
  PROVE  UNCHANGED <<qWriteMsg \o sendq, written, mainPc>>
<1>1. UNCHANGED <<written, mainPc>>
  BY DEF PassSend, outvars, condvars
<1>2. CASE sendq # <<>>
  <2>1. sendq' = Tail(sendq) /\ qWriteMsg' = Append(qWriteMsg, Head(sendq))
    BY <1>2 DEF PassSend
  <2>2. <<Head(sendq)>> \in Seq(Sent) /\ Tail(sendq) \in Seq(Sent)
        /\ <<Head(sendq)>> \o Tail(sendq) = sendq
    BY <1>2, HeadBeforeTail DEF TypeOK
  <2>3. qWriteMsg' = qWriteMsg \o <<Head(sendq)>>
    <3>1. Head(sendq) \in Sent
      BY <1>2, HeadTailProperties DEF TypeOK
    <3> QED BY <2>1, <3>1, AppendConcat DEF TypeOK
  <2>4. (qWriteMsg \o <<Head(sendq)>>) \o Tail(sendq) = qWriteMsg \o sendq
    <3>1. (qWriteMsg \o <<Head(sendq)>>) \o Tail(sendq)
            = qWriteMsg \o (<<Head(sendq)>> \o Tail(sendq))
      <4>1. qWriteMsg \in Seq(Sent) BY DEF TypeOK
      <4> QED BY <4>1, <2>2, ConcatAssociative
    <3> QED BY <2>2, <3>1, Zenon
  <2> QED
    BY <1>1, <2>1, <2>3, <2>4
<1>3. CASE sendq = <<>>
  BY <1>1, <1>3 DEF PassSend
<1> QED
  BY <1>2, <1>3

LEMMA FileWriteStep ==
  ASSUME TypeOK, JoinedInv, FileWrite
  PROVE  SendChannel!Take \/ UNCHANGED <<qWriteMsg \o sendq, written, mainPc>>
<1> DEFINE q == qWriteMsg \o sendq
<1>1. /\ written' = written \o qWriteMsg /\ qWriteMsg' = <<>> /\ sendq' = sendq
      /\ mainPc' = mainPc /\ mainPc # "stopped"
  BY DEF FileWrite, kqvars, condvars, JoinedInv
<1>2. q' = sendq
  BY <1>1, ConcatEmptySeq DEF TypeOK
<1>3. CASE qWriteMsg = <<>>
  BY <1>1, <1>3, ConcatEmptySeq DEF TypeOK
<1>4. CASE qWriteMsg # <<>>
  <2>1. /\ Len(q) = Len(qWriteMsg) + Len(sendq)
        /\ SubSeq(q, 1, Len(qWriteMsg)) = qWriteMsg
        /\ SubSeq(q, Len(qWriteMsg) + 1, Len(qWriteMsg) + Len(sendq)) = sendq
    BY SplitConcat DEF TypeOK
  <2>2. Len(qWriteMsg) \in Nat \ {0} /\ Len(sendq) \in Nat
    BY <1>4, EmptySeq DEF TypeOK
  <2>3. Len(qWriteMsg) \in 1..Len(q)
    BY <2>1, <2>2
  <2>4. written' = written \o SubSeq(q, 1, Len(qWriteMsg))
        /\ q' = SubSeq(q, Len(qWriteMsg) + 1, Len(q))
    BY <1>1, <1>2, <2>1
  <2> QED
    BY <1>1, <2>3, <2>4 DEF SendChannel!Take
<1> QED
  BY <1>3, <1>4

(* What StopThread leaves is the end of what was there. *)
LEMMA SendCloseStep ==
  ASSUME TypeOK, JoinFile
  PROVE  SendChannel!Close
<1> DEFINE q == qWriteMsg \o sendq
<1>1. /\ qWriteMsg' = <<>> /\ sendq' = sendq /\ written' = written
      /\ mainPc = "joinFile" /\ mainPc' = "stopped"
  BY DEF JoinFile, kqvars, outvars
<1>2. q' = sendq
  BY <1>1, ConcatEmptySeq DEF TypeOK
<1>3. /\ Len(q) = Len(qWriteMsg) + Len(sendq)
      /\ SubSeq(q, Len(qWriteMsg) + 1, Len(qWriteMsg) + Len(sendq)) = sendq
  BY SplitConcat DEF TypeOK
<1>4. Len(qWriteMsg) \in Nat /\ Len(sendq) \in Nat
  BY DEF TypeOK
<1>5. Len(qWriteMsg) + 1 \in 1..(Len(q) + 1) /\ Len(q) \in 0..Len(q)
  BY <1>3, <1>4
<1>6. q' = SubSeq(q, Len(qWriteMsg) + 1, Len(q))
  BY <1>2, <1>3
<1> QED
  BY <1>1, <1>5, <1>6 DEF SendChannel!Close

(* The SEND direction is a channel. *)
THEOREM SendImplementsChannel == Spec => SendIsChannel
<1>1. Init => SendChannel!Init
  BY ConcatEmptySeq, EmptySeq DEF Init, SendChannel!Init
<1>2. Joined /\ [Next]_vars => [SendChannel!Next]_(SendChannel!chvars)
  <2> SUFFICES ASSUME Joined, [Next]_vars
               PROVE  \/ SendChannel!Put \/ SendChannel!Take \/ SendChannel!Close
                      \/ UNCHANGED SendChannel!chvars
    BY DEF SendChannel!Next
  <2> USE DEF Joined
  <2> USE DEF SendChannel!chvars
  <2>1. ASSUME NEW s \in Senders, SendMsg(s) PROVE SendChannel!Put
    <3>1. <<s, pushed[s] + 1>> \in Sent
      BY SMTT(30) DEF TypeOK, Sent
    <3>2. sendq' = Append(sendq, <<s, pushed[s] + 1>>) /\ UNCHANGED <<qWriteMsg, written, mainPc>>
      BY <2>1 DEF SendMsg, boxvars, outvars, condvars
    <3> QED
      BY <3>1, <3>2, SendPutStep
  <2>2. ASSUME Reply PROVE SendChannel!Put
    <3>1. <<"proc", Len(handled), replies>> \in Sent
      BY BoundsAssumption DEF TypeOK, Sent
    <3>2. sendq' = Append(sendq, <<"proc", Len(handled), replies>>)
          /\ UNCHANGED <<qWriteMsg, written, mainPc>>
      BY <2>2 DEF Reply, boxvars, outvars, condvars
    <3> QED
      BY <3>1, <3>2, SendPutStep
  <2>3. PassSend => UNCHANGED SendChannel!chvars
    BY PassSendStutters
  <2>4. FileWrite => SendChannel!Take \/ UNCHANGED SendChannel!chvars
    BY FileWriteStep
  <2>5. JoinFile => SendChannel!Close
    BY SendCloseStep
  <2>6. ASSUME \/ HostWrite \/ CheckExit \/ TakeRecv \/ PushRecv \/ ProcExit \/ ProcMsg
               \/ ProcReturn \/ FileExit \/ FileRead \/ UNCHANGED vars
        PROVE  UNCHANGED SendChannel!chvars
    BY <2>6 DEF HostWrite, CheckExit, TakeRecv, PushRecv, ProcExit, ProcMsg, ProcReturn,
         FileExit, FileRead, vars, kqvars, boxvars, outvars, condvars
  <2>7. ASSUME ClearFlags \/ JoinCheck \/ JoinProc
        PROVE  UNCHANGED SendChannel!chvars
    BY <2>7 DEF ClearFlags, JoinCheck, JoinProc, kqvars, boxvars, outvars
  <2> QED
    BY <2>1, <2>2, <2>3, <2>4, <2>5, <2>6, <2>7
    DEF Next, CheckStep, ProcStep, FileStep, StopStep
<1> QED
  BY <1>1, <1>2, JoinedInvariant, PTL DEF Spec, SendIsChannel, SendChannel!Spec

-----------------------------------------------------------------------------
(* RECV messages. *)

Msgs == 1..HostBound

LEMMA InHandType == TypeOK => InHand \in Seq(Msgs)
<1> SUFFICES ASSUME TypeOK PROVE InHand \in Seq(Msgs)
  OBVIOUS
<1>1. CASE checkPc = "push"
  <2>1. checkMsg \in Msgs
    BY <1>1 DEF TypeOK, Msgs
  <2>2. <<checkMsg>> \in Seq(Msgs)
    BY <2>1
  <2> QED BY <1>1, <2>2 DEF InHand
<1>2. CASE checkPc # "push"
  BY <1>2, EmptySeq DEF InHand
<1> QED
  BY <1>1, <1>2

(* The check thread takes a message in hand: nothing moves in the channel. *)
LEMMA TakeRecvStutters ==
  ASSUME TypeOK, TakeRecv
  PROVE  UNCHANGED RecvChannel!chvars
<1> USE DEF RecvChannel!chvars
<1>1. /\ recvq' = recvq /\ handled' = handled /\ mainPc' = mainPc
      /\ recvq \in Seq(Msgs) /\ qReadMsg \in Seq(Msgs) /\ InHand = <<>>
  BY DEF TakeRecv, kqvars, outvars, condvars, TypeOK, Msgs, InHand
<1>2. CASE qReadMsg # <<>>
  <2>1. InHand' = <<Head(qReadMsg)>> /\ qReadMsg' = Tail(qReadMsg)
    BY <1>2 DEF TakeRecv, InHand
  <2>2. /\ <<Head(qReadMsg)>> \in Seq(Msgs) /\ Tail(qReadMsg) \in Seq(Msgs)
        /\ <<Head(qReadMsg)>> \o Tail(qReadMsg) = qReadMsg
    BY <1>1, <1>2, HeadBeforeTail
  <2>3. (recvq \o <<Head(qReadMsg)>>) \o Tail(qReadMsg)
          = recvq \o (<<Head(qReadMsg)>> \o Tail(qReadMsg))
    BY <1>1, <2>2, ConcatAssociative
  <2>4. recvq \o InHand = recvq
    BY <1>1, ConcatEmptySeq
  <2>5. (recvq \o InHand \o qReadMsg)' = recvq \o InHand \o qReadMsg
    BY <1>1, <2>1, <2>2, <2>3, <2>4, Zenon
  <2> QED
    BY <1>1, <2>5
<1>3. CASE qReadMsg = <<>>
  BY <1>1, <1>3 DEF TakeRecv, InHand
<1> QED
  BY <1>2, <1>3

LEMMA PushRecvStutters ==
  ASSUME TypeOK, PushRecv
  PROVE  UNCHANGED RecvChannel!chvars
<1>1. /\ handled' = handled /\ mainPc' = mainPc /\ qReadMsg' = qReadMsg
      /\ recvq' = Append(recvq, checkMsg) /\ InHand = <<checkMsg>> /\ InHand' = <<>>
      /\ recvq \in Seq(Msgs) /\ checkMsg \in Msgs
  BY DEF PushRecv, boxvars, outvars, condvars, TypeOK, Msgs, InHand
<1>2. recvq' = recvq \o InHand /\ recvq' \in Seq(Msgs)
  BY <1>1, AppendConcat
<1>3. recvq' \o <<>> = recvq'
  BY <1>2, ConcatEmptySeq
<1>4. (recvq \o InHand \o qReadMsg)' = recvq \o InHand \o qReadMsg
  BY <1>1, <1>2, <1>3, Zenon
<1> QED
  BY <1>1, <1>4 DEF RecvChannel!chvars

(* The batch read from the file joins at the end. *)
LEMMA FileReadStep ==
  ASSUME TypeOK, FileRead
  PROVE  RecvChannel!Put \/ UNCHANGED RecvChannel!chvars
<1> DEFINE q == recvq \o InHand \o qReadMsg
           b == [i \in 1..(hostSent - hostRead) |-> hostRead + i]
<1>1. /\ handled' = handled /\ mainPc' = mainPc /\ recvq' = recvq /\ InHand' = InHand
      /\ qReadMsg' = qReadMsg \o b
  BY DEF FileRead, kqvars, checkvars, outvars, condvars, InHand
<1>2. b \in Seq(Msgs)
  BY BoundsAssumption, BatchType DEF TypeOK, Msgs
<1> HIDE DEF b
<1>3. recvq \in Seq(Msgs) /\ InHand \in Seq(Msgs) /\ qReadMsg \in Seq(Msgs)
  BY InHandType DEF TypeOK, Msgs
<1>4. recvq \o InHand \in Seq(Msgs)
  BY <1>3, ConcatProperties
<1>5. q \in Seq(Msgs)
  BY <1>3, <1>4, ConcatProperties
<1>6. q' = q \o b
  <2>1. ((recvq \o InHand) \o qReadMsg) \o b = (recvq \o InHand) \o (qReadMsg \o b)
    BY <1>2, <1>3, <1>4, ConcatAssociative, SMTT(30)
  <2> QED
    BY <1>1, <2>1, Zenon
<1> HIDE DEF q
<1>7. Len(q \o b) = Len(q) + Len(b) /\ SubSeq(q \o b, 1, Len(q)) = q
      /\ Len(q) \in Nat /\ Len(b) \in Nat
  BY <1>2, <1>5, SplitConcat, LenProperties
<1>8. CASE b = <<>>
  <2>1. q \o b = q
    BY <1>5, <1>8, ConcatEmptySeq
  <2> QED
    BY <1>1, <1>6, <2>1 DEF RecvChannel!chvars, q
<1>9. CASE b # <<>>
  <2>1. Len(b) > 0
    BY <1>2, <1>7, <1>9, EmptySeq
  <2>2. Len(q) < Len(q') /\ SubSeq(q', 1, Len(q)) = q
    BY <1>6, <1>7, <2>1
  <2> QED
    BY <1>1, <2>2 DEF RecvChannel!Put, q
<1> QED
  BY <1>8, <1>9

(* The oldest message is handled. *)
LEMMA ProcMsgStep ==
  ASSUME TypeOK, JoinedInv, ProcMsg
  PROVE  RecvChannel!Take
<1> DEFINE q == recvq \o InHand \o qReadMsg
           h == <<Head(recvq)>>
<1>1. /\ recvq # <<>> /\ recvq' = Tail(recvq) /\ handled' = Append(handled, Head(recvq))
      /\ qReadMsg' = qReadMsg /\ InHand' = InHand /\ mainPc' = mainPc /\ mainPc # "stopped"
  BY DEF ProcMsg, boxvars, checkvars, condvars, InHand, JoinedInv
<1>2. recvq \in Seq(Msgs) /\ InHand \in Seq(Msgs) /\ qReadMsg \in Seq(Msgs)
      /\ handled \in Seq(Msgs)
  BY InHandType DEF TypeOK, Msgs
<1>3. h \in Seq(Msgs) /\ Tail(recvq) \in Seq(Msgs) /\ h \o Tail(recvq) = recvq
  BY <1>1, <1>2, HeadBeforeTail
<1>4. handled' = handled \o h
  <2>1. Head(recvq) \in Msgs
    BY <1>1, <1>2, HeadTailProperties
  <2> QED
    BY <1>1, <1>2, <2>1, AppendConcat
<1>5. Len(h) = 1
  OBVIOUS
<1> HIDE DEF h
<1> DEFINE rest == Tail(recvq) \o InHand \o qReadMsg
<1>6. rest \in Seq(Msgs) /\ q' = rest
  BY <1>1, <1>2, <1>3, ConcatProperties
<1>7. q = h \o rest
  <2>1. (h \o Tail(recvq)) \o InHand = h \o (Tail(recvq) \o InHand)
    <3>1. h \in Seq(Msgs) /\ Tail(recvq) \in Seq(Msgs) /\ InHand \in Seq(Msgs)
      BY <1>2, <1>3
    <3> QED BY <3>1, ConcatAssociative, SMTT(30)
  <2> DEFINE t == Tail(recvq) \o InHand
  <2>2. t \in Seq(Msgs)
    BY <1>2, <1>3, ConcatProperties
  <2>3. (h \o t) \o qReadMsg = h \o (t \o qReadMsg)
    <3> HIDE DEF t
    <3>1. h \in Seq(Msgs) /\ qReadMsg \in Seq(Msgs)
      BY <1>2, <1>3
    <3> QED BY <2>2, <3>1, ConcatAssociative
  <2> QED
    BY <1>3, <2>1, <2>3, Zenon
<1> HIDE DEF rest, q
<1>8. /\ Len(h \o rest) = Len(h) + Len(rest)
      /\ SubSeq(h \o rest, 1, Len(h)) = h
      /\ SubSeq(h \o rest, Len(h) + 1, Len(h) + Len(rest)) = rest
      /\ Len(rest) \in Nat
  BY <1>3, <1>6, SplitConcat, LenProperties
<1>9. Len(q) = 1 + Len(rest) /\ SubSeq(q, 1, 1) = h /\ SubSeq(q, 1 + 1, Len(q)) = rest
  BY <1>5, <1>7, <1>8
<1>10. 1 \in 1..Len(q)
  BY <1>8, <1>9
<1>11. handled' = handled \o SubSeq(q, 1, 1) /\ q' = SubSeq(q, 1 + 1, Len(q))
  BY <1>4, <1>6, <1>9
<1> QED
  BY <1>1, <1>10, <1>11 DEF RecvChannel!Take, q

(* What StopThread leaves is the beginning of what was there. *)
LEMMA RecvCloseStep ==
  ASSUME TypeOK, JoinedInv, JoinFile
  PROVE  RecvChannel!Close
<1> DEFINE q == recvq \o InHand \o qReadMsg
<1>1. /\ mainPc = "joinFile" /\ mainPc' = "stopped" /\ qReadMsg' = <<>> /\ recvq' = recvq
      /\ handled' = handled /\ InHand = <<>> /\ InHand' = <<>>
      /\ recvq \in Seq(Msgs) /\ qReadMsg \in Seq(Msgs)
  BY DEF JoinFile, JoinedInv, kqvars, checkvars, outvars, InHand, TypeOK, Msgs
<1>2. recvq \o <<>> = recvq
  BY <1>1, ConcatEmptySeq
<1>3. q' = recvq /\ q = recvq \o qReadMsg
  BY <1>1, <1>2
<1>4. Len(q) = Len(recvq) + Len(qReadMsg) /\ SubSeq(q, 1, Len(recvq)) = recvq
  BY <1>1, <1>3, SplitConcat
<1>5. Len(recvq) \in Nat /\ Len(qReadMsg) \in Nat
  BY <1>1, LenProperties
<1> HIDE DEF q
<1>6. 1 \in 1..(Len(q) + 1) /\ Len(recvq) \in 0..Len(q) /\ q' = SubSeq(q, 1, Len(recvq))
  BY <1>3, <1>4, <1>5
<1> QED
  BY <1>1, <1>6 DEF RecvChannel!Close, q

(* The RECV direction is a channel. *)
THEOREM RecvImplementsChannel == Spec => RecvIsChannel
<1>1. Init => RecvChannel!Init
  BY ConcatEmptySeq, EmptySeq DEF Init, InHand, RecvChannel!Init
<1>2. Joined /\ [Next]_vars => [RecvChannel!Next]_(RecvChannel!chvars)
  <2> SUFFICES ASSUME Joined, [Next]_vars
               PROVE  \/ RecvChannel!Put \/ RecvChannel!Take \/ RecvChannel!Close
                      \/ UNCHANGED RecvChannel!chvars
    BY DEF RecvChannel!Next
  <2> USE DEF Joined
  <2>1. TakeRecv \/ PushRecv => UNCHANGED RecvChannel!chvars
    BY TakeRecvStutters, PushRecvStutters
  <2>2. FileRead => RecvChannel!Put \/ UNCHANGED RecvChannel!chvars
    BY FileReadStep
  <2>3. ProcMsg => RecvChannel!Take
    BY ProcMsgStep
  <2>4. JoinFile => RecvChannel!Close
    BY RecvCloseStep
  <2>5. ASSUME \/ \E s \in Senders : SendMsg(s)
               \/ HostWrite \/ CheckExit \/ PassSend \/ ProcExit \/ Reply \/ ProcReturn
               \/ FileExit \/ FileWrite \/ ClearFlags \/ JoinCheck \/ JoinProc
               \/ UNCHANGED vars
        PROVE  UNCHANGED RecvChannel!chvars
    BY <2>5 DEF SendMsg, HostWrite, CheckExit, PassSend, ProcExit, Reply, ProcReturn, FileExit,
         FileWrite, ClearFlags, JoinCheck, JoinProc, vars, kqvars, boxvars, checkvars, outvars,
         condvars, InHand, RecvChannel!chvars
  <2> QED
    BY <2>1, <2>2, <2>3, <2>4, <2>5 DEF Next, CheckStep, ProcStep, FileStep, StopStep
<1> QED
  BY <1>1, <1>2, JoinedInvariant, PTL DEF Spec, RecvIsChannel, RecvChannel!Spec

=============================================================================
