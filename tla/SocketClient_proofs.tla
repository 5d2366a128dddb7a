------------------------- MODULE SocketClient_proofs -------------------------
(***************************************************************************)
(* What holds of SocketClient for any number of connections and messages   *)
(* and any bound of the buffer.                                            *)
(***************************************************************************)
EXTENDS SocketClient, Operators_proofs, FiniteSetTheorems

LEMMA UnitIsUnits == Unit = Units(Msgs)
BY DEF Unit, Units

(* A message as it goes over the stream, and as the handler gets it. *)
StartMark(k, n) == <<"<", <<k, n>>, 0>>
Header(k, n) == <<",", <<k, n>>, 1>>
EndMark(k, n) == <<">", <<k, n>>, 0>>

LEMMA MessageType ==
  ASSUME NEW k \in Nat, NEW n \in Nat \ {0}
  PROVE  /\ Message(k, n) \in Seq(Unit) /\ Len(Message(k, n)) = 3
         /\ Message(k, n)[1] = StartMark(k, n)
         /\ Message(k, n)[2] = Header(k, n)
         /\ Message(k, n)[3] = EndMark(k, n)
<1>1. PICK m \in Msgs : m = <<k, n>>
  BY DEF Msgs
<1>2. 1 \in Nat /\ 1 + 2 = 3 /\ 2 \in 2..(1 + 1)
  OBVIOUS
<1>3. /\ Wire(m, 1) \in Seq(Units(Msgs)) /\ Len(Wire(m, 1)) = 1 + 2
      /\ Wire(m, 1)[1] = <<"<", m, 0>>
      /\ Wire(m, 1)[1 + 2] = <<">", m, 0>>
      /\ \A i \in 2..(1 + 1) : Wire(m, 1)[i] = <<IF i = 2 THEN "," ELSE ".", m, i - 1>>
  BY <1>2, WireType
<1>4. Wire(m, 1)[2] = <<",", m, 1>>
  <2>1. Wire(m, 1)[2] = <<IF 2 = 2 THEN "," ELSE ".", m, 2 - 1>>
    BY <1>2, <1>3
  <2>2. 2 - 1 = 1
    OBVIOUS
  <2>3. QED
    BY <2>1, <2>2, Zenon
<1>5. Message(k, n) = Wire(m, 1)
  BY <1>1 DEF Message
<1>6. QED
  BY <1>1, <1>2, <1>3, <1>4, <1>5, UnitIsUnits DEF StartMark, Header, EndMark

LEMMA WholeType ==
  ASSUME NEW k \in Nat, NEW n \in Nat \ {0}
  PROVE  Whole(k, n) \in Seq(Unit) /\ Len(Whole(k, n)) = 1 /\ Whole(k, n)[1] = Header(k, n)
<1>1. PICK m \in Msgs : m = <<k, n>>
  BY DEF Msgs
<1>2. 1 \in Nat /\ 1 \in 1..1
  OBVIOUS
<1>3. /\ Body(m, 1) \in Seq(Units(Msgs)) /\ Len(Body(m, 1)) = 1
      /\ \A i \in 1..1 : Body(m, 1)[i] = <<IF i = 1 THEN "," ELSE ".", m, i>>
  BY <1>2, BodyType
<1>4. Body(m, 1)[1] = <<",", m, 1>>
  BY <1>2, <1>3
<1>5. QED
  BY <1>1, <1>3, <1>4, UnitIsUnits DEF Whole, Header

IsStart(s, i) == s[i][1] = "<"
IsEnd(s, i) == s[i][1] = ">"

LEMMA MarkKinds ==
  ASSUME NEW s, NEW i, NEW k, NEW n
  PROVE  /\ s[i] = StartMark(k, n) => IsStart(s, i) /\ ~IsEnd(s, i)
         /\ s[i] = Header(k, n) => ~IsStart(s, i) /\ ~IsEnd(s, i)
         /\ s[i] = EndMark(k, n) => IsEnd(s, i) /\ ~IsStart(s, i)
         /\ IsStart(s, i) => ~IsEnd(s, i)
<1>1. StartMark(k, n)[1] = "<" /\ Header(k, n)[1] = "," /\ EndMark(k, n)[1] = ">"
  BY DEF StartMark, Header, EndMark
<1>2. "<" # ">" /\ "<" # "," /\ ">" # ","
  OBVIOUS
<1>3. QED
  BY <1>1, <1>2, Zenon DEF IsStart, IsEnd

LEMMA SameKind ==
  ASSUME NEW s, NEW i, NEW t, NEW j, s[i] = t[j]
  PROVE  (IsStart(s, i) <=> IsStart(t, j)) /\ (IsEnd(s, i) <=> IsEnd(t, j))
BY DEF IsStart, IsEnd

(* The first start mark and the first end mark of a buffer. *)
LEMMA FindMarks ==
  ASSUME NEW s \in Seq(Unit)
  PROVE  /\ Find(s, "<") \in 0..Len(s) /\ Find(s, ">") \in 0..Len(s) /\ Len(s) \in Nat
         /\ Find(s, "<") = 0 => \A i \in 1..Len(s) : ~IsStart(s, i)
         /\ Find(s, "<") # 0 =>
              /\ IsStart(s, Find(s, "<"))
              /\ \A i \in 1..(Find(s, "<") - 1) : ~IsStart(s, i)
         /\ Find(s, ">") = 0 => \A i \in 1..Len(s) : ~IsEnd(s, i)
         /\ Find(s, ">") # 0 =>
              /\ IsEnd(s, Find(s, ">"))
              /\ \A i \in 1..(Find(s, ">") - 1) : ~IsEnd(s, i)
<1>1. ASSUME NEW kind
      PROVE  /\ Find(s, kind) \in 0..Len(s)
             /\ Find(s, kind) = 0 => \A i \in 1..Len(s) : s[i][1] # kind
             /\ Find(s, kind) # 0 =>
                  /\ s[Find(s, kind)][1] = kind
                  /\ \A i \in 1..(Find(s, kind) - 1) : s[i][1] # kind
  BY FindType
<1>2. Len(s) \in Nat
  BY LenProperties
<1>3. QED
  BY <1>1, <1>2, Zenon DEF IsStart, IsEnd

LEMMA Names ==
  ASSUME NEW k, NEW n, NEW l, NEW m
  PROVE  /\ StartMark(k, n) # Header(l, m) /\ StartMark(k, n) # EndMark(l, m)
         /\ Header(k, n) # EndMark(l, m)
         /\ StartMark(k, n) = StartMark(l, m) => k = l /\ n = m
         /\ Header(k, n) = Header(l, m) => k = l /\ n = m
         /\ EndMark(k, n) = EndMark(l, m) => k = l /\ n = m
BY DEF StartMark, Header, EndMark

LEMMA WholeNames ==
  ASSUME NEW k \in Nat, NEW n \in Nat \ {0}, NEW l \in Nat, NEW m \in Nat \ {0},
         Whole(k, n) = Whole(l, m)
  PROVE  k = l /\ n = m
<1>1. Header(k, n) = Header(l, m)
  <2>1. Whole(k, n)[1] = Header(k, n) /\ Whole(l, m)[1] = Header(l, m)
    BY WholeType
  <2>2. Whole(k, n)[1] = Whole(l, m)[1]
    OBVIOUS
  <2>3. QED
    BY <2>1, <2>2
<1>2. Header(k, n) = Header(l, m) => k = l /\ n = m
  BY DEF Header
<1>3. QED
  BY <1>1, <1>2

-----------------------------------------------------------------------------
(* TypeOK is inductive with: a connection has a socket, the thread that    *)
(* uses it has one, and before a connection is made nothing can be read.   *)
ControlType ==
  /\ checkPc \in CheckPcs /\ procPc \in ProcPcs
  /\ condCheck \in BOOLEAN /\ condProc \in BOOLEAN
  /\ mainPc \in MainPcs
  /\ mainPc = "stopped" => checkPc \in {"exit", "absent"}
  /\ checkPc = "absent" => link = "none" /\ conns = 0
  /\ sock \in BOOLEAN /\ bConnect \in BOOLEAN
  /\ iLoop \in 0..ConnectTries /\ eagain \in BOOLEAN
  /\ link \in Links /\ unacked \in BOOLEAN
  /\ conns \in 0..ConnBound /\ sent \in 0..SendBound
  /\ ~sock => link = "none" /\ ~bConnect
  /\ checkPc \in {"connect", "select", "poll", "frame"} => sock
  /\ link \in {"none", "syn"} => stream = <<>> /\ checkPc # "frame"
  /\ link = "up" => conns # 0

DataType ==
  /\ strBuf \in Seq(Unit) /\ iCnt \in Nat
  /\ qRecv \in Seq(Seq(Unit)) /\ handled \in Seq(Seq(Unit))
  /\ stream \in Seq(Unit)

TypeInv == ControlType /\ DataType

PeerMove == PeerAccepts \/ PeerSend \/ PeerCloses \/ PeerLost \/ PeerRefuses \/ KernelGivesUp

ThreadMove == CheckStep \/ ProcStep \/ ClearFlags \/ StopStep

LEMMA TypeInit == Init => TypeInv
<1> SUFFICES ASSUME Init
             PROVE  TypeInv
  OBVIOUS
<1>1. \A S : <<>> \in Seq(S)
  BY EmptySeq
<1>2. 0 \in 0..ConnectTries /\ 0 \in 0..ConnBound /\ 0 \in 0..SendBound
  BY ClientAssumption
<1>3. QED
  BY <1>1, <1>2
  DEF Init, TypeInv, ControlType, DataType, CheckPcs, ProcPcs, MainPcs, Links

LEMMA ControlStep ==
  ASSUME TypeInv, Next
  PROVE  ControlType'
<1>0. ControlType /\ DataType
  BY DEF TypeInv
<1>a. ConnBound \in Nat /\ SendBound \in Nat /\ ConnectTries \in Nat \ {0}
  BY ClientAssumption
<1>1. CASE PeerAccepts
  <2>1. conns + 1 \in 0..ConnBound /\ conns + 1 # 0 /\ 0 \in 0..SendBound
    BY <1>0, <1>1, <1>a DEF PeerAccepts, ControlType
  <2>2. QED
    BY <1>0, <1>1, <2>1 DEF PeerAccepts, ControlType, condvars, sockvars, Links
<1>2. CASE PeerSend
  <2>1. sent + 1 \in 0..SendBound
    BY <1>0, <1>2, <1>a, FirstAssumption DEF PeerSend, ControlType
  <2>2. QED
    BY <1>0, <1>2, <2>1 DEF PeerSend, ControlType, condvars, sockvars, linkvars
<1>3. CASE PeerCloses
  BY <1>0, <1>3 DEF PeerCloses, ControlType, condvars, sockvars, peervars, Links
<1>4. CASE PeerLost
  BY <1>0, <1>4 DEF PeerLost, ControlType, condvars, sockvars, peervars, Links
<1>5. CASE PeerRefuses
  BY <1>0, <1>5 DEF PeerRefuses, ControlType, condvars, sockvars, peervars, Links
<1>6. CASE KernelGivesUp
  BY <1>0, <1>6 DEF KernelGivesUp, ControlType, condvars, sockvars, peervars, Links
<1>7. CASE CheckStart
  BY <1>0, <1>7 DEF CheckStart, ControlType, sockvars, linkvars, peervars, CheckPcs
<1>8. CASE CheckExit
  BY <1>0, <1>8 DEF CheckExit, CloseSocket, ControlType, condvars, peervars, CheckPcs, Links
<1>9. CASE Create
  BY <1>0, <1>9 DEF Create, ControlType, condvars, linkvars, peervars, CheckPcs
<1>10. CASE CreateFails \/ ConnectFails \/ SelectFails
  <2>1. 0 \in 0..ConnectTries
    BY <1>a
  <2>2. StartOver /\ checkPc \notin {"exit", "absent"}
    BY <1>10 DEF CreateFails, ConnectFails, SelectFails
  <2>3. QED
    BY <1>0, <2>1, <2>2 DEF StartOver, CloseSocket, ControlType, condvars, peervars, CheckPcs, Links
<1>11. CASE Connect
  <2>1. 0 \in 0..ConnectTries
    BY <1>a
  <2>2. QED
    BY <1>0, <1>11, <2>1 DEF Connect, ControlType, condvars, sockvars, peervars, CheckPcs, Links
<1>12. CASE Select
  <2>1. iLoop + 1 \in 0..ConnectTries /\ 0 \in 0..ConnectTries
    BY <1>0, <1>12, <1>a DEF Select, ControlType
  <2>2. QED
    BY <1>0, <1>12, <2>1 DEF Select, ControlType, condvars, peervars, CheckPcs, Links
<1>13. CASE PollIdle \/ SendDummy
  BY <1>0, <1>13
  DEF PollIdle, SendDummy, ControlType, condvars, sockvars, linkvars, peervars, CheckPcs
<1>14. CASE DummyFails
  BY <1>0, <1>14 DEF DummyFails, ControlType, condvars, peervars, CheckPcs, Links
<1>15. CASE Recv
  <2>1. link \notin {"none", "syn"}
    BY <1>0, <1>15 DEF Recv, ControlType
  <2>2. QED
    BY <1>0, <1>15, <2>1 DEF Recv, ControlType, condvars, sockvars, linkvars, peervars, CheckPcs
<1>16. CASE RecvAgain
  BY <1>0, <1>16 DEF RecvAgain, ControlType, condvars, sockvars, linkvars, peervars, CheckPcs
<1>17. CASE RecvEnd
  <2>1. eagain' \in BOOLEAN
    BY <1>0, <1>17 DEF RecvEnd, ControlType
  <2>2. CASE eagain'
    BY <1>0, <1>17, <2>1, <2>2 DEF RecvEnd, ControlType, condvars, sockvars, linkvars, peervars,
                                   CheckPcs
  <2>3. CASE ~eagain'
    BY <1>0, <1>17, <2>1, <2>3 DEF RecvEnd, CloseSocket, ControlType, condvars, peervars, CheckPcs,
                                   Links
  <2>4. QED
    BY <2>2, <2>3
<1>18. CASE Frame
  BY <1>0, <1>18 DEF Frame, ControlType, condvars, sockvars, linkvars, peervars
<1>19. CASE FrameEnd
  BY <1>0, <1>19 DEF FrameEnd, ControlType, condvars, sockvars, linkvars, peervars, CheckPcs
<1>20. CASE ProcStart
  BY <1>0, <1>20 DEF ProcStart, ControlType, sockvars, linkvars, peervars, ProcPcs
<1>21. CASE ProcMsg
  BY <1>0, <1>21 DEF ProcMsg, ControlType, condvars, sockvars, linkvars, peervars
<1>22. CASE ProcGarbage
  BY <1>0, <1>22 DEF ProcGarbage, ControlType, condvars, sockvars, linkvars, peervars, ProcPcs
<1>23. CASE ProcExit
  BY <1>0, <1>23 DEF ProcExit, ControlType, condvars, sockvars, linkvars, peervars, ProcPcs
<1>24. CASE ClearFlags
  BY <1>0, <1>24 DEF ClearFlags, ControlType, sockvars, linkvars, peervars, MainPcs
<1>25. CASE JoinProc
  BY <1>0, <1>25 DEF JoinProc, ControlType, condvars, sockvars, linkvars, peervars, MainPcs
<1>26. CASE JoinCheck
  BY <1>0, <1>26 DEF JoinCheck, ControlType, condvars, sockvars, linkvars, peervars, MainPcs
<1>27. CASE JoinDies
  BY <1>0, <1>27 DEF JoinDies, ControlType, condvars, sockvars, linkvars, peervars, ProcPcs
<1>28. QED
  BY <1>1, <1>2, <1>3, <1>4, <1>5, <1>6, <1>7, <1>8, <1>9, <1>10, <1>11, <1>12, <1>13, <1>14,
     <1>15, <1>16, <1>17, <1>18, <1>19, <1>20, <1>21, <1>22, <1>23, <1>24, <1>25,
     <1>26, <1>27
  DEF Next, CheckStep, ProcStep, StopStep

LEMMA DataStep ==
  ASSUME TypeInv, Next
  PROVE  DataType'
<1>0. ControlType /\ DataType /\ \A S : <<>> \in Seq(S)
  BY EmptySeq DEF TypeInv
<1>1. CASE PeerSend \/ PeerCloses
  <2>1. conns \in Nat /\ sent + 1 \in Nat \ {0}
    BY <1>0, ClientAssumption DEF ControlType
  <2>2. Message(conns, sent + 1) \in Seq(Unit) /\ Len(Message(conns, sent + 1)) = 3
    BY <2>1, MessageType
  <2>3. \A k \in 0..2 : SubSeq(Message(conns, sent + 1), 1, k) \in Seq(Unit)
    <3> TAKE k \in 0..2
    <3>1. k \in 0..3
      OBVIOUS
    <3>2. QED
      BY <2>2, <3>1, PrefixType
  <2>4. stream' \in Seq(Unit)
    BY <1>0, <1>1, <2>2, <2>3, ConcatProperties, ZenonT(60) DEF PeerSend, PeerCloses, DataType
  <2>5. QED
    BY <1>0, <1>1, <2>4 DEF PeerSend, PeerCloses, DataType, bufvars
<1>2. CASE PeerAccepts \/ PeerLost \/ PeerRefuses \/ KernelGivesUp
  BY <1>0, <1>2 DEF PeerAccepts, PeerLost, PeerRefuses, KernelGivesUp, DataType, bufvars
<1>3. CASE Recv
  <2>1. PICK k \in 1..Len(stream) :
          /\ strBuf' = strBuf \o SubSeq(stream, 1, k)
          /\ stream' = Erase(stream, k)
          /\ iCnt' = k
    BY <1>3 DEF Recv
  <2>2. k \in 0..Len(stream) /\ k \in Nat
    BY <1>0, LenProperties DEF DataType
  <2>3. SubSeq(stream, 1, k) \in Seq(Unit) /\ Erase(stream, k) \in Seq(Unit)
    BY <1>0, <2>2, PrefixType, EraseType DEF DataType
  <2>4. strBuf' \in Seq(Unit)
    BY <1>0, <2>1, <2>3, ConcatProperties DEF DataType
  <2>5. QED
    BY <1>0, <1>3, <2>1, <2>2, <2>3, <2>4 DEF Recv, DataType
<1>4. CASE Frame
  <2>1. StripMark(strBuf) \in 1..Len(strBuf) /\ StripData(strBuf) \in Seq(Unit)
    BY <1>0, <1>4, StripType DEF Frame, DataType
  <2>2. StripMark(strBuf) \in 0..Len(strBuf) /\ Len(strBuf) \in Nat
    BY <1>0, <2>1, LenProperties DEF DataType
  <2>3. Erase(strBuf, StripMark(strBuf)) \in Seq(Unit)
    BY <1>0, <2>2, EraseType DEF DataType
  <2>4. Append(qRecv, StripData(strBuf)) \in Seq(Seq(Unit))
    BY <1>0, <2>1, AppendProperties DEF DataType
  <2>5. iCnt - 1 \in Nat
    BY <1>0, <1>4 DEF Frame, DataType
  <2>6. QED
    BY <1>0, <1>4, <2>3, <2>4, <2>5 DEF Frame, DataType
<1>5. CASE FrameEnd
  <2>1. Overflow(strBuf) \in Seq(Unit)
    BY <1>0, OverflowType DEF DataType
  <2>2. QED
    BY <1>0, <1>5, <2>1 DEF FrameEnd, DataType
<1>6. CASE CheckStart \/ CheckExit \/ Create \/ Connect \/ Select \/ PollIdle \/ SendDummy
          \/ DummyFails \/ RecvAgain
  BY <1>0, <1>6
  DEF CheckStart, CheckExit, CloseSocket, Create, Connect, Select, PollIdle, SendDummy, DummyFails,
      RecvAgain, DataType, bufvars
<1>7. CASE StartOver
  BY <1>0, <1>7 DEF StartOver, CloseSocket, DataType
<1>8. CASE RecvEnd
  BY <1>0, <1>8 DEF RecvEnd, CloseSocket, DataType, bufvars
<1>9. CASE ProcMsg
  <2>1. Head(qRecv) \in Seq(Unit) /\ Tail(qRecv) \in Seq(Seq(Unit))
    BY <1>0, <1>9, HeadTailProperties DEF ProcMsg, DataType
  <2>2. Append(handled, Head(qRecv)) \in Seq(Seq(Unit))
    BY <1>0, <2>1, AppendProperties DEF DataType
  <2>3. QED
    BY <1>0, <1>9, <2>1, <2>2 DEF ProcMsg, DataType, bufvars
<1>10. CASE ProcStart \/ ProcGarbage \/ ProcExit \/ ClearFlags \/ StopStep
  BY <1>0, <1>10
  DEF ProcStart, ProcGarbage, ProcExit, ClearFlags, StopStep, JoinProc, JoinCheck, JoinDies,
      DataType, bufvars
<1>11. QED
  BY <1>1, <1>2, <1>3, <1>4, <1>5, <1>6, <1>7, <1>8, <1>9, <1>10
  DEF Next, CheckStep, ProcStep, CreateFails, ConnectFails, SelectFails

LEMMA TypeStep == TypeInv /\ [Next]_vars => TypeInv'
<1>1. TypeInv /\ Next => TypeInv'
  BY ControlStep, DataStep DEF TypeInv
<1>2. TypeInv /\ UNCHANGED vars => TypeInv'
  BY DEF vars, condvars, sockvars, bufvars, linkvars, peervars, TypeInv, ControlType, DataType
<1>3. QED
  BY <1>1, <1>2

(* Every variable keeps a value of its C++ type, and there is a connection *)
(* only over a socket.                                                     *)
THEOREM TypeCorrect == Spec => []TypeOK
<1>1. Init => TypeInv
  BY TypeInit
<1>2. TypeInv /\ [Next]_vars => TypeInv'
  BY TypeStep
<1>3. TypeInv => TypeOK
  BY DEF TypeInv, ControlType, DataType, TypeOK
<1>4. QED
  BY <1>1, <1>2, <1>3, PTL DEF Spec

-----------------------------------------------------------------------------
(* Part of what is sent on connection k: from the start of its message n,  *)
(* one whole message after the other, perhaps with a last one that is cut. *)
Starts(k, s, n) == s # <<>> => s[1] = StartMark(k, n)

Flows(k, s) ==
  \A i \in 1..(Len(s) - 1), n \in Nat \ {0} :
    /\ s[i] = StartMark(k, n) => s[i + 1] = Header(k, n)
    /\ s[i] = Header(k, n) => s[i + 1] = EndMark(k, n)
    /\ s[i] = EndMark(k, n) => s[i + 1] = StartMark(k, n + 1)

Shape(k, s, n) == Starts(k, s, n) /\ Flows(k, s)

(* It ends with message m, of which nothing is missing. *)
Ended(k, s, n, m) == IF s = <<>> THEN n = m + 1 ELSE s[Len(s)] = EndMark(k, m)

(* The peer goes on with the next message, or a part of it. *)
LEMMA ShapeSend ==
  ASSUME NEW k \in Nat, NEW s \in Seq(Unit), NEW t \in Seq(Unit), NEW n \in Nat \ {0},
         NEW m \in Nat, NEW l \in 0..3,
         Shape(k, s, n), Ended(k, s, n, m),
         Len(t) = Len(s) + l,
         \A i \in 1..Len(s) : t[i] = s[i],
         \A i \in 1..l : t[Len(s) + i] = Message(k, m + 1)[i]
  PROVE  Shape(k, t, n) /\ (l = 3 => Ended(k, t, n, m + 1))
<1>1. Len(s) \in Nat /\ Len(t) \in Nat /\ m + 1 \in Nat \ {0}
  BY LenProperties
<1>2. /\ Message(k, m + 1)[1] = StartMark(k, m + 1)
      /\ Message(k, m + 1)[2] = Header(k, m + 1)
      /\ Message(k, m + 1)[3] = EndMark(k, m + 1)
  BY <1>1, MessageType
<1>3. s # <<>> => Len(s) > 0 /\ s[Len(s)] = EndMark(k, m)
  BY <1>1, EmptySeq DEF Ended
<1>4. s = <<>> => n = m + 1 /\ Len(s) = 0
  BY EmptySeq DEF Ended
<1>5. t # <<>> => Len(t) > 0
  BY <1>1, EmptySeq
<1>6. Starts(k, t, n)
  <2> SUFFICES ASSUME t # <<>>
               PROVE  t[1] = StartMark(k, n)
    BY DEF Starts
  <2>1. CASE s # <<>>
    BY <1>1, <1>3, <2>1 DEF Shape, Starts
  <2>2. CASE s = <<>>
    <3>1. 1 \in 1..l /\ Len(s) + 1 = 1
      BY <1>1, <1>4, <1>5, <2>2
    <3>2. t[1] = Message(k, m + 1)[1]
      BY <3>1
    <3> QED BY <1>2, <1>4, <2>2, <3>2
  <2> QED BY <2>1, <2>2
<1>7. Flows(k, t)
  <2> SUFFICES ASSUME NEW i \in 1..(Len(t) - 1), NEW j \in Nat \ {0}
               PROVE  /\ t[i] = StartMark(k, j) => t[i + 1] = Header(k, j)
                      /\ t[i] = Header(k, j) => t[i + 1] = EndMark(k, j)
                      /\ t[i] = EndMark(k, j) => t[i + 1] = StartMark(k, j + 1)
    BY DEF Flows
  <2>1. CASE i < Len(s)
    <3>1. i \in 1..(Len(s) - 1) /\ t[i] = s[i] /\ t[i + 1] = s[i + 1]
      <4>1. i \in 1..(Len(s) - 1) /\ i \in 1..Len(s) /\ i + 1 \in 1..Len(s)
        BY <1>1, <2>1
      <4> QED BY <4>1
    <3> QED BY <3>1 DEF Shape, Flows
  <2>2. CASE i = Len(s)
    <3>1. t[i] = EndMark(k, m) /\ t[i + 1] = StartMark(k, m + 1)
      <4>1. i \in 1..Len(s) /\ s # <<>> /\ 1 \in 1..l
        BY <1>1, <1>4, <2>2
      <4> QED BY <1>2, <1>3, <2>2, <4>1
    <3>2. /\ EndMark(k, m) # StartMark(k, j) /\ EndMark(k, m) # Header(k, j)
          /\ EndMark(k, m) = EndMark(k, j) => m = j
      BY DEF StartMark, Header, EndMark
    <3> QED BY <3>1, <3>2, Zenon
  <2>3. CASE i = Len(s) + 1
    <3>1. t[i] = StartMark(k, m + 1) /\ t[i + 1] = Header(k, m + 1)
      <4>1. 1 \in 1..l /\ 2 \in 1..l /\ i + 1 = Len(s) + 2
        BY <1>1, <2>3
      <4> QED BY <1>2, <2>3, <4>1
    <3>2. /\ StartMark(k, m + 1) # Header(k, j) /\ StartMark(k, m + 1) # EndMark(k, j)
          /\ StartMark(k, m + 1) = StartMark(k, j) => m + 1 = j
      BY DEF StartMark, Header, EndMark
    <3> QED BY <3>1, <3>2, Zenon
  <2>4. CASE i = Len(s) + 2
    <3>1. t[i] = Header(k, m + 1) /\ t[i + 1] = EndMark(k, m + 1)
      <4>1. 2 \in 1..l /\ 3 \in 1..l /\ i + 1 = Len(s) + 3
        BY <1>1, <2>4
      <4> QED BY <1>2, <2>4, <4>1
    <3>2. /\ Header(k, m + 1) # StartMark(k, j) /\ Header(k, m + 1) # EndMark(k, j)
          /\ Header(k, m + 1) = Header(k, j) => m + 1 = j
      BY DEF StartMark, Header, EndMark
    <3> QED BY <3>1, <3>2, Zenon
  <2>5. i < Len(s) \/ i = Len(s) \/ i = Len(s) + 1 \/ i = Len(s) + 2
    <3>1. Len(s) \in Nat /\ i \in Nat /\ i < Len(s) + l /\ l \in 0..3
      BY <1>1
    <3> QED BY ONLY <3>1
  <2> QED BY <2>1, <2>2, <2>3, <2>4, <2>5
<1>8. ASSUME l = 3
      PROVE  Ended(k, t, n, m + 1)
  <2>1. 3 \in 1..l /\ Len(t) > 0 /\ Len(s) + 3 = Len(t)
    BY <1>1, <1>8
  <2>2. t[Len(t)] = EndMark(k, m + 1)
    BY <1>2, <2>1
  <2>3. t # <<>>
    BY <2>1, EmptySeq
  <2> QED BY <2>2, <2>3 DEF Ended
<1> QED
  BY <1>6, <1>7, <1>8 DEF Shape

(* The first message, *)
LEMMA ShapeHead ==
  ASSUME NEW k \in Nat, NEW s \in Seq(Unit), NEW n \in Nat \ {0}, Shape(k, s, n)
  PROVE  /\ Len(s) \in Nat
         /\ Len(s) >= 1 => s[1] = StartMark(k, n)
         /\ Len(s) >= 2 => s[2] = Header(k, n)
         /\ Len(s) >= 3 => s[3] = EndMark(k, n)
         /\ Len(s) >= 4 => s[4] = StartMark(k, n + 1)
<1>1. Len(s) \in Nat /\ (Len(s) >= 1 => s # <<>>)
  BY LenProperties, EmptySeq
<1>2. Len(s) >= 1 => s[1] = StartMark(k, n)
  BY <1>1 DEF Shape, Starts
<1>3. Len(s) >= 2 => s[2] = Header(k, n)
  <2>1. Len(s) >= 2 => 1 \in 1..(Len(s) - 1) /\ Len(s) >= 1 /\ 1 + 1 = 2
    BY <1>1
  <2> QED BY <1>2, <2>1 DEF Shape, Flows
<1>4. Len(s) >= 3 => s[3] = EndMark(k, n)
  <2>1. Len(s) >= 3 => 2 \in 1..(Len(s) - 1) /\ Len(s) >= 2 /\ 2 + 1 = 3
    BY <1>1
  <2> QED BY <1>3, <2>1 DEF Shape, Flows
<1>5. Len(s) >= 4 => s[4] = StartMark(k, n + 1)
  <2>1. Len(s) >= 4 => 3 \in 1..(Len(s) - 1) /\ Len(s) >= 3 /\ 3 + 1 = 4
    BY <1>1
  <2> QED BY <1>4, <2>1 DEF Shape, Flows
<1> QED
  BY <1>1, <1>2, <1>3, <1>4, <1>5

(* and what is left when it has gone. *)
LEMMA ShapeErase ==
  ASSUME NEW k \in Nat, NEW s \in Seq(Unit), NEW n \in Nat \ {0}, Shape(k, s, n), Len(s) >= 3
  PROVE  /\ Shape(k, Erase(s, 3), n + 1)
         /\ \A m \in Nat : Ended(k, s, n, m) => Ended(k, Erase(s, 3), n + 1, m)
<1> DEFINE t == Erase(s, 3)
<1>1. Len(s) \in Nat /\ Len(s) >= 3 /\ 3 \in 0..Len(s)
  BY LenProperties
<1>2. t \in Seq(Unit) /\ Len(t) = Len(s) - 3 /\ \A i \in 1..(Len(s) - 3) : t[i] = s[i + 3]
  BY <1>1, EraseType
<1> HIDE DEF t
<1>3. /\ s[3] = EndMark(k, n)
      /\ Len(s) >= 4 => s[4] = StartMark(k, n + 1)
  BY <1>1, ShapeHead
<1>4. Starts(k, t, n + 1)
  <2> SUFFICES ASSUME t # <<>>
               PROVE  t[1] = StartMark(k, n + 1)
    BY DEF Starts
  <2>1. Len(t) \in Nat \ {0}
    BY <1>2, EmptySeq
  <2>2. 1 \in 1..(Len(s) - 3) /\ Len(s) >= 4 /\ 1 + 3 = 4
    BY <1>1, <1>2, <2>1
  <2> QED BY <1>2, <1>3, <2>2
<1>5. Flows(k, t)
  <2> SUFFICES ASSUME NEW i \in 1..(Len(t) - 1), NEW j \in Nat \ {0}
               PROVE  /\ t[i] = StartMark(k, j) => t[i + 1] = Header(k, j)
                      /\ t[i] = Header(k, j) => t[i + 1] = EndMark(k, j)
                      /\ t[i] = EndMark(k, j) => t[i + 1] = StartMark(k, j + 1)
    BY DEF Flows
  <2>1. /\ i \in 1..(Len(s) - 3) /\ i + 1 \in 1..(Len(s) - 3)
        /\ i + 3 \in 1..(Len(s) - 1) /\ (i + 1) + 3 = (i + 3) + 1
    BY <1>1, <1>2
  <2>2. t[i] = s[i + 3] /\ t[i + 1] = s[(i + 3) + 1]
    BY <1>2, <2>1
  <2> QED BY <2>1, <2>2 DEF Shape, Flows
<1>6. ASSUME NEW m \in Nat, Ended(k, s, n, m)
      PROVE  Ended(k, t, n + 1, m)
  <2>1. s[Len(s)] = EndMark(k, m)
    <3>1. s # <<>>
      BY <1>1, EmptySeq
    <3> QED BY <1>6, <3>1 DEF Ended
  <2>2. CASE t = <<>>
    <3>1. Len(s) = 3
      BY <1>1, <1>2, <2>2, EmptySeq
    <3>2. EndMark(k, n) = EndMark(k, m)
      BY <1>3, <2>1, <3>1
    <3>3. n = m
      BY <3>2 DEF EndMark
    <3> QED BY <2>2, <3>3 DEF Ended
  <2>3. CASE t # <<>>
    <3>1. Len(t) \in Nat \ {0}
      BY <1>2, <2>3, EmptySeq
    <3>2. Len(t) \in 1..(Len(s) - 3) /\ Len(t) + 3 = Len(s)
      BY <1>1, <1>2, <3>1
    <3>3. t[Len(t)] = s[Len(s)]
      BY <1>2, <3>2
    <3> QED BY <2>1, <2>3, <3>3 DEF Ended
  <2> QED BY <2>2, <2>3
<1> QED
  BY <1>4, <1>5, <1>6 DEF Shape, t

(* What Frame finds in a buffer that holds the start of such a stream: the *)
(* first message, or no end mark and less than one message.                *)
LEMMA FirstPacket ==
  ASSUME NEW k \in Nat, NEW s \in Seq(Unit), NEW b \in Seq(Unit), NEW n \in Nat \ {0},
         Shape(k, s, n), Len(b) <= Len(s), \A i \in 1..Len(b) : b[i] = s[i]
  PROVE  /\ StripMark(b) > 0 =>
              Len(b) >= 3 /\ StripMark(b) = 3 /\ StripData(b) = Whole(k, n)
         /\ ~(StripMark(b) > 0) => Len(b) <= 2
<1>1. /\ Len(b) \in Nat /\ Len(s) \in Nat
      /\ Len(b) >= 1 => b[1] = StartMark(k, n)
      /\ Len(b) >= 2 => b[2] = Header(k, n)
      /\ Len(b) >= 3 => b[3] = EndMark(k, n)
  <2>1. Len(b) \in Nat /\ Len(s) \in Nat
    BY LenProperties
  <2>2. /\ Len(b) >= 1 => 1 \in 1..Len(b) /\ Len(s) >= 1
        /\ Len(b) >= 2 => 2 \in 1..Len(b) /\ Len(s) >= 2
        /\ Len(b) >= 3 => 3 \in 1..Len(b) /\ Len(s) >= 3
    BY <2>1
  <2> QED BY <2>1, <2>2, ShapeHead
<1>2. PICK f, e : f = Find(b, "<") /\ e = Find(b, ">")
  OBVIOUS
<1>3. /\ f \in 0..Len(b) /\ e \in 0..Len(b)
      /\ f = 0 => \A i \in 1..Len(b) : ~IsStart(b, i)
      /\ f # 0 => \A i \in 1..(f - 1) : ~IsStart(b, i)
      /\ e = 0 => \A i \in 1..Len(b) : ~IsEnd(b, i)
      /\ e # 0 => IsEnd(b, e) /\ \A i \in 1..(e - 1) : ~IsEnd(b, i)
  BY <1>2, FindMarks
<1>4. StripMark(b) = IF f = 0 THEN -1 ELSE e
  BY <1>2 DEF StripMark
<1>5. /\ Len(b) >= 1 => IsStart(b, 1) /\ ~IsEnd(b, 1)
      /\ Len(b) >= 2 => ~IsEnd(b, 2)
      /\ Len(b) >= 3 => IsEnd(b, 3)
  <2>1. /\ b[1] = StartMark(k, n) => IsStart(b, 1) /\ ~IsEnd(b, 1)
        /\ b[2] = Header(k, n) => ~IsEnd(b, 2)
        /\ b[3] = EndMark(k, n) => IsEnd(b, 3)
    BY ONLY MarkKinds, Zenon
  <2> QED BY <1>1, <2>1, Zenon
<1>l. Len(b) \in Nat
  BY <1>1
<1>6. ASSUME Len(b) >= 1
      PROVE  f = 1
  <2>1. 1 \in 1..Len(b) /\ IsStart(b, 1)
    BY <1>l, <1>5, <1>6
  <2>2. f # 0 /\ ~(1 \in 1..(f - 1))
    BY <1>3, <2>1
  <2> QED BY <1>l, <1>3, <2>2
<1>7. CASE Len(b) >= 3
  <2>1. f = 1 /\ 3 \in 1..Len(b) /\ IsEnd(b, 3)
    BY <1>l, <1>5, <1>6, <1>7
  <2>2. e # 0 /\ ~(3 \in 1..(e - 1))
    BY <1>3, <2>1
  <2>3. e \in 1..3
    BY <1>l, <1>3, <2>2
  <2>4. e # 1 /\ e # 2
    BY <1>l, <1>3, <1>5, <1>7, <2>2
  <2>5. e = 3 /\ StripMark(b) = 3
    BY <1>4, <2>1, <2>3, <2>4
  <2>6. StripData(b) = SubSeq(b, 2, 2)
    <3>1. Find(b, "<") = 1 /\ Find(b, ">") = 3 /\ 1 < 3 /\ 1 + 1 = 2 /\ 3 - 1 = 2
      BY <1>2, <2>1, <2>5
    <3> QED BY <3>1 DEF StripData
  <2>7. SubSeq(b, 2, 2) = Whole(k, n)
    <3>1. \A i \in 2..2 : b[i] \in Unit
      <4>1. 2 \in 1..Len(b)
        BY <1>1, <1>7
      <4>2. b[2] \in Unit
        BY <4>1, ElementOfSeq
      <4> QED BY <4>2
    <3>2. /\ SubSeq(b, 2, 2) \in Seq(Unit) /\ Len(SubSeq(b, 2, 2)) = 1
          /\ SubSeq(b, 2, 2)[1] = b[2]
      <4>1. /\ SubSeq(b, 2, 2) \in Seq(Unit)
            /\ Len(SubSeq(b, 2, 2)) = IF 2 <= 2 THEN 2 - 2 + 1 ELSE 0
            /\ \A i \in 1..(2 - 2 + 1) : SubSeq(b, 2, 2)[i] = b[2 + i - 1]
        BY <3>1, SubSeqProperties
      <4>2. 1 \in 1..(2 - 2 + 1) /\ 2 + 1 - 1 = 2 /\ 2 - 2 + 1 = 1 /\ 2 <= 2
        OBVIOUS
      <4>3. SubSeq(b, 2, 2)[1] = b[2 + 1 - 1]
        BY <4>1, <4>2
      <4> QED BY <4>1, <4>2, <4>3
    <3>3. Whole(k, n) \in Seq(Unit) /\ Len(Whole(k, n)) = 1 /\ Whole(k, n)[1] = b[2]
      BY <1>1, <1>7, WholeType
    <3>4. PICK u \in Seq(Unit), v \in Seq(Unit) : u = SubSeq(b, 2, 2) /\ v = Whole(k, n)
      BY <3>2, <3>3
    <3>5. Len(u) = Len(v) /\ \A i \in 1..Len(u) : u[i] = v[i]
      BY <3>2, <3>3, <3>4
    <3>6. u = v
      BY <3>5, SeqEqual
    <3> QED BY <3>4, <3>6
  <2> QED BY <1>7, <2>5, <2>6, <2>7
<1>8. CASE Len(b) <= 2
  <2>1. e = 0
    <3>1. CASE e # 0
      <4>1. e \in {1, 2} /\ e <= Len(b) /\ IsEnd(b, e)
        BY <1>l, <1>3, <1>8, <3>1
      <4> QED BY <1>l, <1>5, <4>1
    <3> QED BY <3>1
  <2>2. ~(StripMark(b) > 0)
    BY <1>4, <2>1
  <2> QED BY <1>8, <2>2
<1> QED
  BY <1>1, <1>7, <1>8

-----------------------------------------------------------------------------
(* The first end mark of a buffer that goes on. *)
LEMMA FirstEnd ==
  ASSUME NEW s \in Seq(Unit), NEW e \in 1..Len(s), IsEnd(s, e),
         \A i \in 1..(e - 1) : ~IsEnd(s, i)
  PROVE  Find(s, ">") = e
<1>1. /\ Find(s, ">") \in 0..Len(s) /\ Len(s) \in Nat
      /\ Find(s, ">") = 0 => \A i \in 1..Len(s) : ~IsEnd(s, i)
      /\ Find(s, ">") # 0 =>
           /\ IsEnd(s, Find(s, ">"))
           /\ \A i \in 1..(Find(s, ">") - 1) : ~IsEnd(s, i)
  BY FindMarks
<1>2. PICK f : f = Find(s, ">")
  OBVIOUS
<1>3. f # 0 /\ f \in 1..Len(s) /\ ~(e < f)
  BY <1>1, <1>2
<1>4. ~(f < e)
  BY <1>1, <1>2, <1>3
<1> QED
  BY <1>1, <1>2, <1>3, <1>4

LEMMA FindNone ==
  ASSUME NEW s \in Seq(Unit), \A i \in 1..Len(s) : ~IsEnd(s, i)
  PROVE  Find(s, ">") = 0
<1>1. /\ Find(s, ">") \in 0..Len(s) /\ Len(s) \in Nat
      /\ Find(s, ">") # 0 => IsEnd(s, Find(s, ">"))
  BY FindMarks
<1> QED
  BY <1>1

LEMMA Joined ==
  ASSUME NEW s \in Seq(Unit), NEW x \in Seq(Unit)
  PROVE  /\ s \o x \in Seq(Unit) /\ Len(s \o x) = Len(s) + Len(x)
         /\ Len(s) \in Nat /\ Len(x) \in Nat /\ Len(s) + Len(x) \in Nat
         /\ \A i \in 1..Len(s) : (s \o x)[i] = s[i]
         /\ \A i \in 1..Len(x) : (s \o x)[Len(s) + i] = x[i]
<1>1. Len(s) \in Nat /\ Len(x) \in Nat
  BY LenProperties
<1>2. /\ s \o x \in Seq(Unit) /\ Len(s \o x) = Len(s) + Len(x)
      /\ \A i \in 1..(Len(s) + Len(x)) :
           (s \o x)[i] = IF i <= Len(s) THEN s[i] ELSE x[i - Len(s)]
  BY ConcatProperties
<1>3. ASSUME NEW i \in 1..Len(s)
      PROVE  (s \o x)[i] = s[i]
  <2>1. i \in 1..(Len(s) + Len(x)) /\ i <= Len(s)
    BY <1>1
  <2> QED BY <1>2, <2>1
<1>4. ASSUME NEW i \in 1..Len(x)
      PROVE  (s \o x)[Len(s) + i] = x[i]
  <2>1. /\ Len(s) + i \in 1..(Len(s) + Len(x)) /\ ~(Len(s) + i <= Len(s))
        /\ (Len(s) + i) - Len(s) = i
    BY <1>1
  <2>2. (s \o x)[Len(s) + i] = x[(Len(s) + i) - Len(s)]
    BY <1>2, <2>1
  <2> QED BY <2>1, <2>2
<1> QED
  BY <1>1, <1>2, <1>3, <1>4

LEMMA FindLeft ==
  ASSUME NEW s \in Seq(Unit), NEW x \in Seq(Unit), NEW e, e = Find(s, ">"), e # 0
  PROVE  /\ e \in 1..Len(s) /\ Find(s \o x, ">") = e
         /\ Erase(s \o x, e) = Erase(s, e) \o x
         /\ Erase(s, e) \in Seq(Unit)
         /\ \A i \in 1..e : (s \o x)[i] = s[i]
<1>1. /\ e \in 1..Len(s) /\ Len(s) \in Nat /\ IsEnd(s, e)
      /\ \A i \in 1..(e - 1) : ~IsEnd(s, i)
  BY FindMarks
<1>2. /\ s \o x \in Seq(Unit) /\ Len(s \o x) = Len(s) + Len(x) /\ Len(x) \in Nat
      /\ \A i \in 1..Len(s) : (s \o x)[i] = s[i]
  BY Joined
<1>3. \A i \in 1..e : i \in 1..Len(s) /\ (s \o x)[i] = s[i]
  BY <1>1, <1>2
<1>4. e \in 1..Len(s \o x) /\ IsEnd(s \o x, e) /\ \A i \in 1..(e - 1) : ~IsEnd(s \o x, i)
  <2>1. \A i \in 1..e : IsEnd(s \o x, i) <=> IsEnd(s, i)
    BY <1>3, SameKind
  <2>2. e \in 1..Len(s \o x) /\ e \in 1..e /\ \A i \in 1..(e - 1) : i \in 1..e
    BY <1>1, <1>2
  <2> QED BY <1>1, <2>1, <2>2
<1>5. Find(s \o x, ">") = e
  BY <1>2, <1>4, FirstEnd
<1>6. e \in 0..Len(s)
  BY <1>1
<1> QED
  BY <1>1, <1>3, <1>5, <1>6, EraseFront, EraseType

LEMMA FindRight ==
  ASSUME NEW s \in Seq(Unit), NEW x \in Seq(Unit), Find(s, ">") = 0
  PROVE  /\ Find(x, ">") = 0 => Find(s \o x, ">") = 0
         /\ Find(x, ">") # 0 => Find(s \o x, ">") = Len(s) + Find(x, ">")
<1>1. /\ s \o x \in Seq(Unit) /\ Len(s \o x) = Len(s) + Len(x)
      /\ Len(s) \in Nat /\ Len(x) \in Nat
      /\ \A i \in 1..Len(s) : (s \o x)[i] = s[i]
      /\ \A i \in 1..Len(x) : (s \o x)[Len(s) + i] = x[i]
  BY Joined
<1>2. \A i \in 1..Len(s) : ~IsEnd(s \o x, i)
  <2>1. \A i \in 1..Len(s) : ~IsEnd(s, i)
    BY FindMarks
  <2> QED BY <1>1, <2>1, SameKind
<1>3. \A i \in 1..Len(x) : IsEnd(s \o x, Len(s) + i) <=> IsEnd(x, i)
  BY <1>1, SameKind
<1>4. \A i \in 1..(Len(s) + Len(x)) : i <= Len(s) \/ (i - Len(s) \in 1..Len(x) /\ Len(s) + (i - Len(s)) = i)
  BY <1>1
<1>5. ASSUME Find(x, ">") = 0
      PROVE  Find(s \o x, ">") = 0
  <2>1. \A i \in 1..Len(x) : ~IsEnd(x, i)
    BY <1>5, FindMarks
  <2>2. \A i \in 1..Len(s \o x) : ~IsEnd(s \o x, i)
    <3> SUFFICES ASSUME NEW i \in 1..Len(s \o x)
                 PROVE  ~IsEnd(s \o x, i)
      OBVIOUS
    <3>1. CASE i <= Len(s)
      BY <1>1, <1>2, <3>1
    <3>2. CASE ~(i <= Len(s))
      <4>1. PICK j \in 1..Len(x) : Len(s) + j = i
        BY <1>1, <1>4, <3>2
      <4> QED BY <1>3, <2>1, <4>1
    <3> QED BY <3>1, <3>2
  <2> QED BY <1>1, <2>2, FindNone
<1>6. ASSUME Find(x, ">") # 0
      PROVE  Find(s \o x, ">") = Len(s) + Find(x, ">")
  <2>1. PICK f \in 1..Len(x) : f = Find(x, ">")
    BY <1>1, <1>6, FindMarks
  <2>2. IsEnd(x, f) /\ \A i \in 1..(f - 1) : ~IsEnd(x, i)
    BY <2>1, <1>6, FindMarks
  <2>3. Len(s) + f \in 1..Len(s \o x) /\ IsEnd(s \o x, Len(s) + f)
    BY <1>1, <1>3, <2>2
  <2>4. \A i \in 1..(Len(s) + f - 1) : ~IsEnd(s \o x, i)
    <3> SUFFICES ASSUME NEW i \in 1..(Len(s) + f - 1)
                 PROVE  ~IsEnd(s \o x, i)
      OBVIOUS
    <3>1. CASE i <= Len(s)
      BY <1>1, <1>2, <3>1
    <3>2. CASE ~(i <= Len(s))
      <4>1. i - Len(s) \in 1..(f - 1) /\ i - Len(s) \in 1..Len(x) /\ Len(s) + (i - Len(s)) = i
        BY <1>1, <3>2
      <4> QED BY <1>3, <2>2, <4>1
    <3> QED BY <3>1, <3>2
  <2>5. PICK t \in Seq(Unit), e \in 1..Len(s \o x) : t = s \o x /\ e = Len(s) + f
    BY <1>1, <2>3
  <2>6. e \in 1..Len(t) /\ IsEnd(t, e) /\ \A i \in 1..(e - 1) : ~IsEnd(t, i)
    BY <2>3, <2>4, <2>5
  <2>7. Find(t, ">") = e
    BY <2>6, FirstEnd
  <2> QED BY <2>1, <2>5, <2>7
<1> QED
  BY <1>5, <1>6

-----------------------------------------------------------------------------
(* What waits in the buffer and in the stream, while connection k is the   *)
(* last one and m messages were sent on it.  Either it begins with message *)
(* n of the connection,                                                    *)
Intact(k, s, n, lk, m) == Shape(k, s, n) /\ (lk = "up" => Ended(k, s, n, m))

(* or with what was left of an earlier connection, or with a message that  *)
(* lost its start to the bound of the buffer: no end mark has come yet,    *)
NotYet(s, lk, m) == Find(s, ">") = 0 /\ (lk = "up" => m = 0)

(* the first end mark is that of the connection's first message, all of    *)
(* which that is still there comes right before it,                        *)
Cut(k, s, e) ==
  /\ s[e] = EndMark(k, 1)
  /\ e > 1 => s[e - 1] = Header(k, 1)
  /\ e > 2 => s[e - 2] = StartMark(k, 1)

(* or it was there, without a start mark, before the connection was made.  *)
Left(s, e, l) == e \in 1..2 /\ e <= l /\ (e = 2 => ~IsStart(s, 1))

Ends(k, s, n, lk, m) ==
  /\ Find(s, ">") # 0
  /\ Intact(k, Erase(s, Find(s, ">")), n, lk, m)

Debris(k, s, l, lk, m) ==
  \/ NotYet(s, lk, m)
  \/ Cut(k, s, Find(s, ">")) /\ Ends(k, s, 2, lk, m)
  \/ Left(s, Find(s, ">"), l) /\ Ends(k, s, 1, lk, m)

(* The peer sends the next message, or the first l units of it. *)
LEMMA IntactSend ==
  ASSUME NEW k \in Nat, NEW s \in Seq(Unit), NEW x \in Seq(Unit), NEW n \in Nat \ {0},
         NEW m \in Nat, NEW l \in 0..3, NEW lk, NEW p,
         Intact(k, s, n, "up", m), Len(x) = l,
         \A i \in 1..l : x[i] = Message(k, m + 1)[i],
         lk = "up" => l = 3 /\ p = m + 1
  PROVE  Intact(k, s \o x, n, lk, p)
<1>1. PICK t \in Seq(Unit) : t = s \o x
  BY Joined
<1>2. Len(t) = Len(s) + l /\ \A i \in 1..Len(s) : t[i] = s[i]
  BY <1>1, Joined
<1>3. \A i \in 1..l : t[Len(s) + i] = Message(k, m + 1)[i]
  BY <1>1, Joined
<1>4. Shape(k, s, n) /\ Ended(k, s, n, m)
  BY DEF Intact
<1>5. Shape(k, t, n) /\ (l = 3 => Ended(k, t, n, m + 1))
  BY <1>2, <1>3, <1>4, ShapeSend
<1> QED
  BY <1>1, <1>5 DEF Intact

LEMMA EmptyIntact ==
  ASSUME NEW k, NEW n, NEW lk, NEW m, lk = "up" => n = m + 1
  PROVE  Intact(k, <<>>, n, lk, m)
<1>1. Len(<<>>) = 0
  BY EmptySeq
<1>2. 1..(0 - 1) = {}
  OBVIOUS
<1>3. Shape(k, <<>>, n)
  BY <1>1, <1>2 DEF Shape, Starts, Flows
<1> QED
  BY <1>3 DEF Intact, Ended

LEMMA DebrisSend ==
  ASSUME NEW k \in Nat, NEW s \in Seq(Unit), NEW x \in Seq(Unit), NEW c \in Nat,
         NEW m \in Nat, NEW l \in 0..3, NEW lk, NEW p,
         Debris(k, s, c, "up", m), Len(x) = l,
         \A i \in 1..l : x[i] = Message(k, m + 1)[i],
         lk = "up" => l = 3 /\ p = m + 1
  PROVE  Debris(k, s \o x, c, lk, p)
<1>m. /\ Message(k, m + 1)[1] = StartMark(k, m + 1)
      /\ Message(k, m + 1)[2] = Header(k, m + 1)
      /\ Message(k, m + 1)[3] = EndMark(k, m + 1)
  <2>1. m + 1 \in Nat \ {0}
    OBVIOUS
  <2> QED BY <2>1, MessageType
<1>1. CASE NotYet(s, "up", m)
  <2>0. Find(s, ">") = 0 /\ m + 1 = 1
    BY <1>1 DEF NotYet
  <2>j. /\ s \o x \in Seq(Unit) /\ Len(s \o x) = Len(s) + l /\ Len(s) \in Nat
        /\ \A i \in 1..l : (s \o x)[Len(s) + i] = x[i]
    BY Joined
  <2>k. /\ l >= 1 => x[1] = StartMark(k, 1) /\ ~IsEnd(x, 1)
        /\ l >= 2 => x[2] = Header(k, 1) /\ ~IsEnd(x, 2)
        /\ l >= 3 => x[3] = EndMark(k, 1) /\ IsEnd(x, 3)
    <3>1. /\ l >= 1 => x[1] = StartMark(k, 1)
          /\ l >= 2 => x[2] = Header(k, 1)
          /\ l >= 3 => x[3] = EndMark(k, 1)
      BY <1>m, <2>0
    <3>2. /\ x[1] = StartMark(k, 1) => ~IsEnd(x, 1)
          /\ x[2] = Header(k, 1) => ~IsEnd(x, 2)
          /\ x[3] = EndMark(k, 1) => IsEnd(x, 3)
      BY ONLY MarkKinds, Zenon
    <3> QED BY <3>1, <3>2, Zenon
  <2>1. CASE l < 3
    <3>1. \A i \in 1..Len(x) : ~IsEnd(x, i)
      BY <2>k, <2>1
    <3>2. Find(x, ">") = 0
      BY <3>1, FindNone
    <3>3. Find(s \o x, ">") = 0
      BY <2>0, <3>2, FindRight
    <3> QED BY <2>1, <3>3 DEF Debris, NotYet
  <2>2. CASE l = 3
    <3>1. Find(x, ">") = 3
      <4>1. 3 \in 1..Len(x) /\ IsEnd(x, 3) /\ \A i \in 1..(3 - 1) : ~IsEnd(x, i)
        BY <2>k, <2>2
      <4> QED BY <4>1, FirstEnd
    <3>2. PICK e \in Nat : e = Len(s) + 3
      BY <2>j
    <3>3. Find(s \o x, ">") = e
      BY <2>0, <3>1, <3>2, FindRight
    <3>4. Cut(k, s \o x, e)
      <4>1. (s \o x)[Len(s) + 1] = x[1] /\ (s \o x)[Len(s) + 2] = x[2] /\ (s \o x)[Len(s) + 3] = x[3]
        BY <2>j, <2>2
      <4>2. e - 1 = Len(s) + 2 /\ e - 2 = Len(s) + 1
        BY <2>j, <3>2
      <4>k. x[1] = StartMark(k, 1) /\ x[2] = Header(k, 1) /\ x[3] = EndMark(k, 1)
        BY <2>2, <2>k
      <4>3. (s \o x)[e] = EndMark(k, 1)
        BY <3>2, <4>1, <4>k, Zenon
      <4>4. (s \o x)[e - 1] = Header(k, 1)
        BY <4>1, <4>2, <4>k, Zenon
      <4>5. (s \o x)[e - 2] = StartMark(k, 1)
        BY <4>1, <4>2, <4>k, Zenon
      <4> QED BY <4>3, <4>4, <4>5 DEF Cut
    <3>5. Erase(s \o x, e) = <<>>
      <4>1. e \in 0..Len(s \o x) /\ Len(s \o x) - e = 0
        BY <2>j, <2>2, <3>2
      <4>2. Erase(s \o x, e) \in Seq(Unit) /\ Len(Erase(s \o x, e)) = Len(s \o x) - e
        BY <2>j, <4>1, EraseType, ZenonT(60)
      <4>3. PICK t \in Seq(Unit) : t = Erase(s \o x, e)
        BY <4>2
      <4>4. Len(t) = 0
        BY <4>1, <4>2, <4>3
      <4>5. t = <<>>
        BY <4>4, EmptySeq
      <4> QED BY <4>3, <4>5
    <3>6. Intact(k, <<>>, 2, lk, p)
      <4>1. lk = "up" => 2 = p + 1
        BY <2>0
      <4> QED BY <4>1, EmptyIntact
    <3>7. Ends(k, s \o x, 2, lk, p)
      <4>1. e # 0
        BY <2>j, <3>2
      <4> QED BY <3>3, <3>5, <3>6, <4>1 DEF Ends
    <3> QED BY <3>3, <3>4, <3>7 DEF Debris
  <2> QED BY <2>1, <2>2
<1>2. ASSUME Find(s, ">") # 0, NEW n \in {1, 2}, Ends(k, s, n, "up", m)
      PROVE  /\ Find(s \o x, ">") = Find(s, ">") /\ Ends(k, s \o x, n, lk, p)
             /\ Find(s, ">") \in Nat
             /\ \A i \in 1..Find(s, ">") : (s \o x)[i] = s[i]
  <2>1. PICK e : e = Find(s, ">")
    OBVIOUS
  <2>2. /\ e \in 1..Len(s) /\ Find(s \o x, ">") = e
        /\ Erase(s \o x, e) = Erase(s, e) \o x
        /\ Erase(s, e) \in Seq(Unit)
        /\ \A i \in 1..e : (s \o x)[i] = s[i]
    BY <1>2, <2>1, FindLeft, ZenonT(60)
  <2>3. PICK t \in Seq(Unit) : t = Erase(s, e)
    BY <2>2
  <2>4. Intact(k, t, n, "up", m) /\ n \in Nat \ {0}
    BY <1>2, <2>1, <2>3 DEF Ends
  <2>5. Intact(k, t \o x, n, lk, p)
    BY <2>4, IntactSend
  <2>6. Find(s \o x, ">") # 0 /\ Erase(s \o x, Find(s \o x, ">")) = t \o x
    BY <1>2, <2>1, <2>2, <2>3, Zenon
  <2>7. Ends(k, s \o x, n, lk, p)
    BY <2>5, <2>6, Zenon DEF Ends
  <2>8. e \in Nat
    BY <2>2
  <2> QED BY <2>1, <2>2, <2>7, <2>8
<1>3. CASE Cut(k, s, Find(s, ">")) /\ Ends(k, s, 2, "up", m)
  <2>1. PICK e : e = Find(s, ">")
    OBVIOUS
  <2>2. /\ Find(s \o x, ">") = e /\ Ends(k, s \o x, 2, lk, p) /\ e \in Nat /\ e # 0
        /\ \A i \in 1..e : (s \o x)[i] = s[i]
    BY <1>2, <1>3, <2>1 DEF Ends
  <2>3. /\ (s \o x)[e] = s[e]
        /\ e > 1 => (s \o x)[e - 1] = s[e - 1]
        /\ e > 2 => (s \o x)[e - 2] = s[e - 2]
    <3>1. e \in 1..e /\ (e > 1 => e - 1 \in 1..e) /\ (e > 2 => e - 2 \in 1..e)
      BY <2>2
    <3> QED BY <2>2, <3>1
  <2>4. Cut(k, s \o x, e)
    BY <1>3, <2>1, <2>3 DEF Cut
  <2> QED BY <2>2, <2>4 DEF Debris
<1>4. CASE Left(s, Find(s, ">"), c) /\ Ends(k, s, 1, "up", m)
  <2>1. PICK e : e = Find(s, ">")
    OBVIOUS
  <2>2. /\ Find(s \o x, ">") = e /\ Ends(k, s \o x, 1, lk, p) /\ e \in Nat /\ e # 0
        /\ \A i \in 1..e : (s \o x)[i] = s[i]
    BY <1>2, <1>4, <2>1 DEF Ends
  <2>3. (s \o x)[1] = s[1]
    <3>1. 1 \in 1..e
      BY <2>2
    <3> QED BY <2>2, <3>1
  <2>4. Left(s \o x, e, c)
    BY <1>4, <2>1, <2>3, SameKind DEF Left
  <2> QED BY <2>2, <2>4 DEF Debris
<1> QED
  BY <1>1, <1>3, <1>4 DEF Debris

(* A connection that is lost sends no more. *)
LEMMA StopsSending ==
  ASSUME NEW k, NEW s, NEW n, NEW c, NEW lk, NEW m, NEW ln, NEW p, ln # "up"
  PROVE  /\ Intact(k, s, n, lk, m) => Intact(k, s, n, ln, p)
         /\ Debris(k, s, c, lk, m) => Debris(k, s, c, ln, p)
BY DEF Intact, Debris, NotYet, Ends

-----------------------------------------------------------------------------
(* Frame takes the first message of a stream that begins with one, *)
LEMMA IntactFrame ==
  ASSUME NEW k \in Nat, NEW b \in Seq(Unit), NEW t \in Seq(Unit), NEW n \in Nat \ {0},
         NEW m \in Nat, NEW lk, Intact(k, b \o t, n, lk, m)
  PROVE  /\ StripMark(b) > 0 =>
              /\ Len(b) >= 3 /\ StripMark(b) = 3 /\ StripData(b) = Whole(k, n)
              /\ (b \o t)[3] = EndMark(k, n)
              /\ Intact(k, Erase(b, 3) \o t, n + 1, lk, m)
         /\ ~(StripMark(b) > 0) => Len(b) <= 2
<1>1. PICK s \in Seq(Unit) : s = b \o t
  BY Joined
<1>2. Len(b) <= Len(s) /\ Len(b) \in Nat /\ Len(s) \in Nat /\ \A i \in 1..Len(b) : b[i] = s[i]
  BY <1>1, Joined
<1>3. Shape(k, s, n) /\ (lk = "up" => Ended(k, s, n, m))
  BY <1>1 DEF Intact
<1>4. /\ StripMark(b) > 0 =>
           Len(b) >= 3 /\ StripMark(b) = 3 /\ StripData(b) = Whole(k, n)
      /\ ~(StripMark(b) > 0) => Len(b) <= 2
  BY <1>2, <1>3, FirstPacket
<1>5. ASSUME StripMark(b) > 0
      PROVE  s[3] = EndMark(k, n) /\ Intact(k, Erase(b, 3) \o t, n + 1, lk, m)
  <2>1. Len(s) >= 3 /\ 3 \in 0..Len(b)
    BY <1>2, <1>4, <1>5
  <2>2. s[3] = EndMark(k, n)
    BY <1>3, <2>1, ShapeHead
  <2>3. Erase(b, 3) \o t = Erase(s, 3)
    BY <1>1, <2>1, EraseFront
  <2>4. /\ Shape(k, Erase(s, 3), n + 1)
        /\ Ended(k, s, n, m) => Ended(k, Erase(s, 3), n + 1, m)
    BY <1>3, <2>1, ShapeErase
  <2> QED BY <1>3, <2>2, <2>3, <2>4 DEF Intact
<1> QED
  BY <1>1, <1>4, <1>5

(* and a next connection finds no end mark in what is left of it. *)
LEMMA IntactLeft ==
  ASSUME NEW k \in Nat, NEW s \in Seq(Unit), NEW n \in Nat \ {0}, NEW m, NEW lk,
         Intact(k, s, n, lk, m), ~(StripMark(s) > 0)
  PROVE  Debris(k + 1, s, Len(s), "up", 0)
<1>1. Shape(k, s, n)
  BY DEF Intact
<1>2. Len(s) <= 2
  <2>1. Len(s) <= Len(s)
    BY LenProperties
  <2> QED BY <1>1, <2>1, FirstPacket
<1>3. /\ Len(s) \in Nat
      /\ Len(s) >= 1 => s[1] = StartMark(k, n)
      /\ Len(s) >= 2 => s[2] = Header(k, n)
  BY <1>1, ShapeHead
<1>4. Len(s) >= 1 => ~IsEnd(s, 1)
  <2>1. s[1] = StartMark(k, n) => ~IsEnd(s, 1)
    BY ONLY MarkKinds, Zenon
  <2> QED BY <1>3, <2>1
<1>5. Len(s) >= 2 => ~IsEnd(s, 2)
  <2>1. s[2] = Header(k, n) => ~IsEnd(s, 2)
    BY ONLY MarkKinds, Zenon
  <2> QED BY <1>3, <2>1
<1>6. \A i \in 1..Len(s) : ~IsEnd(s, i)
  <2> SUFFICES ASSUME NEW i \in 1..Len(s)
               PROVE  ~IsEnd(s, i)
    OBVIOUS
  <2>1. (i = 1 /\ Len(s) >= 1) \/ (i = 2 /\ Len(s) >= 2)
    BY <1>2, <1>3
  <2> QED BY <1>4, <1>5, <2>1
<1> QED
  BY <1>6, FindNone DEF Debris, NotYet

(* An end mark that waits in the buffer is the last unit there, without a  *)
(* start mark before it.                                                   *)
LEMMA DebrisRest ==
  ASSUME NEW k \in Nat, NEW b \in Seq(Unit), NEW t \in Seq(Unit), NEW m, NEW lk,
         Debris(k, b \o t, Len(b), lk, m), ~(StripMark(b) > 0), Find(b, ">") # 0
  PROVE  /\ Find(b, ">") \in 1..2 /\ Find(b, ">") = Len(b)
         /\ \A i \in 1..Len(b) : ~IsStart(b, i)
<1>1. PICK e : e = Find(b, ">")
  OBVIOUS
<1>2. /\ e \in 1..Len(b) /\ Len(b) \in Nat /\ Find(b \o t, ">") = e /\ e # 0
      /\ Erase(b \o t, e) = Erase(b, e) \o t
      /\ \A i \in 1..Len(b) : (b \o t)[i] = b[i]
  <2>1. \A i \in 1..Len(b) : (b \o t)[i] = b[i]
    BY Joined
  <2>2. Len(b) \in Nat
    BY LenProperties
  <2>3. e # 0
    BY <1>1
  <2> QED BY <1>1, <2>1, <2>2, <2>3, FindLeft
<1>3. \A i \in 1..Len(b) : ~IsStart(b, i)
  <2>1. Find(b, "<") = 0
    <3>1. Find(b, "<") \in 0..Len(b)
      BY FindMarks
    <3> QED BY <1>1, <1>2, <3>1 DEF StripMark
  <2> QED BY <2>1, FindMarks
<1>4. PICK n \in {1, 2} :
        /\ Ends(k, b \o t, n, lk, m)
        /\ Cut(k, b \o t, e) \/ Left(b \o t, e, Len(b))
  BY <1>2 DEF Debris, NotYet
<1>5. e <= 2
  <2>1. CASE e > 2 /\ Cut(k, b \o t, e)
    <3>1. e - 2 \in 1..Len(b)
      BY <1>2, <2>1
    <3>2. b[e - 2] = StartMark(k, 1)
      BY <1>2, <2>1, <3>1 DEF Cut
    <3>3. b[e - 2] = StartMark(k, 1) => IsStart(b, e - 2)
      BY ONLY MarkKinds, Zenon
    <3> QED BY <1>3, <3>1, <3>2, <3>3
  <2>2. CASE Left(b \o t, e, Len(b))
    BY <2>2 DEF Left
  <2> QED BY <1>2, <1>4, <2>1, <2>2
<1>6. e = Len(b)
  <2> SUFFICES ASSUME e < Len(b)
               PROVE  FALSE
    BY <1>2
  <2>1. e \in 0..Len(b) /\ 1 \in 1..(Len(b) - e) /\ e + 1 \in 1..Len(b) /\ 1 + e = e + 1
    BY <1>2
  <2>2. Erase(b, e) \in Seq(Unit) /\ Len(Erase(b, e)) = Len(b) - e /\ Erase(b, e)[1] = b[e + 1]
    BY <2>1, EraseType, ZenonT(60)
  <2>3. PICK u \in Seq(Unit) : u = Erase(b, e)
    BY <2>2
  <2>4. Len(u) \in Nat /\ 1 \in 1..Len(u) /\ u[1] = b[e + 1]
    BY <2>1, <2>2, <2>3, LenProperties
  <2>5. PICK w \in Seq(Unit) : w = u \o t
    BY Joined
  <2>6. w # <<>> /\ w[1] = b[e + 1]
    <3>1. Len(w) = Len(u) + Len(t) /\ Len(t) \in Nat /\ w[1] = u[1]
      BY <2>4, <2>5, Joined
    <3>2. Len(w) # 0
      BY <2>4, <3>1
    <3> QED BY <2>4, <3>1, <3>2, EmptySeq
  <2>7. Shape(k, w, n)
    BY <1>2, <1>4, <2>3, <2>5 DEF Ends, Intact
  <2>8. b[e + 1] = StartMark(k, n)
    BY <2>6, <2>7 DEF Shape, Starts
  <2>9. b[e + 1] = StartMark(k, n) => IsStart(b, e + 1)
    BY ONLY MarkKinds, Zenon
  <2> QED BY <1>3, <2>1, <2>8, <2>9
<1> QED
  BY <1>1, <1>2, <1>3, <1>5, <1>6

(* A next connection finds that end mark, or none. *)
LEMMA DebrisLeft ==
  ASSUME NEW k \in Nat, NEW s \in Seq(Unit), NEW m, NEW lk,
         Debris(k, s, Len(s), lk, m), ~(StripMark(s) > 0)
  PROVE  Debris(k + 1, s, Len(s), "up", 0)
<1>1. CASE Find(s, ">") = 0
  BY <1>1 DEF Debris, NotYet
<1>2. CASE Find(s, ">") # 0
  <2>1. PICK e : e = Find(s, ">")
    OBVIOUS
  <2>2. s \o <<>> = s /\ <<>> \in Seq(Unit)
    BY ConcatEmptySeq, EmptySeq
  <2>3. PICK z \in Seq(Unit) : z = <<>>
    BY <2>2
  <2>4. Debris(k, s \o z, Len(s), lk, m)
    BY <2>2, <2>3
  <2>5. /\ e \in 1..2 /\ e = Len(s)
        /\ \A i \in 1..Len(s) : ~IsStart(s, i)
    BY <1>2, <2>1, <2>4, DebrisRest
  <2>6. Left(s, e, Len(s))
    BY <2>5 DEF Left
  <2>7. Erase(s, e) = <<>>
    <3>1. e \in 0..Len(s) /\ Len(s) - e = 0
      BY <2>5
    <3>2. PICK u \in Seq(Unit) : u = Erase(s, e) /\ Len(u) = 0
      BY <3>1, EraseType
    <3> QED BY <3>2, EmptySeq
  <2>8. Intact(k + 1, <<>>, 1, "up", 0)
    BY EmptyIntact
  <2> QED BY <1>2, <2>1, <2>6, <2>7, <2>8 DEF Debris, Ends
<1> QED
  BY <1>1, <1>2

(* Recv moves units to the buffer. *)
LEMMA DebrisGrows ==
  ASSUME NEW k, NEW s, NEW c \in Nat, NEW d \in Nat, NEW m, NEW lk,
         Debris(k, s, c, lk, m), c <= d
  PROVE  Debris(k, s, d, lk, m)
<1>1. ASSUME NEW e, Left(s, e, c)
      PROVE  Left(s, e, d)
  BY <1>1 DEF Left
<1> QED
  BY <1>1 DEF Debris

(* Debris: the first packet is the first message of the connection, which  *)
(* only lost its start mark, or one that nobody sent; after it comes a     *)
(* whole message.                                                          *)
NotSent(p) == \A k \in Nat, n \in Nat \ {0} : p # Whole(k, n)

LEMMA DebrisPacket ==
  ASSUME NEW k \in Nat, NEW b \in Seq(Unit), NEW t \in Seq(Unit), NEW m, NEW lk,
         Debris(k, b \o t, Len(b), lk, m), StripMark(b) > 0
  PROVE  \E n \in {1, 2} :
           /\ StripMark(b) \in 1..Len(b) /\ StripMark(b) = Find(b, ">")
           /\ Intact(k, Erase(b, StripMark(b)) \o t, n, lk, m)
           /\ \/ /\ n = 2 /\ StripData(b) = Whole(k, 1)
                 /\ (b \o t)[StripMark(b)] = EndMark(k, 1)
              \/ NotSent(StripData(b))
<1>1. PICK f, e : f = Find(b, "<") /\ e = Find(b, ">")
  OBVIOUS
<1>2. /\ f \in 0..Len(b) /\ e \in 0..Len(b) /\ Len(b) \in Nat
      /\ f # 0 => IsStart(b, f) /\ \A i \in 1..(f - 1) : ~IsStart(b, i)
      /\ e # 0 => IsEnd(b, e)
  BY <1>1, FindMarks
<1>3. f # 0 /\ e # 0 /\ StripMark(b) = e /\ f \in 1..Len(b) /\ e \in 1..Len(b)
  <2>1. StripMark(b) = IF f = 0 THEN -1 ELSE e
    BY <1>1 DEF StripMark
  <2>2. f # 0 /\ StripMark(b) = e /\ e # 0
    BY <1>2, <2>1
  <2> QED BY <1>2, <2>2
<1>4. /\ Find(b \o t, ">") = e
      /\ Erase(b \o t, e) = Erase(b, e) \o t
      /\ \A i \in 1..Len(b) : (b \o t)[i] = b[i]
  <2>1. \A i \in 1..Len(b) : (b \o t)[i] = b[i]
    BY Joined
  <2>2. e = Find(b, ">") /\ e # 0
    BY <1>1, <1>3
  <2> QED BY <2>1, <2>2, FindLeft
<1>5. PICK n \in {1, 2} :
        /\ Ends(k, b \o t, n, lk, m)
        /\ (n = 2 /\ Cut(k, b \o t, e)) \/ (n = 1 /\ Left(b \o t, e, Len(b)))
  BY <1>3, <1>4 DEF Debris, NotYet
<1>6. Intact(k, Erase(b, e) \o t, n, lk, m)
  BY <1>4, <1>5 DEF Ends
<1>7. f # e
  BY <1>2, <1>3, MarkKinds
<1>8. CASE f < e
  <2>1. StripData(b) = SubSeq(b, f + 1, e - 1)
    <3>1. Find(b, "<") < Find(b, ">")
      BY <1>1, <1>8
    <3>2. StripData(b) = SubSeq(b, Find(b, "<") + 1, Find(b, ">") - 1)
      BY <3>1, StripFront
    <3> QED BY <1>1, <3>2, Zenon
  <2>2. n = 2 /\ Cut(k, b \o t, e)
    <3>1. CASE Left(b \o t, e, Len(b))
      <4>1. e = 2 /\ f = 1
        BY <1>3, <1>8, <3>1 DEF Left
      <4>2. ~IsStart(b \o t, 1) /\ (b \o t)[1] = b[1] /\ IsStart(b, 1)
        BY <1>2, <1>3, <1>4, <3>1, <4>1 DEF Left
      <4> QED BY <4>2, SameKind
    <3> QED BY <1>5, <3>1
  <2>3. ASSUME NEW j \in Nat, NEW i \in Nat \ {0}, StripData(b) = Whole(j, i)
        PROVE  j = k /\ i = 1
    <3>1. PICK d \in Seq(Unit) : d = StripData(b) /\ Len(d) = 1 /\ d[1] = Header(j, i)
      BY <2>3, WholeType
    <3>2. /\ Len(SubSeq(b, f + 1, e - 1)) = IF f + 1 <= e - 1 THEN (e - 1) - (f + 1) + 1 ELSE 0
          /\ \A q \in 1..((e - 1) - (f + 1) + 1) : SubSeq(b, f + 1, e - 1)[q] = b[(f + 1) + q - 1]
      <4>1. f + 1 \in Int /\ e - 1 \in Int
        BY <1>3
      <4>2. \A q \in (f + 1)..(e - 1) : b[q] \in Unit
        <5>1. \A q \in (f + 1)..(e - 1) : q \in 1..Len(b)
          BY <1>2, <1>3
        <5>2. \A q \in 1..Len(b) : b[q] \in Unit
          BY ElementOfSeq
        <5> QED BY <5>1, <5>2
      <4> QED BY <4>1, <4>2, SubSeqProperties
    <3>3. e - 1 = f + 1
      <4>1. PICK l : l = Len(SubSeq(b, f + 1, e - 1))
        OBVIOUS
      <4>2. l = 1 /\ l = IF f + 1 <= e - 1 THEN (e - 1) - (f + 1) + 1 ELSE 0
        BY <2>1, <3>1, <3>2, <4>1, Zenon
      <4> QED BY <1>3, <4>2
    <3>4. d[1] = b[e - 1]
      <4>1. 1 \in 1..((e - 1) - (f + 1) + 1) /\ (f + 1) + 1 - 1 = e - 1
        BY <1>3, <3>3
      <4>2. SubSeq(b, f + 1, e - 1)[1] = b[(f + 1) + 1 - 1]
        BY <3>2, <4>1
      <4> QED BY <2>1, <3>1, <4>1, <4>2, Zenon
    <3>5. b[e - 1] = Header(k, 1)
      <4>1. e > 1 /\ e - 1 \in 1..Len(b)
        BY <1>2, <1>3, <1>8
      <4>2. (b \o t)[e - 1] = Header(k, 1)
        BY <2>2, <4>1 DEF Cut
      <4> QED BY <1>4, <4>1, <4>2
    <3>6. Header(j, i) = Header(k, 1)
      BY <3>1, <3>4, <3>5, Zenon
    <3> QED BY <3>6 DEF Header
  <2>4. (StripData(b) = Whole(k, 1)) \/ NotSent(StripData(b))
    BY <2>3 DEF NotSent
  <2>5. (b \o t)[e] = EndMark(k, 1)
    BY <2>2 DEF Cut
  <2> QED BY <1>1, <1>3, <1>6, <2>2, <2>4, <2>5
<1>9. CASE f > e
  <2>1. e <= 2
    <3>1. CASE e > 2 /\ Cut(k, b \o t, e)
      <4>1. e - 2 \in 1..Len(b) /\ e - 2 \in 1..(f - 1)
        BY <1>2, <1>3, <1>9, <3>1
      <4>2. b[e - 2] = StartMark(k, 1)
        BY <1>4, <3>1, <4>1 DEF Cut
      <4>3. b[e - 2] = StartMark(k, 1) => IsStart(b, e - 2)
        BY ONLY MarkKinds, Zenon
      <4> QED BY <1>2, <1>3, <4>1, <4>2, <4>3
    <3>2. CASE Left(b \o t, e, Len(b))
      BY <3>2 DEF Left
    <3> QED BY <1>3, <1>5, <3>1, <3>2
  <2>2. CASE e = 2
    <3>1. StripData(b) = SubSeq(b, 2, 1)
      <4>1. Find(b, "<") > 2 /\ Find(b, ">") = 2 /\ ~(Find(b, "<") < 2) /\ 2 > 1 /\ 2 - 1 = 1
        BY <1>1, <1>3, <1>9, <2>2
      <4> QED BY <4>1 DEF StripData
    <3>2. StripData(b) = <<>>
      BY <3>1, SubSeqEmpty
    <3>3. ASSUME NEW j \in Nat, NEW i \in Nat \ {0}, StripData(b) = Whole(j, i)
          PROVE  FALSE
      <4>1. Len(Whole(j, i)) = 1 /\ Len(<<>>) = 0
        BY WholeType, EmptySeq
      <4>2. Whole(j, i) = <<>>
        BY <3>2, <3>3
      <4> QED BY <4>1, <4>2
    <3>4. NotSent(StripData(b))
      BY <3>3 DEF NotSent
    <3> QED BY <1>1, <1>3, <1>6, <3>4
  <2>3. CASE e = 1
    <3>1. StripData(b) = Tail(b)
      <4>1. Find(b, "<") > 1 /\ Find(b, ">") = 1 /\ ~(Find(b, "<") < 1) /\ ~(1 > 1)
        BY <1>1, <1>3, <1>9, <2>3
      <4> QED BY <4>1 DEF StripData
    <3>2. Len(b) >= 2 /\ b # <<>> /\ 2 \in 1..Len(b) /\ 1 \in 0..Len(b)
      <4>1. Len(b) >= 2
        BY <1>2, <1>3, <1>9, <2>3
      <4> QED BY <1>2, <4>1, EmptySeq
    <3>3. b[2] = StartMark(k, n)
      <4>1. PICK u \in Seq(Unit) : u = Erase(b, 1) /\ Len(u) = Len(b) - 1 /\ u[1] = b[2]
        <5>1. 1 \in 1..(Len(b) - 1) /\ 1 + 1 = 2
          BY <1>2, <3>2
        <5> QED BY <3>2, <5>1, EraseType
      <4>2. PICK w \in Seq(Unit) : w = u \o t
        BY Joined
      <4>3. 1 \in 1..Len(u)
        BY <1>2, <3>2, <4>1
      <4>4. Len(w) = Len(u) + Len(t) /\ Len(u) \in Nat /\ Len(t) \in Nat /\ w[1] = u[1]
        BY <4>2, <4>3, Joined
      <4>5. w # <<>>
        <5>1. Len(w) # 0
          BY <1>2, <3>2, <4>1, <4>4
        <5> QED BY <5>1, EmptySeq
      <4>6. Shape(k, w, n)
        BY <1>6, <2>3, <4>1, <4>2 DEF Intact
      <4> QED BY <4>1, <4>4, <4>5, <4>6 DEF Shape, Starts
    <3>4. ASSUME NEW j \in Nat, NEW i \in Nat \ {0}, StripData(b) = Whole(j, i)
          PROVE  FALSE
      <4>1. PICK d \in Seq(Unit) : d = StripData(b) /\ Len(d) = 1 /\ d[1] = Header(j, i)
        BY <3>4, WholeType
      <4>2. d = Tail(b) /\ 1 \in 1..Len(d)
        <5>1. d = Tail(b)
          BY <3>1, <4>1, Zenon
        <5>2. 1 \in 1..1
          OBVIOUS
        <5>3. QED
          BY <4>1, <5>1, <5>2, Zenon
      <4>3. d[1] = b[2]
        <5>1. \A q \in 1..Len(Tail(b)) : Tail(b)[q] = b[q + 1]
          BY <3>2, HeadTailProperties
        <5>2. \A q \in 1..Len(d) : d[q] = b[q + 1]
          BY <4>2, <5>1, Zenon
        <5> QED BY <4>2, <5>2
      <4>4. Header(j, i) = StartMark(k, n)
        BY <3>3, <4>1, <4>3, Zenon
      <4>5. StartMark(k, n) # Header(j, i)
        BY DEF StartMark, Header
      <4> QED BY <4>4, <4>5, Zenon
    <3>5. NotSent(StripData(b))
      BY <3>4 DEF NotSent
    <3> QED BY <1>1, <1>3, <1>6, <3>5
  <2> QED BY <1>3, <2>1, <2>2, <2>3
<1> QED
  BY <1>3, <1>7, <1>8, <1>9

(* A full buffer without an end mark is emptied. *)
LEMMA EraseBoth ==
  ASSUME NEW b \in Seq(Unit), NEW t \in Seq(Unit), NEW f \in 0..Len(t)
  PROVE  Erase(b \o t, Len(b) + f) = Erase(t, f)
<1>1. /\ b \o t \in Seq(Unit) /\ Len(b \o t) = Len(b) + Len(t)
      /\ Len(b) \in Nat /\ Len(t) \in Nat
      /\ \A i \in 1..Len(t) : (b \o t)[Len(b) + i] = t[i]
  BY Joined
<1>2. PICK w \in Seq(Unit), l \in Nat : w = b \o t /\ l = Len(b)
  BY <1>1
<1>3. l + f \in 0..Len(w) /\ Len(w) - (l + f) = Len(t) - f
  BY <1>1, <1>2
<1>4. PICK u \in Seq(Unit) :
        /\ u = Erase(w, l + f) /\ Len(u) = Len(w) - (l + f)
        /\ \A i \in 1..(Len(w) - (l + f)) : u[i] = w[i + (l + f)]
  BY <1>3, EraseType, SMTT(30)
<1>5. PICK v \in Seq(Unit) :
        /\ v = Erase(t, f) /\ Len(v) = Len(t) - f
        /\ \A i \in 1..(Len(t) - f) : v[i] = t[i + f]
  BY EraseType
<1>6. ASSUME NEW i \in 1..Len(u)
      PROVE  u[i] = v[i]
  <2>1. /\ i \in 1..(Len(w) - (l + f)) /\ i \in 1..(Len(t) - f)
        /\ i + f \in 1..Len(t) /\ i + (l + f) = l + (i + f)
    BY <1>1, <1>3, <1>4
  <2>2. u[i] = w[l + (i + f)] /\ v[i] = t[i + f]
    BY <1>4, <1>5, <2>1
  <2> QED BY <1>1, <1>2, <2>1, <2>2
<1>7. Len(u) = Len(v)
  BY <1>3, <1>4, <1>5
<1>8. u = v
  BY <1>6, <1>7, SeqEqual
<1> QED
  BY <1>2, <1>4, <1>5, <1>8

LEMMA DebrisOverflow ==
  ASSUME NEW k \in Nat, NEW b \in Seq(Unit), NEW t \in Seq(Unit), NEW m, NEW lk,
         BufMax >= 2, Debris(k, b \o t, Len(b), lk, m), ~(StripMark(b) > 0)
  PROVE  \/ Overflow(b) = b
         \/ Overflow(b) = <<>> /\ Debris(k, t, 0, lk, m)
<1>1. CASE Len(b) <= BufMax
  BY <1>1 DEF Overflow
<1>2. CASE ~(Len(b) <= BufMax)
  <2>0. Len(b) \in Nat /\ BufMax \in Nat
    BY LenProperties, BufMaxAssumption
  <2>1. Find(b, ">") = 0
    <3>1. CASE Find(b, ">") # 0
      <4>1. Find(b, ">") \in 1..2 /\ Find(b, ">") = Len(b)
        BY <3>1, DebrisRest
      <4> QED BY <1>2, <2>0, <4>1
    <3> QED BY <3>1
  <2>2. Overflow(b) = <<>>
    BY <1>2, <2>1 DEF Overflow
  <2>3. CASE Find(t, ">") = 0
    <3>1. Find(b \o t, ">") = 0
      BY <2>1, <2>3, FindRight
    <3>2. NotYet(b \o t, lk, m)
      BY <3>1 DEF Debris, Ends
    <3> QED BY <2>2, <2>3, <3>2 DEF NotYet, Debris
  <2>4. CASE Find(t, ">") # 0
    <3>1. PICK f \in 1..Len(t) : f = Find(t, ">")
      <4>1. Find(t, ">") \in 0..Len(t)
        BY FindMarks
      <4> QED BY <2>4, <4>1
    <3>2. PICK e \in Nat : e = Len(b) + f
      BY <2>0
    <3>3. Find(b \o t, ">") = e /\ e # 0 /\ e > Len(b)
      BY <2>0, <2>1, <2>4, <3>1, <3>2, FindRight
    <3>4. Cut(k, b \o t, e) /\ Ends(k, b \o t, 2, lk, m)
      BY <3>3 DEF Debris, NotYet, Left
    <3>5. Erase(b \o t, e) = Erase(t, f)
      <4>1. f \in 0..Len(t)
        OBVIOUS
      <4> QED BY <3>2, <4>1, EraseBoth
    <3>6. Ends(k, t, 2, lk, m)
      BY <2>4, <3>1, <3>3, <3>4, <3>5 DEF Ends
    <3>7. Cut(k, t, f)
      <4>1. \A i \in 1..Len(t) : (b \o t)[Len(b) + i] = t[i]
        BY Joined
      <4>2. /\ e > 1 => (b \o t)[e - 1] = Header(k, 1)
            /\ e > 2 => (b \o t)[e - 2] = StartMark(k, 1)
            /\ (b \o t)[e] = EndMark(k, 1)
        BY <3>4 DEF Cut
      <4>3. t[f] = EndMark(k, 1)
        BY <3>2, <4>1, <4>2
      <4>4. ASSUME f > 1
            PROVE  t[f - 1] = Header(k, 1)
        <5>1. f - 1 \in 1..Len(t) /\ e > 1 /\ Len(b) + (f - 1) = e - 1
          BY <2>0, <3>2, <4>4
        <5>2. (b \o t)[Len(b) + (f - 1)] = t[f - 1]
          BY <4>1, <5>1
        <5> QED BY <4>2, <5>1, <5>2, Zenon
      <4>5. ASSUME f > 2
            PROVE  t[f - 2] = StartMark(k, 1)
        <5>1. f - 2 \in 1..Len(t) /\ e > 2 /\ Len(b) + (f - 2) = e - 2
          BY <2>0, <3>2, <4>5
        <5>2. (b \o t)[Len(b) + (f - 2)] = t[f - 2]
          BY <4>1, <5>1
        <5> QED BY <4>2, <5>1, <5>2, Zenon
      <4> QED BY <4>3, <4>4, <4>5 DEF Cut
    <3> QED BY <2>2, <3>1, <3>6, <3>7 DEF Debris
  <2> QED BY <2>3, <2>4
<1> QED
  BY <1>1, <1>2

LEMMA IntactOverflow ==
  ASSUME NEW b \in Seq(Unit), BufMax >= 2, Len(b) <= 2
  PROVE  Overflow(b) = b
<1>1. Len(b) \in Nat /\ BufMax \in Nat
  BY LenProperties, BufMaxAssumption
<1> QED
  BY <1>1 DEF Overflow

-----------------------------------------------------------------------------
(* The packets P the handler got or will get: which messages of connection *)
(* k are among them when message n is the next, *)
Passed(P, k, n) ==
  /\ \A i \in 1..Len(P), j \in Nat \ {0} : P[i] = Whole(k, j) => j < n
  /\ \A j \in 1..(n - 1) : (j = 1 /\ k > 1) \/ \E i \in 1..Len(P) : P[i] = Whole(k, j)

(* that none is of a connection after k, *)
Known(P, k) == \A i \in 1..Len(P), l \in Nat, n \in Nat \ {0} : P[i] = Whole(l, n) => l <= k

(* that those of connection l are in order, *)
Kept(P, l) ==
  \A i \in 1..Len(P), n \in 1..SendBound :
    P[i] = Whole(l, n) =>
      /\ \A j \in 1..(i - 1), m \in n..SendBound : P[j] # Whole(l, m)
      /\ \/ n = 1
         \/ n = 2 /\ l > 1
         \/ \E j \in 1..(i - 1) : P[j] = Whole(l, n - 1)

(* and which were sent on none of the first k connections. *)
Strays(P, k) == {i \in 1..Len(P) : \A l \in 1..k, n \in 1..SendBound : P[i] # Whole(l, n)}

(* Packet x is added to P. *)
Adds(P, Q, x) ==
  /\ Len(P) \in Nat /\ Len(Q) = Len(P) + 1
  /\ \A i \in 1..Len(P) : Q[i] = P[i]
  /\ Q[Len(P) + 1] = x

LEMMA AppendAdds ==
  ASSUME NEW P \in Seq(Seq(Unit)), NEW x \in Seq(Unit)
  PROVE  Adds(P, Append(P, x), x)
BY AppendProperties, LenProperties DEF Adds

LEMMA PassedNext ==
  ASSUME NEW P, NEW k \in Nat, Known(P, k)
  PROVE  Passed(P, k + 1, 1)
BY DEF Passed, Known

LEMMA PassedFirst ==
  ASSUME NEW P, NEW k \in Nat, k > 1, Passed(P, k, 1)
  PROVE  Passed(P, k, 2)
<1>1. \A j \in Nat \ {0} : j < 1 => j < 2
  OBVIOUS
<1>2. \A j \in 1..(2 - 1) : j = 1 /\ k > 1
  OBVIOUS
<1>3. QED
  BY <1>1, <1>2 DEF Passed

LEMMA PassedWhole ==
  ASSUME NEW P, NEW Q, NEW k \in Nat, NEW n \in Nat \ {0}, Adds(P, Q, Whole(k, n)), Passed(P, k, n)
  PROVE  Passed(Q, k, n + 1)
<1>1. ASSUME NEW i \in 1..Len(Q), NEW j \in Nat \ {0}, Q[i] = Whole(k, j)
      PROVE  j < n + 1
  <2>1. CASE i \in 1..Len(P)
    <3>1. P[i] = Whole(k, j)
      BY <1>1, <2>1 DEF Adds
    <3>2. j < n
      BY <2>1, <3>1 DEF Passed
    <3>3. QED
      BY <3>2
  <2>2. CASE i = Len(P) + 1
    <3>1. Whole(k, j) = Whole(k, n)
      BY <1>1, <2>2 DEF Adds
    <3>2. j = n
      BY <3>1, WholeNames
    <3>3. QED
      BY <3>2
  <2>3. QED
    BY <2>1, <2>2 DEF Adds
<1>2. ASSUME NEW j \in 1..((n + 1) - 1), ~(j = 1 /\ k > 1)
      PROVE  \E i \in 1..Len(Q) : Q[i] = Whole(k, j)
  <2>1. CASE j = n
    <3>1. Len(P) + 1 \in 1..Len(Q)
      BY DEF Adds
    <3>2. QED
      BY <2>1, <3>1 DEF Adds
  <2>2. CASE j # n
    <3>1. j \in 1..(n - 1)
      BY <2>2
    <3>2. PICK i \in 1..Len(P) : P[i] = Whole(k, j)
      BY <1>2, <3>1 DEF Passed
    <3>3. i \in 1..Len(Q) /\ Q[i] = P[i]
      BY DEF Adds
    <3>4. QED
      BY <3>2, <3>3
  <2>3. QED
    BY <2>1, <2>2
<1>3. QED
  BY <1>1, <1>2 DEF Passed

LEMMA PassedStray ==
  ASSUME NEW P, NEW Q, NEW k \in Nat, NEW n \in Nat \ {0}, NEW x, Adds(P, Q, x), NotSent(x),
         Passed(P, k, n)
  PROVE  Passed(Q, k, n)
<1>1. ASSUME NEW i \in 1..Len(Q), NEW j \in Nat \ {0}, Q[i] = Whole(k, j)
      PROVE  j < n
  <2>1. i # Len(P) + 1
    BY <1>1 DEF Adds, NotSent
  <2>2. i \in 1..Len(P) /\ P[i] = Whole(k, j)
    BY <1>1, <2>1 DEF Adds
  <2>3. QED
    BY <2>2 DEF Passed
<1>2. ASSUME NEW j \in 1..(n - 1), ~(j = 1 /\ k > 1)
      PROVE  \E i \in 1..Len(Q) : Q[i] = Whole(k, j)
  <2>1. PICK i \in 1..Len(P) : P[i] = Whole(k, j)
    BY <1>2 DEF Passed
  <2>2. i \in 1..Len(Q) /\ Q[i] = P[i]
    BY DEF Adds
  <2>3. QED
    BY <2>1, <2>2
<1>3. QED
  BY <1>1, <1>2 DEF Passed

LEMMA KnownAdds ==
  ASSUME NEW P, NEW Q, NEW k \in Nat, NEW x, Adds(P, Q, x), Known(P, k),
         NotSent(x) \/ \E n \in Nat \ {0} : x = Whole(k, n)
  PROVE  Known(Q, k)
<1>1. ASSUME NEW i \in 1..Len(Q), NEW l \in Nat, NEW n \in Nat \ {0}, Q[i] = Whole(l, n)
      PROVE  l <= k
  <2>1. CASE i \in 1..Len(P)
    BY <1>1, <2>1 DEF Adds, Known
  <2>2. CASE i = Len(P) + 1
    <3>1. x = Whole(l, n)
      BY <1>1, <2>2 DEF Adds
    <3>2. PICK m \in Nat \ {0} : x = Whole(k, m)
      BY <3>1 DEF NotSent
    <3>3. l = k
      BY <3>1, <3>2, WholeNames
    <3>4. QED
      BY <3>3
  <2>3. QED
    BY <2>1, <2>2 DEF Adds
<1>2. QED
  BY <1>1 DEF Known

LEMMA KeptNext ==
  ASSUME NEW P, NEW k \in Nat, Known(P, k)
  PROVE  Kept(P, k + 1)
<1>1. ASSUME NEW i \in 1..Len(P), NEW n \in 1..SendBound, P[i] = Whole(k + 1, n)
      PROVE  FALSE
  <2>1. k + 1 \in Nat /\ n \in Nat \ {0} /\ ~(k + 1 <= k)
    OBVIOUS
  <2>2. QED
    BY <1>1, <2>1 DEF Known
<1>2. QED
  BY <1>1 DEF Kept

(* The next message of connection k, or a packet nobody sent, keeps them   *)
(* in order.                                                               *)
LEMMA KeptAdds ==
  ASSUME NEW P, NEW Q, NEW k \in Nat, NEW l \in Nat, NEW x, Adds(P, Q, x), Kept(P, l),
         NotSent(x) \/ \E n \in Nat \ {0} : x = Whole(k, n) /\ Passed(P, k, n)
  PROVE  Kept(Q, l)
<1> SUFFICES ASSUME NEW i \in 1..Len(Q), NEW n \in 1..SendBound, Q[i] = Whole(l, n)
             PROVE  /\ \A j \in 1..(i - 1), m \in n..SendBound : Q[j] # Whole(l, m)
                    /\ \/ n = 1
                       \/ n = 2 /\ l > 1
                       \/ \E j \in 1..(i - 1) : Q[j] = Whole(l, n - 1)
  BY DEF Kept
<1>0. Len(P) \in Nat /\ Len(Q) = Len(P) + 1 /\ n \in Nat \ {0} /\ SendBound \in Nat
  BY ClientAssumption DEF Adds
<1>1. CASE i \in 1..Len(P)
  <2>1. P[i] = Whole(l, n) /\ \A j \in 1..(i - 1) : Q[j] = P[j]
    <3>1. \A j \in 1..(i - 1) : j \in 1..Len(P)
      BY <1>0, <1>1
    <3>2. QED
      BY <1>1, <3>1 DEF Adds
  <2>2. /\ \A j \in 1..(i - 1), m \in n..SendBound : P[j] # Whole(l, m)
        /\ \/ n = 1
           \/ n = 2 /\ l > 1
           \/ \E j \in 1..(i - 1) : P[j] = Whole(l, n - 1)
    BY <1>1, <2>1 DEF Kept
  <2>3. QED
    BY <2>1, <2>2
<1>2. CASE i = Len(P) + 1
  <2>1. x = Whole(l, n) /\ i - 1 = Len(P) /\ \A j \in 1..(i - 1) : Q[j] = P[j]
    BY <1>0, <1>2 DEF Adds
  <2>2. PICK q \in Nat \ {0} : x = Whole(k, q) /\ Passed(P, k, q)
    BY <1>0, <2>1 DEF NotSent
  <2>3. k = l /\ q = n
    <3>1. Whole(k, q) = Whole(l, n) /\ n \in Nat \ {0}
      BY <1>0, <2>1, <2>2, Zenon
    <3>2. QED
      BY <3>1, WholeNames
  <2>4. Passed(P, l, n)
    BY <2>2, <2>3
  <2>5. \A j \in 1..(i - 1), m \in n..SendBound : Q[j] # Whole(l, m)
    <3> SUFFICES ASSUME NEW j \in 1..(i - 1), NEW m \in n..SendBound, Q[j] = Whole(l, m)
                 PROVE  FALSE
      OBVIOUS
    <3>1. j \in 1..Len(P) /\ P[j] = Whole(l, m) /\ m \in Nat \ {0}
      BY <1>0, <2>1
    <3>2. m < n
      BY <2>4, <3>1 DEF Passed
    <3>3. QED
      BY <1>0, <3>1, <3>2
  <2>6. ASSUME n # 1, ~(n = 2 /\ l > 1)
        PROVE  \E j \in 1..(i - 1) : Q[j] = Whole(l, n - 1)
    <3>1. n - 1 \in 1..(n - 1) /\ ~(n - 1 = 1 /\ l > 1)
      BY <1>0, <2>6
    <3>2. PICK j \in 1..Len(P) : P[j] = Whole(l, n - 1)
      BY <2>4, <3>1 DEF Passed
    <3>3. QED
      BY <2>1, <3>2
  <2>7. QED
    BY <2>5, <2>6
<1>3. QED
  BY <1>0, <1>1, <1>2

LEMMA StraysFinite ==
  ASSUME NEW P, NEW k, Len(P) \in Nat
  PROVE  IsFiniteSet(Strays(P, k)) /\ Cardinality(Strays(P, k)) \in Nat
<1>1. IsFiniteSet(1..Len(P))
  BY FS_Interval
<1>2. Strays(P, k) \in SUBSET (1..Len(P))
  BY DEF Strays
<1>3. IsFiniteSet(Strays(P, k))
  BY <1>1, <1>2, FS_Subset
<1>4. QED
  BY <1>3, FS_CardinalityType

LEMMA StraysNext ==
  ASSUME NEW P, NEW k \in Nat, Len(P) \in Nat
  PROVE  Cardinality(Strays(P, k + 1)) <= Cardinality(Strays(P, k))
<1>1. \A l \in 1..k : l \in 1..(k + 1)
  OBVIOUS
<1>2. Strays(P, k + 1) \in SUBSET Strays(P, k)
  BY <1>1 DEF Strays
<1>3. QED
  BY <1>2, StraysFinite, FS_Subset

LEMMA StraysAdds ==
  ASSUME NEW P, NEW Q, NEW k \in Nat, NEW x, Adds(P, Q, x)
  PROVE  /\ Cardinality(Strays(Q, k)) <= Cardinality(Strays(P, k)) + 1
         /\ (\E l \in 1..k, n \in 1..SendBound : x = Whole(l, n)) =>
              Cardinality(Strays(Q, k)) <= Cardinality(Strays(P, k))
<1> DEFINE more == Strays(P, k) \cup {Len(P) + 1}
<1>1. Len(P) \in Nat /\ \A i \in 1..Len(Q) : i \in 1..Len(P) \/ i = Len(P) + 1
  BY DEF Adds
<1>2. \A i \in 1..Len(P) : Q[i] = P[i]
  BY DEF Adds
<1>3. Strays(Q, k) \in SUBSET more
  BY <1>1, <1>2 DEF Strays
<1>4. IsFiniteSet(Strays(P, k)) /\ Cardinality(Strays(P, k)) \in Nat
  BY <1>1, StraysFinite
<1>5. IsFiniteSet(more) /\ Cardinality(more) <= Cardinality(Strays(P, k)) + 1 /\ Cardinality(more) \in Nat
  <2>1. /\ IsFiniteSet(more)
        /\ Cardinality(more) = IF Len(P) + 1 \in Strays(P, k) THEN Cardinality(Strays(P, k))
                               ELSE Cardinality(Strays(P, k)) + 1
    BY <1>4, FS_AddElement, Zenon
  <2>2. QED
    BY <1>4, <2>1
<1>6. IsFiniteSet(Strays(Q, k)) /\ Cardinality(Strays(Q, k)) \in Nat
  <2>1. Len(Q) \in Nat
    BY DEF Adds
  <2>2. QED
    BY <2>1, StraysFinite
<1>7. Cardinality(Strays(Q, k)) <= Cardinality(more)
  BY <1>3, <1>5, FS_Subset
<1>8. Cardinality(Strays(Q, k)) <= Cardinality(Strays(P, k)) + 1
  BY <1>4, <1>5, <1>6, <1>7
<1>9. ASSUME \E l \in 1..k, n \in 1..SendBound : x = Whole(l, n)
      PROVE  Cardinality(Strays(Q, k)) <= Cardinality(Strays(P, k))
  <2>1. Len(P) + 1 \notin Strays(Q, k)
    BY <1>9 DEF Adds, Strays
  <2>2. Strays(Q, k) \in SUBSET Strays(P, k)
    BY <1>3, <2>1
  <2>3. QED
    BY <1>4, <2>2, FS_Subset
<1>10. QED
  BY <1>8, <1>9

-----------------------------------------------------------------------------
(* What the check thread has in its buffer b and the stream t. *)
Numbered(s, k) ==
  \A i \in 1..Len(s), l \in Nat, n \in Nat \ {0} : s[i] = EndMark(l, n) => l <= k /\ n <= SendBound

(* The next message comes first, and the loop over the buffer is long      *)
(* enough for what it got,                                                 *)
Clean(k, b, t, lk, m, P, pc, c) ==
  \E n \in Nat \ {0} :
    /\ Intact(k, b \o t, n, lk, m) /\ Passed(P, k, n)
    /\ pc = "frame" => Len(b) <= c + 2

(* or nothing of the connection was passed on yet, and one stray packet    *)
(* less than there may be.                                                 *)
Dirty(k, b, t, lk, m, P, pc, c) ==
  /\ k > 1 /\ Cardinality(Strays(P, k)) <= k - 2 /\ Passed(P, k, 1)
  /\ Debris(k, b \o t, Len(b), lk, m)
  /\ pc = "frame" => c > 0 /\ (Find(b, ">") # 0 => Len(b) - Find(b, ">") <= c + 1)

Waits(k, b, t, lk, m, P, pc, c) ==
  /\ Clean(k, b, t, lk, m, P, pc, c) \/ Dirty(k, b, t, lk, m, P, pc, c)
  /\ pc # "frame" => ~(StripMark(b) > 0)
  /\ Numbered(b \o t, k)

(* What was passed on. *)
Strayed(P, k) == Cardinality(Strays(P, k)) <= IF k = 0 THEN 0 ELSE k - 1

Listed(P, k) == Known(P, k) /\ (\A l \in 1..k : Kept(P, l)) /\ Strayed(P, k)

LEMMA NumberedErase ==
  ASSUME NEW s \in Seq(Unit), NEW k, NEW f \in 0..Len(s), Numbered(s, k)
  PROVE  Numbered(Erase(s, f), k)
<1>1. PICK u \in Seq(Unit) :
        /\ u = Erase(s, f) /\ Len(u) = Len(s) - f
        /\ \A i \in 1..(Len(s) - f) : u[i] = s[i + f]
  BY EraseType
<1>2. Len(s) \in Nat
  BY LenProperties
<1>3. \A i \in 1..Len(u) : i + f \in 1..Len(s) /\ u[i] = s[i + f]
  BY <1>1, <1>2
<1>4. Numbered(u, k)
  BY <1>3 DEF Numbered
<1>5. QED
  BY <1>1, <1>4

LEMMA NumberedJoin ==
  ASSUME NEW s \in Seq(Unit), NEW x \in Seq(Unit), NEW k, Numbered(s, k), Numbered(x, k)
  PROVE  Numbered(s \o x, k)
<1>1. PICK u \in Seq(Unit) : u = s \o x
  BY Joined
<1>2. /\ Len(u) = Len(s) + Len(x) /\ Len(s) \in Nat /\ Len(x) \in Nat
      /\ \A i \in 1..Len(s) : u[i] = s[i]
      /\ \A i \in 1..Len(x) : u[Len(s) + i] = x[i]
  BY <1>1, Joined
<1>3. ASSUME NEW i \in 1..Len(u), NEW l \in Nat, NEW n \in Nat \ {0}, u[i] = EndMark(l, n)
      PROVE  l <= k /\ n <= SendBound
  <2>1. CASE i <= Len(s)
    <3>1. i \in 1..Len(s) /\ s[i] = EndMark(l, n)
      BY <1>2, <1>3, <2>1
    <3>2. QED
      BY <3>1 DEF Numbered
  <2>2. CASE i > Len(s)
    <3>1. PICK j \in 1..Len(x) : i = Len(s) + j
      <4>1. i - Len(s) \in 1..Len(x) /\ i = Len(s) + (i - Len(s))
        BY <1>2, <2>2
      <4>2. QED
        BY <4>1
    <3>2. x[j] = EndMark(l, n)
      BY <1>2, <1>3, <3>1
    <3>3. QED
      BY <3>2 DEF Numbered
  <2>3. QED
    BY <1>2, <2>1, <2>2
<1>4. Numbered(u, k)
  BY <1>3 DEF Numbered
<1>5. QED
  BY <1>1, <1>4

LEMMA NumberedEmpty ==
  ASSUME NEW k
  PROVE  Numbered(<<>>, k)
BY EmptySeq DEF Numbered

LEMMA NumberedSent ==
  ASSUME NEW k \in Nat, NEW m \in Nat, NEW l \in 0..3, NEW x \in Seq(Unit), Len(x) = l,
         \A i \in 1..l : x[i] = Message(k, m + 1)[i], l = 3 => m + 1 <= SendBound
  PROVE  Numbered(x, k)
<1>1. m + 1 \in Nat \ {0}
  OBVIOUS
<1>2. /\ Message(k, m + 1)[1] = StartMark(k, m + 1)
      /\ Message(k, m + 1)[2] = Header(k, m + 1)
      /\ Message(k, m + 1)[3] = EndMark(k, m + 1)
  BY <1>1, MessageType
<1>3. ASSUME NEW i \in 1..l, NEW j \in Nat, NEW n \in Nat \ {0}, x[i] = EndMark(j, n)
      PROVE  j <= k /\ n <= SendBound
  <2>1. CASE i = 1
    <3>1. StartMark(k, m + 1) = EndMark(j, n)
      BY <1>2, <1>3, <2>1
    <3>2. StartMark(k, m + 1) # EndMark(j, n)
      BY DEF StartMark, EndMark
    <3>3. QED
      BY <3>1, <3>2
  <2>2. CASE i = 2
    <3>1. Header(k, m + 1) = EndMark(j, n)
      BY <1>2, <1>3, <2>2
    <3>2. Header(k, m + 1) # EndMark(j, n)
      BY DEF Header, EndMark
    <3>3. QED
      BY <3>1, <3>2
  <2>3. CASE i = 3
    <3>1. EndMark(k, m + 1) = EndMark(j, n)
      BY <1>2, <1>3, <2>3
    <3>2. EndMark(k, m + 1) = EndMark(j, n) => k = j /\ m + 1 = n
      BY ONLY Names, ZenonT(60)
    <3>3. k = j /\ m + 1 = n /\ l = 3
      BY <2>3, <3>1, <3>2
    <3>4. QED
      BY <3>3
  <2>4. QED
    BY <2>1, <2>2, <2>3
<1>4. QED
  BY <1>3 DEF Numbered

LEMMA NumberedNext ==
  ASSUME NEW s, NEW k \in Nat, Numbered(s, k)
  PROVE  Numbered(s, k + 1)
BY DEF Numbered

LEMMA EmptyStrip == ~(StripMark(<<>>) > 0)
<1>1. \A i \in 1..Len(<<>>) : FALSE
  BY EmptySeq
<1>2. PICK z \in Seq(Unit) : z = <<>>
  BY EmptySeq
<1>3. Find(z, "<") = 0
  <2>1. Len(z) = 0 /\ Find(z, "<") \in 0..Len(z)
    BY <1>2, EmptySeq, FindMarks
  <2>2. QED
    BY <2>1
<1>4. QED
  BY <1>2, <1>3 DEF StripMark

(* The peer sends the next message, or the first l units of it. *)
LEMMA WaitsSend ==
  ASSUME NEW k \in Nat, NEW b \in Seq(Unit), NEW t \in Seq(Unit), NEW m \in Nat, NEW P, NEW pc, NEW c,
         NEW x \in Seq(Unit), NEW l \in 0..3, NEW lk, NEW p,
         Waits(k, b, t, "up", m, P, pc, c), Len(x) = l,
         \A i \in 1..l : x[i] = Message(k, m + 1)[i],
         l = 3 => m + 1 <= SendBound,
         lk = "up" => l = 3 /\ p = m + 1
  PROVE  Waits(k, b, t \o x, lk, p, P, pc, c)
<1>1. PICK s \in Seq(Unit) : s = b \o t
  BY Joined
<1>2. b \o (t \o x) = s \o x
  <2>0. b \in Seq(Unit) /\ t \in Seq(Unit) /\ x \in Seq(Unit)
    OBVIOUS
  <2>1. (b \o t) \o x = b \o (t \o x)
    BY ONLY <2>0, ConcatAssociative
  <2>2. QED
    BY <1>1, <2>1, Zenon
<1>3. Numbered(s \o x, k)
  <2>1. Numbered(x, k)
    BY NumberedSent
  <2>2. QED
    BY <1>1, <2>1, NumberedJoin DEF Waits
<1>4. CASE Clean(k, b, t, "up", m, P, pc, c)
  <2>1. PICK n \in Nat \ {0} :
          /\ Intact(k, s, n, "up", m) /\ Passed(P, k, n)
          /\ pc = "frame" => Len(b) <= c + 2
    BY <1>1, <1>4 DEF Clean
  <2>2. Intact(k, s \o x, n, lk, p)
    BY <2>1, IntactSend
  <2>3. Clean(k, b, t \o x, lk, p, P, pc, c)
    BY <1>2, <2>1, <2>2 DEF Clean
  <2>4. QED
    BY <1>2, <1>3, <2>3 DEF Waits
<1>5. CASE Dirty(k, b, t, "up", m, P, pc, c)
  <2>1. Debris(k, s, Len(b), "up", m) /\ Len(b) \in Nat
    BY <1>1, <1>5, LenProperties DEF Dirty
  <2>2. Debris(k, s \o x, Len(b), lk, p)
    BY <2>1, DebrisSend
  <2>3. Dirty(k, b, t \o x, lk, p, P, pc, c)
    BY <1>2, <1>5, <2>2 DEF Dirty
  <2>4. QED
    BY <1>2, <1>3, <2>3 DEF Waits
<1>6. QED
  BY <1>4, <1>5 DEF Waits

(* The connection is lost, or a thread does something else. *)
LEMMA WaitsRests ==
  ASSUME NEW k, NEW b, NEW t, NEW lk, NEW m, NEW P, NEW pc, NEW c, NEW ln, NEW p, NEW pd, NEW d,
         Waits(k, b, t, lk, m, P, pc, c),
         ln # "up" \/ (ln = lk /\ p = m),
         pd = "frame" => pc = "frame" /\ d = c,
         pc = "frame" => pd = "frame"
  PROVE  Waits(k, b, t, ln, p, P, pd, d)
<1>1. \A s, n : Intact(k, s, n, lk, m) => Intact(k, s, n, ln, p)
  BY StopsSending
<1>2. \A s, e : Debris(k, s, e, lk, m) => Debris(k, s, e, ln, p)
  BY StopsSending
<1>3. Clean(k, b, t, lk, m, P, pc, c) => Clean(k, b, t, ln, p, P, pd, d)
  BY <1>1 DEF Clean
<1>4. Dirty(k, b, t, lk, m, P, pc, c) => Dirty(k, b, t, ln, p, P, pd, d)
  BY <1>2 DEF Dirty
<1>5. QED
  BY <1>3, <1>4 DEF Waits

(* The peer accepts the next connection. *)
LEMMA WaitsAccepts ==
  ASSUME NEW k \in Nat, NEW b \in Seq(Unit), NEW lk, NEW m, NEW P, NEW pc, NEW c,
         Waits(k, b, <<>>, lk, m, P, pc, c), pc # "frame", Len(P) \in Nat,
         Known(P, k), Strayed(P, k), k = 0 => b = <<>>
  PROVE  Waits(k + 1, b, <<>>, "up", 0, P, pc, c)
<1>1. b \o <<>> = b
  BY ConcatEmptySeq
<1>2. ~(StripMark(b) > 0) /\ Numbered(b, k + 1) /\ Passed(P, k + 1, 1)
  BY <1>1, NumberedNext, PassedNext DEF Waits
<1>3. CASE b = <<>>
  <2>1. Intact(k + 1, <<>>, 1, "up", 0)
    BY EmptyIntact
  <2>2. Clean(k + 1, b, <<>>, "up", 0, P, pc, c)
    BY <1>1, <1>2, <1>3, <2>1 DEF Clean
  <2>3. QED
    BY <1>1, <1>2, <2>2 DEF Waits
<1>4. CASE b # <<>>
  <2>1. k \in Nat \ {0}
    BY <1>4
  <2>2. Debris(k + 1, b, Len(b), "up", 0)
    <3>1. CASE Clean(k, b, <<>>, lk, m, P, pc, c)
      <4>1. PICK n \in Nat \ {0} : Intact(k, b, n, lk, m)
        BY <1>1, <3>1 DEF Clean
      <4>2. QED
        BY <1>2, <4>1, IntactLeft
    <3>2. CASE Dirty(k, b, <<>>, lk, m, P, pc, c)
      <4>1. Debris(k, b, Len(b), lk, m)
        BY <1>1, <3>2 DEF Dirty
      <4>2. QED
        BY <1>2, <4>1, DebrisLeft
    <3>3. QED
      BY <3>1, <3>2 DEF Waits
  <2>3. Cardinality(Strays(P, k + 1)) <= (k + 1) - 2
    <3>1. Cardinality(Strays(P, k + 1)) <= Cardinality(Strays(P, k))
      BY StraysNext
    <3>2. Cardinality(Strays(P, k)) <= k - 1
      BY <2>1 DEF Strayed
    <3>3. Cardinality(Strays(P, k + 1)) \in Nat /\ Cardinality(Strays(P, k)) \in Nat
      BY StraysFinite
    <3>4. QED
      BY <3>1, <3>2, <3>3
  <2>4. Dirty(k + 1, b, <<>>, "up", 0, P, pc, c)
    BY <1>1, <1>2, <2>1, <2>2, <2>3 DEF Dirty
  <2>5. QED
    BY <1>1, <1>2, <2>4 DEF Waits
<1>5. QED
  BY <1>3, <1>4

(* recv moves j units to the buffer. *)
LEMMA WaitsRecv ==
  ASSUME NEW k \in Nat, NEW b \in Seq(Unit), NEW t \in Seq(Unit), NEW lk, NEW m, NEW P, NEW pc, NEW c,
         Waits(k, b, t, lk, m, P, pc, c), pc # "frame", NEW j \in 1..Len(t), m \in Nat
  PROVE  Waits(k, b \o SubSeq(t, 1, j), Erase(t, j), lk, m, P, "frame", j)
<1>1. Len(t) \in Nat /\ Len(b) \in Nat /\ j \in 0..Len(t) /\ j \in Nat
  BY LenProperties
<1>2. PICK x \in Seq(Unit) : x = SubSeq(t, 1, j) /\ Len(x) = j
  BY <1>1, PrefixType
<1>3. PICK d \in Seq(Unit) : d = b \o x
  BY Joined
<1>4. Len(d) = Len(b) + j
  BY <1>2, <1>3, Joined
<1>5. d \o Erase(t, j) = b \o t
  BY <1>1, <1>2, <1>3, MoveUnits
<1>6. ~(StripMark(b) > 0) /\ Numbered(b \o t, k)
  BY DEF Waits
<1>7. CASE Clean(k, b, t, lk, m, P, pc, c)
  <2>1. PICK n \in Nat \ {0} : Intact(k, b \o t, n, lk, m) /\ Passed(P, k, n)
    BY <1>7 DEF Clean
  <2>2. Len(b) <= 2
    BY <1>6, <2>1, IntactFrame
  <2>3. Len(d) <= j + 2
    BY <1>1, <1>4, <2>2
  <2>4. Clean(k, d, Erase(t, j), lk, m, P, "frame", j)
    BY <1>5, <2>1, <2>3 DEF Clean
  <2>5. QED
    BY <1>2, <1>3, <1>5, <1>6, <2>4 DEF Waits
<1>8. CASE Dirty(k, b, t, lk, m, P, pc, c)
  <2>1. Debris(k, b \o t, Len(b), lk, m)
    BY <1>8 DEF Dirty
  <2>2. Debris(k, d \o Erase(t, j), Len(d), lk, m)
    <3>1. Len(b) <= Len(d) /\ Len(d) \in Nat
      BY <1>1, <1>4
    <3>2. Debris(k, b \o t, Len(d), lk, m)
      BY <1>1, <2>1, <3>1, DebrisGrows
    <3>3. QED
      BY <1>5, <3>2
  <2>3. ASSUME Find(d, ">") # 0
        PROVE  Len(d) - Find(d, ">") <= j + 1
    <3>1. CASE Find(b, ">") # 0
      <4>1. PICK e : e = Find(b, ">")
        OBVIOUS
      <4>2. e = Len(b)
        BY <1>6, <2>1, <3>1, <4>1, DebrisRest
      <4>3. Find(d, ">") = e
        BY <1>3, <3>1, <4>1, FindLeft
      <4>4. QED
        BY <1>1, <1>4, <4>2, <4>3
    <3>2. CASE Find(b, ">") = 0
      <4>1. Find(x, ">") # 0 /\ Find(d, ">") = Len(b) + Find(x, ">")
        BY <1>3, <2>3, <3>2, FindRight
      <4>2. Find(x, ">") \in Nat
        BY FindMarks
      <4>3. QED
        BY <1>1, <1>4, <4>1, <4>2
    <3>3. QED
      BY <3>1, <3>2
  <2>4. Dirty(k, d, Erase(t, j), lk, m, P, "frame", j)
    BY <1>8, <2>2, <2>3 DEF Dirty
  <2>5. QED
    BY <1>2, <1>3, <1>5, <1>6, <2>4 DEF Waits
<1>9. QED
  BY <1>7, <1>8 DEF Waits

(* Frame passes a packet on. *)
LEMMA ListedAdds ==
  ASSUME NEW P, NEW Q, NEW k \in Nat \ {0}, NEW x, Adds(P, Q, x), Listed(P, k),
         \/ NotSent(x) /\ Cardinality(Strays(P, k)) <= k - 2
         \/ \E n \in 1..SendBound : x = Whole(k, n) /\ Passed(P, k, n)
  PROVE  Listed(Q, k)
<1>0. SendBound \in Nat /\ 1..SendBound \subseteq Nat \ {0}
  BY ClientAssumption
<1>1. NotSent(x) \/ \E n \in Nat \ {0} : x = Whole(k, n) /\ Passed(P, k, n)
  BY <1>0
<1>2. Known(Q, k)
  BY <1>1, KnownAdds DEF Listed
<1>3. ASSUME NEW l \in 1..k
      PROVE  Kept(Q, l)
  <2>1. Kept(P, l) /\ l \in Nat
    BY DEF Listed
  <2>2. QED
    BY <1>1, <2>1, KeptAdds
<1>4. Strayed(Q, k)
  <2>1. /\ Cardinality(Strays(Q, k)) <= Cardinality(Strays(P, k)) + 1
        /\ (\E l \in 1..k, n \in 1..SendBound : x = Whole(l, n)) =>
             Cardinality(Strays(Q, k)) <= Cardinality(Strays(P, k))
    BY StraysAdds
  <2>2. Len(P) \in Nat /\ Len(Q) \in Nat
    BY DEF Adds
  <2>3. Cardinality(Strays(P, k)) \in Nat /\ Cardinality(Strays(Q, k)) \in Nat
    BY <2>2, StraysFinite
  <2>4. Cardinality(Strays(P, k)) <= k - 1
    BY DEF Listed, Strayed
  <2>5. CASE Cardinality(Strays(P, k)) <= k - 2
    BY <2>1, <2>3, <2>5 DEF Strayed
  <2>6. CASE \E n \in 1..SendBound : x = Whole(k, n)
    <3>1. k \in 1..k
      OBVIOUS
    <3>2. Cardinality(Strays(Q, k)) <= Cardinality(Strays(P, k))
      BY <2>1, <2>6, <3>1
    <3>3. QED
      BY <2>3, <2>4, <3>2 DEF Strayed
  <2>7. QED
    BY <2>5, <2>6
<1>5. QED
  BY <1>2, <1>3, <1>4 DEF Listed

LEMMA WaitsFrame ==
  ASSUME NEW k \in Nat \ {0}, NEW b \in Seq(Unit), NEW t \in Seq(Unit), NEW lk, NEW m \in Nat,
         NEW P, NEW Q, NEW c \in Nat, Waits(k, b, t, lk, m, P, "frame", c), Listed(P, k),
         StripMark(b) > 0, Adds(P, Q, StripData(b))
  PROVE  /\ Waits(k, Erase(b, StripMark(b)), t, lk, m, Q, "frame", c - 1)
         /\ Listed(Q, k)
<1>1. PICK e : e = StripMark(b)
  OBVIOUS
<1>2. Len(b) \in Nat /\ e \in 1..Len(b) /\ e \in 0..Len(b) /\ e > 0
  BY <1>1, StripType, LenProperties
<1>3. PICK d \in Seq(Unit) : d = Erase(b, e) /\ Len(d) = Len(b) - e
  BY <1>2, EraseType
<1>4. Numbered(d \o t, k) /\ Numbered(b \o t, k)
  <2>1. PICK s \in Seq(Unit) : s = b \o t
    BY Joined
  <2>2. e \in 0..Len(s)
    <3>1. Len(s) = Len(b) + Len(t) /\ Len(t) \in Nat
      BY <2>1, Joined
    <3>2. QED
      BY <1>2, <3>1
  <2>3. Numbered(s, k)
    BY <2>1 DEF Waits
  <2>4. Numbered(Erase(s, e), k)
    BY <2>2, <2>3, NumberedErase
  <2>5. Erase(b, e) \o t = Erase(s, e)
    BY <1>2, <2>1, EraseFront
  <2>6. QED
    BY <1>3, <2>1, <2>3, <2>4, <2>5
<1>e. e \in 1..Len(b \o t)
  <2>1. Len(b \o t) = Len(b) + Len(t) /\ Len(t) \in Nat
    BY Joined
  <2>2. QED
    BY <1>2, <2>1
<1>5. SUFFICES \E n \in Nat \ {0} :
                 /\ Intact(k, d \o t, n, lk, m) /\ Passed(Q, k, n)
                 /\ Len(d) <= (c - 1) + 2
                 /\ Listed(Q, k)
  <2>1. ASSUME NEW n \in Nat \ {0}, Intact(k, d \o t, n, lk, m), Passed(Q, k, n),
               Len(d) <= (c - 1) + 2
        PROVE  Clean(k, d, t, lk, m, Q, "frame", c - 1)
    BY <2>1 DEF Clean
  <2>2. ASSUME Clean(k, d, t, lk, m, Q, "frame", c - 1)
        PROVE  Waits(k, d, t, lk, m, Q, "frame", c - 1)
    BY <1>4, <2>2 DEF Waits
  <2>3. QED
    BY <1>1, <1>3, <2>1, <2>2
<1>6. CASE Clean(k, b, t, lk, m, P, "frame", c)
  <2>1. PICK n \in Nat \ {0} :
          Intact(k, b \o t, n, lk, m) /\ Passed(P, k, n) /\ Len(b) <= c + 2
    BY <1>6 DEF Clean
  <2>2. /\ StripMark(b) = 3 /\ StripData(b) = Whole(k, n)
        /\ (b \o t)[3] = EndMark(k, n)
        /\ Intact(k, Erase(b, 3) \o t, n + 1, lk, m)
    BY <2>1, IntactFrame
  <2>3. n \in 1..SendBound
    <3>1. n <= SendBound
      BY <1>1, <1>4, <1>e, <2>2 DEF Numbered
    <3>2. QED
      BY <3>1, ClientAssumption
  <2>4. Listed(Q, k)
    BY <2>1, <2>2, <2>3, ListedAdds
  <2>5. Passed(Q, k, n + 1)
    BY <2>1, <2>2, PassedWhole
  <2>6. n + 1 \in Nat \ {0} /\ Len(d) <= (c - 1) + 2
    BY <1>1, <1>2, <1>3, <2>1, <2>2
  <2>7. Intact(k, d \o t, n + 1, lk, m)
    BY <1>1, <1>3, <2>2
  <2>8. QED
    BY <2>4, <2>5, <2>6, <2>7
<1>7. CASE Dirty(k, b, t, lk, m, P, "frame", c)
  <2>1. /\ Debris(k, b \o t, Len(b), lk, m) /\ Passed(P, k, 1)
        /\ k > 1 /\ Cardinality(Strays(P, k)) <= k - 2
        /\ Find(b, ">") # 0 => Len(b) - Find(b, ">") <= c + 1
    BY <1>7 DEF Dirty
  <2>2. PICK n \in {1, 2} :
          /\ StripMark(b) = Find(b, ">")
          /\ Intact(k, Erase(b, StripMark(b)) \o t, n, lk, m)
          /\ \/ /\ n = 2 /\ StripData(b) = Whole(k, 1)
                /\ (b \o t)[StripMark(b)] = EndMark(k, 1)
             \/ NotSent(StripData(b))
    BY <2>1, DebrisPacket
  <2>3. Len(d) <= (c - 1) + 2
    BY <1>1, <1>2, <1>3, <2>1, <2>2
  <2>4. Intact(k, d \o t, n, lk, m)
    BY <1>1, <1>3, <2>2
  <2>5. CASE n = 2 /\ StripData(b) = Whole(k, 1) /\ (b \o t)[StripMark(b)] = EndMark(k, 1)
    <3>1. 1 \in Nat \ {0} /\ 1 + 1 = 2 /\ 2 \in Nat \ {0}
      OBVIOUS
    <3>2. 1 <= SendBound
      BY <1>1, <1>4, <1>e, <2>5, <3>1 DEF Numbered
    <3>3. 1 \in 1..SendBound
      BY <3>2, ClientAssumption
    <3>4. Listed(Q, k)
      BY <2>1, <2>5, <3>3, ListedAdds
    <3>5. Adds(P, Q, Whole(k, 1))
      BY <2>5
    <3>6. Passed(Q, k, 1 + 1)
      BY <2>1, <3>1, <3>5, PassedWhole
    <3>7. QED
      BY <2>3, <2>4, <2>5, <3>1, <3>4, <3>6
  <2>6. CASE NotSent(StripData(b))
    <3>1. n \in Nat \ {0}
      OBVIOUS
    <3>2. Listed(Q, k)
      BY <2>1, <2>6, ListedAdds
    <3>3. Passed(P, k, n)
      BY <2>1, PassedFirst
    <3>4. Passed(Q, k, n)
      BY <2>6, <3>1, <3>3, PassedStray
    <3>5. QED
      BY <2>3, <2>4, <3>1, <3>2, <3>4
  <2>7. QED
    BY <2>2, <2>5, <2>6
<1>8. QED
  BY <1>6, <1>7 DEF Waits

(* The loop over the buffer ends. *)
LEMMA WaitsFrameEnd ==
  ASSUME NEW k \in Nat, NEW b \in Seq(Unit), NEW t \in Seq(Unit), NEW lk, NEW m \in Nat, NEW P,
         NEW c \in Nat, NEW d, Waits(k, b, t, lk, m, P, "frame", c),
         BufMax >= 2, c > 0 => ~(StripMark(b) > 0)
  PROVE  Waits(k, IF c > 0 THEN Overflow(b) ELSE b, t, lk, m, P, "loop", d)
<1>1. Numbered(b \o t, k)
  BY DEF Waits
<1>2. CASE Clean(k, b, t, lk, m, P, "frame", c)
  <2>1. PICK n \in Nat \ {0} :
          Intact(k, b \o t, n, lk, m) /\ Passed(P, k, n) /\ Len(b) <= c + 2
    BY <1>2 DEF Clean
  <2>2. /\ StripMark(b) > 0 => Len(b) >= 3
        /\ ~(StripMark(b) > 0) => Len(b) <= 2
    BY <2>1, IntactFrame
  <2>3. Len(b) <= 2 /\ ~(StripMark(b) > 0)
    <3>1. Len(b) \in Nat
      BY LenProperties
    <3>2. QED
      BY <2>1, <2>2, <3>1
  <2>4. Overflow(b) = b
    BY <2>3, IntactOverflow
  <2>5. Clean(k, b, t, lk, m, P, "loop", d)
    BY <2>1 DEF Clean
  <2>6. Waits(k, b, t, lk, m, P, "loop", d)
    BY <1>1, <2>3, <2>5 DEF Waits
  <2>7. QED
    BY <2>4, <2>6
<1>3. CASE Dirty(k, b, t, lk, m, P, "frame", c)
  <2>1. /\ Debris(k, b \o t, Len(b), lk, m) /\ Passed(P, k, 1) /\ c > 0
        /\ k > 1 /\ Cardinality(Strays(P, k)) <= k - 2
    BY <1>3 DEF Dirty
  <2>2. ~(StripMark(b) > 0)
    BY <2>1
  <2>3. \/ Overflow(b) = b
        \/ Overflow(b) = <<>> /\ Debris(k, t, 0, lk, m)
    BY <2>1, <2>2, DebrisOverflow
  <2>4. CASE Overflow(b) = b
    <3>1. Dirty(k, b, t, lk, m, P, "loop", d)
      BY <2>1 DEF Dirty
    <3>2. Waits(k, b, t, lk, m, P, "loop", d)
      BY <1>1, <2>2, <3>1 DEF Waits
    <3>3. QED
      BY <2>4, <3>2
  <2>5. CASE Overflow(b) = <<>> /\ Debris(k, t, 0, lk, m)
    <3>1. <<>> \o t = t /\ Len(<<>>) = 0
      BY ConcatEmptySeq, EmptySeq
    <3>2. Dirty(k, <<>>, t, lk, m, P, "loop", d)
      BY <2>1, <2>5, <3>1 DEF Dirty
    <3>3. Numbered(t, k)
      <4>1. PICK s \in Seq(Unit) : s = b \o t
        BY Joined
      <4>2. Erase(b \o t, Len(b) + 0) = Erase(t, 0) /\ Len(b) \in Nat /\ Len(t) \in Nat
        <5>1. 0 \in 0..Len(t)
          BY LenProperties
        <5>2. QED
          BY <5>1, EraseBoth, LenProperties
      <4>3. Erase(t, 0) = t
        <5>1. 0 + 1 = 1
          OBVIOUS
        <5>2. SubSeq(t, 1, Len(t)) = t
          BY SubSeqFull
        <5>3. QED
          BY <5>1, <5>2 DEF Erase
      <4>4. Len(b) + 0 \in 0..Len(s)
        <5>1. Len(s) = Len(b) + Len(t)
          BY <4>1, Joined
        <5>2. QED
          BY <4>2, <5>1
      <4>5. Numbered(Erase(s, Len(b) + 0), k)
        BY <1>1, <4>1, <4>4, NumberedErase
      <4>6. QED
        BY <4>1, <4>2, <4>3, <4>5, Zenon
    <3>4. Waits(k, <<>>, t, lk, m, P, "loop", d)
      BY <3>1, <3>2, <3>3, EmptyStrip DEF Waits
    <3>5. QED
      BY <2>1, <2>5, <3>4
  <2>6. QED
    BY <2>3, <2>4, <2>5
<1>4. QED
  BY <1>2, <1>3 DEF Waits

(* The check thread closes the socket and empties the buffer. *)
LEMMA WaitsClosed ==
  ASSUME NEW k \in Nat, NEW b, NEW t, NEW lk, NEW m, NEW P, NEW pc, NEW c, NEW p, NEW d,
         Waits(k, b, t, lk, m, P, pc, c)
  PROVE  Waits(k, <<>>, <<>>, "none", p, P, "loop", d)
<1>1. <<>> \o <<>> = <<>>
  <2>1. PICK z \in Seq(Unit) : z = <<>>
    BY EmptySeq
  <2>2. z \o <<>> = z
    BY ConcatEmptySeq
  <2>3. QED
    BY <2>1, <2>2
<1>2. PICK n \in Nat \ {0} : Passed(P, k, n)
  BY DEF Waits, Clean, Dirty
<1>3. Intact(k, <<>>, n, "none", p)
  BY EmptyIntact
<1>4. Clean(k, <<>>, <<>>, "none", p, P, "loop", d)
  BY <1>1, <1>2, <1>3 DEF Clean
<1>5. QED
  BY <1>1, <1>4, EmptyStrip, NumberedEmpty DEF Waits

-----------------------------------------------------------------------------
(* The invariant of the client. *)
PacketInv ==
  /\ Listed(Packets, conns)
  /\ conns = 0 => strBuf = <<>> /\ stream = <<>> /\ Packets = <<>>

BufInv == checkPc # "exit" => Waits(conns, strBuf, stream, link, sent, Packets, checkPc, iCnt)

Inv == TypeInv /\ PacketInv /\ BufInv

LEMMA PacketsType ==
  ASSUME TypeInv
  PROVE  /\ Packets \in Seq(Seq(Unit)) /\ Len(Packets) \in Nat
         /\ conns \in Nat /\ sent \in Nat
BY ConcatProperties, LenProperties, ClientAssumption DEF TypeInv, ControlType, DataType, Packets

LEMMA InvInit == Init => Inv
<1> SUFFICES ASSUME Init
             PROVE  Inv
  OBVIOUS
<1>1. TypeInv
  BY TypeInit
<1>2. PICK z \in Seq(Seq(Unit)), y \in Seq(Unit) : z = <<>> /\ y = <<>>
  BY EmptySeq
<1>3. Packets = <<>> /\ <<>> \o <<>> = <<>> /\ Len(<<>>) = 0
  <2>1. y \o <<>> = y
    BY ConcatEmptySeq
  <2>2. QED
    BY <1>2, <2>1, EmptySeq DEF Init, Packets
<1>4. Strays(<<>>, 0) = {} /\ 1..0 = {}
  BY <1>3 DEF Strays
<1>5. Listed(<<>>, 0)
  <2>1. Known(<<>>, 0)
    BY <1>3 DEF Known
  <2>2. Cardinality(Strays(<<>>, 0)) = 0
    BY <1>4, FS_EmptySet
  <2>3. Strayed(<<>>, 0)
    BY <2>2 DEF Strayed
  <2>4. \A l \in 1..0 : Kept(<<>>, l)
    BY <1>4
  <2>5. QED
    BY <2>1, <2>3, <2>4 DEF Listed
<1>6. Passed(<<>>, 0, 1)
  BY <1>3 DEF Passed
<1>7. Intact(0, <<>>, 1, "none", 0)
  BY EmptyIntact
<1>8. ASSUME NEW pc \in {"start", "absent"}
      PROVE  Waits(0, <<>>, <<>>, "none", 0, <<>>, pc, 0)
  <2>1. 1 \in Nat \ {0} /\ pc # "frame"
    OBVIOUS
  <2>2. Clean(0, <<>>, <<>>, "none", 0, <<>>, pc, 0)
    BY <1>3, <1>6, <1>7, <2>1 DEF Clean
  <2>3. QED
    BY <1>3, <2>2, EmptyStrip, NumberedEmpty DEF Waits
<1>9. Waits(0, <<>>, <<>>, "none", 0, <<>>, checkPc, 0)
  BY <1>8 DEF Init
<1>10. QED
  BY <1>1, <1>3, <1>5, <1>9 DEF Init, Inv, PacketInv, BufInv

(* What a step must keep beyond the types. *)
After(k, b, t, lk, m, P, pc, c) ==
  /\ Listed(P, k)
  /\ k = 0 => b = <<>> /\ t = <<>> /\ P = <<>>
  /\ pc # "exit" => Waits(k, b, t, lk, m, P, pc, c)

LEMMA AfterPrimed ==
  After(conns', strBuf', stream', link', sent', Packets', checkPc', iCnt') => PacketInv' /\ BufInv'
BY DEF After, PacketInv, BufInv

LEMMA AfterNow ==
  ASSUME PacketInv, BufInv
  PROVE  After(conns, strBuf, stream, link, sent, Packets, checkPc, iCnt)
BY DEF After, PacketInv, BufInv

LEMMA AfterPeer ==
  ASSUME TypeInv, PacketInv, BufInv, PeerMove
  PROVE  After(conns', strBuf', stream', link', sent', Packets', checkPc', iCnt')
<1>0. /\ conns \in Nat /\ sent \in Nat /\ Packets \in Seq(Seq(Unit)) /\ Len(Packets) \in Nat
      /\ strBuf \in Seq(Unit) /\ stream \in Seq(Unit)
      /\ SendBound \in Nat /\ sent <= SendBound
  BY PacketsType, ClientAssumption DEF TypeInv, ControlType, DataType
<1>1. /\ Listed(Packets, conns)
      /\ conns = 0 => strBuf = <<>> /\ stream = <<>> /\ Packets = <<>>
      /\ checkPc # "exit" => Waits(conns, strBuf, stream, link, sent, Packets, checkPc, iCnt)
  BY DEF PacketInv, BufInv
<1>2. strBuf' = strBuf /\ iCnt' = iCnt /\ checkPc' = checkPc /\ Packets' = Packets
  BY DEF PeerMove, PeerAccepts, PeerSend, PeerCloses, PeerLost, PeerRefuses, KernelGivesUp, bufvars,
         Packets
<1>3. CASE PeerAccepts
  <2>1. /\ conns' = conns + 1 /\ sent' = 0 /\ link' = "up" /\ stream' = stream
        /\ stream = <<>> /\ checkPc # "frame" /\ conns + 1 # 0
    BY <1>0, <1>3 DEF PeerAccepts, TypeInv, ControlType
  <2>2. Listed(Packets, conns + 1)
    <3>1. Known(Packets, conns + 1)
      BY <1>0, <1>1 DEF Listed, Known
    <3>2. ASSUME NEW l \in 1..(conns + 1)
          PROVE  Kept(Packets, l)
      <4>1. CASE l = conns + 1
        BY <1>0, <1>1, <4>1, KeptNext DEF Listed
      <4>2. CASE l \in 1..conns
        BY <1>1, <4>2 DEF Listed
      <4>3. QED
        BY <1>0, <4>1, <4>2
    <3>3. Strayed(Packets, conns + 1)
      <4>1. Cardinality(Strays(Packets, conns + 1)) <= Cardinality(Strays(Packets, conns))
        BY <1>0, StraysNext
      <4>2. /\ Cardinality(Strays(Packets, conns + 1)) \in Nat
            /\ Cardinality(Strays(Packets, conns)) \in Nat
        BY <1>0, StraysFinite
      <4>3. Cardinality(Strays(Packets, conns)) <= conns
        BY <1>0, <1>1, <4>2 DEF Listed, Strayed
      <4>4. QED
        BY <1>0, <4>1, <4>2, <4>3 DEF Strayed
    <3>4. QED
      BY <3>1, <3>2, <3>3 DEF Listed
  <2>3. ASSUME checkPc # "exit"
        PROVE  Waits(conns + 1, strBuf, <<>>, "up", 0, Packets, checkPc, iCnt)
    <3>1. Waits(conns, strBuf, <<>>, link, sent, Packets, checkPc, iCnt)
      BY <1>1, <2>1, <2>3
    <3>2. QED
      BY <1>0, <1>1, <2>1, <3>1, WaitsAccepts DEF Listed
  <2>4. QED
    BY <1>2, <2>1, <2>2, <2>3 DEF After
<1>4. CASE PeerSend \/ PeerCloses
  <2>1. link = "up" /\ conns # 0 /\ conns' = conns
    BY <1>4 DEF PeerSend, PeerCloses, TypeInv, ControlType, peervars
  <2>2. PICK l \in 0..3, x \in Seq(Unit) :
          /\ stream' = stream \o x /\ Len(x) = l
          /\ \A i \in 1..l : x[i] = Message(conns, sent + 1)[i]
          /\ l = 3 => sent + 1 <= SendBound
          /\ link' = "up" => l = 3 /\ sent' = sent + 1
    <3>1. Message(conns, sent + 1) \in Seq(Unit) /\ Len(Message(conns, sent + 1)) = 3
      BY <1>0, MessageType
    <3>2. CASE PeerSend
      <4>1. PICK x \in Seq(Unit) : x = Message(conns, sent + 1)
        BY <3>1
      <4>2. /\ stream' = stream \o x /\ Len(x) = 3 /\ sent' = sent + 1 /\ sent + 1 <= SendBound
        BY <1>0, <3>1, <3>2, <4>1, FirstAssumption DEF PeerSend
      <4>3. 3 \in 0..3
        OBVIOUS
      <4>4. QED
        BY <4>1, <4>2, <4>3
    <3>3. CASE PeerCloses
      <4>1. PICK l \in 0..2 : stream' = stream \o SubSeq(Message(conns, sent + 1), 1, l)
        BY <3>3 DEF PeerCloses
      <4>2. l \in 0..3 /\ l # 3 /\ link' # "up"
        BY <3>3 DEF PeerCloses
      <4>3. PICK x \in Seq(Unit) :
              /\ x = SubSeq(Message(conns, sent + 1), 1, l) /\ Len(x) = l
              /\ \A i \in 1..l : x[i] = Message(conns, sent + 1)[i]
        <5>1. PICK w \in Seq(Unit) : w = Message(conns, sent + 1)
          BY <3>1
        <5>2. l \in 0..Len(w)
          BY <3>1, <4>2, <5>1
        <5>3. /\ SubSeq(w, 1, l) \in Seq(Unit) /\ Len(SubSeq(w, 1, l)) = l
              /\ \A i \in 1..l : SubSeq(w, 1, l)[i] = w[i]
          BY <5>2, PrefixType
        <5>4. QED
          BY <5>1, <5>3
      <4>4. QED
        BY <4>1, <4>2, <4>3
    <3>4. QED
      BY <1>4, <3>2, <3>3
  <2>3. ASSUME checkPc # "exit"
        PROVE  Waits(conns, strBuf, stream \o x, link', sent', Packets, checkPc, iCnt)
    <3>1. Waits(conns, strBuf, stream, "up", sent, Packets, checkPc, iCnt)
      BY <1>1, <2>1, <2>3
    <3>2. QED
      BY <1>0, <2>2, <3>1, WaitsSend
  <2>4. QED
    BY <1>1, <1>2, <2>1, <2>2, <2>3 DEF After
<1>5. CASE PeerLost \/ PeerRefuses \/ KernelGivesUp
  <2>1. link' # "up" /\ conns' = conns /\ stream' = stream
    BY <1>5 DEF PeerLost, PeerRefuses, KernelGivesUp, peervars
  <2>2. ASSUME checkPc # "exit"
        PROVE  Waits(conns, strBuf, stream, link', sent', Packets, checkPc, iCnt)
    BY <1>1, <2>1, <2>2, WaitsRests
  <2>3. QED
    BY <1>1, <1>2, <2>1, <2>2 DEF After
<1>6. QED
  BY <1>3, <1>4, <1>5 DEF PeerMove

(* The steps that leave the buffer and the packets alone. *)
QuietMove ==
  \/ CheckStart \/ CheckExit \/ Create \/ Connect \/ Select \/ PollIdle \/ SendDummy \/ DummyFails
  \/ RecvAgain \/ RecvEnd \/ ProcStep \/ ClearFlags \/ JoinProc \/ JoinDies

LEMMA AfterQuiet ==
  ASSUME TypeInv, PacketInv, BufInv, QuietMove
  PROVE  After(conns', strBuf', stream', link', sent', Packets', checkPc', iCnt')
<1>1. /\ Listed(Packets, conns)
      /\ conns = 0 => strBuf = <<>> /\ stream = <<>> /\ Packets = <<>>
      /\ checkPc # "exit" => Waits(conns, strBuf, stream, link, sent, Packets, checkPc, iCnt)
  BY DEF PacketInv, BufInv
<1>2. Packets' = Packets
  <2>1. CASE ProcMsg
    <3>1. /\ qRecv \in Seq(Seq(Unit)) /\ handled \in Seq(Seq(Unit)) /\ qRecv # <<>>
          /\ qRecv' = Tail(qRecv) /\ handled' = Append(handled, Head(qRecv))
      BY <2>1 DEF ProcMsg, TypeInv, DataType
    <3>2. Append(handled, Head(qRecv)) \o Tail(qRecv) = handled \o qRecv
      BY <3>1, MoveHead
    <3>3. QED
      BY <3>1, <3>2 DEF Packets
  <2>2. CASE ~ProcMsg
    BY <2>2
    DEF QuietMove, CheckStart, CheckExit, Create, Connect, Select, PollIdle, SendDummy, DummyFails,
        RecvAgain, RecvEnd, ProcStep, ProcStart, ProcGarbage, ProcExit, ClearFlags, JoinProc,
        JoinDies, Packets
  <2>3. QED
    BY <2>1, <2>2
<1>3. conns' = conns /\ sent' = sent /\ strBuf' = strBuf /\ iCnt' = iCnt
  BY DEF QuietMove, CheckStart, CheckExit, Create, Connect, Select, PollIdle, SendDummy, DummyFails,
         RecvAgain, RecvEnd, ProcStep, ProcStart, ProcMsg, ProcGarbage, ProcExit, ClearFlags,
         JoinProc, JoinDies, bufvars, peervars
<1>4. stream' = stream \/ stream' = <<>>
  BY DEF QuietMove, CheckStart, CheckExit, CloseSocket, Create, Connect, Select, PollIdle,
         SendDummy, DummyFails, RecvAgain, RecvEnd, ProcStep, ProcStart, ProcMsg, ProcGarbage,
         ProcExit, ClearFlags, JoinProc, JoinDies
<1>5. ASSUME checkPc' # "exit"
      PROVE  Waits(conns, strBuf, stream', link', sent, Packets, checkPc', iCnt)
  <2>1. stream' = stream
    BY <1>5
    DEF QuietMove, CheckStart, CheckExit, CloseSocket, Create, Connect, Select, PollIdle, SendDummy,
        DummyFails, RecvAgain, RecvEnd, ProcStep, ProcStart, ProcMsg, ProcGarbage, ProcExit,
        ClearFlags, JoinProc, JoinDies
  <2>2. link' = link \/ link' # "up"
    BY DEF QuietMove, CheckStart, CheckExit, CloseSocket, Create, Connect, Select, PollIdle,
           SendDummy, DummyFails, RecvAgain, RecvEnd, ProcStep, ProcStart, ProcMsg, ProcGarbage,
           ProcExit, ClearFlags, JoinProc, JoinDies, linkvars
  <2>3. checkPc # "exit" /\ (checkPc = "frame" <=> checkPc' = "frame")
    BY <1>5
    DEF QuietMove, CheckStart, CheckExit, Create, Connect, Select, PollIdle, SendDummy, DummyFails,
        RecvAgain, RecvEnd, ProcStep, ProcStart, ProcMsg, ProcGarbage, ProcExit, ClearFlags,
        JoinProc, JoinDies
  <2>4. Waits(conns, strBuf, stream, link, sent, Packets, checkPc, iCnt)
    BY <1>1, <2>3
  <2>5. Waits(conns, strBuf, stream, link', sent, Packets, checkPc', iCnt)
    BY <2>2, <2>3, <2>4, WaitsRests
  <2>6. QED
    BY <2>1, <2>5
<1>6. QED
  BY <1>1, <1>2, <1>3, <1>4, <1>5 DEF After

(* The steps that move the buffer, or empty the queue. *)
BufMove ==
  Recv \/ Frame \/ FrameEnd \/ CreateFails \/ ConnectFails \/ SelectFails \/ JoinCheck

LEMMA ListedPrefix ==
  ASSUME NEW P, NEW Q, NEW k \in Nat, Len(P) \in Nat, Len(Q) \in Nat, Len(Q) <= Len(P),
         \A i \in 1..Len(Q) : Q[i] = P[i], Listed(P, k)
  PROVE  Listed(Q, k)
<1>1. \A i \in 1..Len(Q) : i \in 1..Len(P) /\ Q[i] = P[i]
  OBVIOUS
<1>2. Known(Q, k)
  BY <1>1 DEF Listed, Known
<1>3. ASSUME NEW l \in 1..k
      PROVE  Kept(Q, l)
  <2>1. Kept(P, l)
    BY DEF Listed
  <2>2. \A i \in 1..Len(Q) : \A j \in 1..(i - 1) : Q[j] = P[j]
    BY <1>1
  <2>3. QED
    BY <1>1, <2>1, <2>2, ZenonT(60) DEF Kept
<1>4. Strayed(Q, k)
  <2>1. Strays(Q, k) \in SUBSET Strays(P, k)
    BY <1>1 DEF Strays
  <2>2. Cardinality(Strays(Q, k)) <= Cardinality(Strays(P, k))
    BY <2>1, StraysFinite, FS_Subset
  <2>3. Cardinality(Strays(P, k)) \in Nat /\ Cardinality(Strays(Q, k)) \in Nat
    BY StraysFinite
  <2>4. QED
    BY <2>2, <2>3 DEF Listed, Strayed
<1>5. QED
  BY <1>2, <1>3, <1>4 DEF Listed

LEMMA AfterBuf ==
  ASSUME TypeInv, PacketInv, BufInv, BufMove, BufMax >= 2
  PROVE  After(conns', strBuf', stream', link', sent', Packets', checkPc', iCnt')
<1>0. /\ conns \in Nat /\ sent \in Nat /\ Packets \in Seq(Seq(Unit)) /\ Len(Packets) \in Nat
      /\ strBuf \in Seq(Unit) /\ stream \in Seq(Unit) /\ iCnt \in Nat
      /\ handled \in Seq(Seq(Unit)) /\ qRecv \in Seq(Seq(Unit))
  BY PacketsType DEF TypeInv, DataType
<1>1. /\ Listed(Packets, conns)
      /\ conns = 0 => strBuf = <<>> /\ stream = <<>> /\ Packets = <<>>
      /\ checkPc # "exit" => Waits(conns, strBuf, stream, link, sent, Packets, checkPc, iCnt)
  BY DEF PacketInv, BufInv
<1>2. CASE Recv
  <2>1. /\ checkPc = "poll" /\ stream # <<>> /\ checkPc' = "frame"
        /\ conns' = conns /\ sent' = sent /\ link' = link /\ Packets' = Packets
    BY <1>2 DEF Recv, linkvars, peervars, Packets
  <2>2. PICK k \in 1..Len(stream) :
          /\ strBuf' = strBuf \o SubSeq(stream, 1, k)
          /\ stream' = Erase(stream, k)
          /\ iCnt' = k
    BY <1>2 DEF Recv
  <2>3. Waits(conns, strBuf, stream, link, sent, Packets, checkPc, iCnt)
    BY <1>1, <2>1
  <2>4. Waits(conns, strBuf \o SubSeq(stream, 1, k), Erase(stream, k), link, sent, Packets, "frame", k)
    BY <1>0, <2>1, <2>3, WaitsRecv
  <2>5. conns # 0
    BY <1>1, <2>1
  <2>6. QED
    BY <1>1, <2>1, <2>2, <2>4, <2>5 DEF After
<1>3. CASE Frame
  <2>1. /\ checkPc = "frame" /\ checkPc' = "frame" /\ StripMark(strBuf) > 0
        /\ iCnt' = iCnt - 1 /\ strBuf' = Erase(strBuf, StripMark(strBuf)) /\ stream' = stream
        /\ conns' = conns /\ sent' = sent /\ link' = link
        /\ handled' = handled /\ qRecv' = Append(qRecv, StripData(strBuf))
    BY <1>3 DEF Frame, linkvars, peervars
  <2>2. StripData(strBuf) \in Seq(Unit)
    BY <1>0, <2>1, StripType
  <2>3. PICK P \in Seq(Seq(Unit)) : P = Packets
    BY <1>0
  <2>4. Packets' = Append(P, StripData(strBuf))
    <3>1. handled \o Append(qRecv, StripData(strBuf)) = Append(handled \o qRecv, StripData(strBuf))
      <4>1. PICK d \in Seq(Unit), h \in Seq(Seq(Unit)), q \in Seq(Seq(Unit)) :
              d = StripData(strBuf) /\ h = handled /\ q = qRecv
        BY <1>0, <2>2
      <4>2. h \o Append(q, d) = Append(h \o q, d)
        BY ONLY h \in Seq(Seq(Unit)), q \in Seq(Seq(Unit)), d \in Seq(Unit), AppendRight
      <4>3. QED
        BY <4>1, <4>2, Zenon
    <3>2. QED
      BY <2>1, <2>3, <3>1 DEF Packets
  <2>5. PICK Q : Q = Packets' /\ Adds(P, Q, StripData(strBuf))
    BY <2>2, <2>4, AppendAdds
  <2>6. conns # 0
    <3>1. ~(StripMark(<<>>) > 0)
      BY EmptyStrip
    <3>2. QED
      BY <1>1, <2>1, <3>1
  <2>7. conns \in Nat \ {0} /\ Listed(P, conns)
        /\ Waits(conns, strBuf, stream, link, sent, P, "frame", iCnt)
    BY <1>0, <1>1, <2>1, <2>3, <2>6
  <2>8. /\ Waits(conns, Erase(strBuf, StripMark(strBuf)), stream, link, sent, Q, "frame", iCnt - 1)
        /\ Listed(Q, conns)
    BY <1>0, <2>1, <2>5, <2>7, WaitsFrame
  <2>9. QED
    BY <2>1, <2>5, <2>6, <2>8 DEF After
<1>4. CASE FrameEnd
  <2>1. /\ checkPc = "frame" /\ checkPc' = "loop" /\ iCnt' = 0
        /\ strBuf' = (IF iCnt > 0 THEN Overflow(strBuf) ELSE strBuf) /\ stream' = stream
        /\ conns' = conns /\ sent' = sent /\ link' = link /\ Packets' = Packets
        /\ iCnt > 0 => StripMark(strBuf) <= 0
    BY <1>4 DEF FrameEnd, linkvars, peervars, Packets
  <2>2. iCnt > 0 => ~(StripMark(strBuf) > 0)
    <3>1. StripMark(strBuf) \in Int
      <4>1. Find(strBuf, ">") \in 0..Len(strBuf)
        BY <1>0, FindMarks
      <4>2. QED
        BY <4>1 DEF StripMark
    <3>2. QED
      BY <2>1, <3>1
  <2>3. Waits(conns, strBuf, stream, link, sent, Packets, "frame", iCnt)
    BY <1>1, <2>1
  <2>4. Waits(conns, IF iCnt > 0 THEN Overflow(strBuf) ELSE strBuf, stream, link, sent, Packets,
              "loop", 0)
    BY <1>0, <2>2, <2>3, WaitsFrameEnd
  <2>5. strBuf = <<>> => strBuf' = <<>>
    <3>1. Len(<<>>) <= 2 /\ <<>> \in Seq(Unit)
      BY EmptySeq
    <3>2. Overflow(<<>>) = <<>>
      BY <3>1, IntactOverflow
    <3>3. QED
      BY <2>1, <3>2
  <2>6. QED
    BY <1>1, <2>1, <2>4, <2>5 DEF After
<1>5. CASE CreateFails \/ ConnectFails \/ SelectFails
  <2>1. /\ checkPc # "exit" /\ checkPc' = "loop"
        /\ strBuf' = <<>> /\ stream' = <<>> /\ link' = "none"
        /\ conns' = conns /\ sent' = sent /\ iCnt' = iCnt /\ Packets' = Packets
    BY <1>5 DEF CreateFails, ConnectFails, SelectFails, StartOver, CloseSocket, peervars, Packets
  <2>2. Waits(conns, <<>>, <<>>, "none", sent, Packets, "loop", iCnt)
    BY <1>0, <1>1, <2>1, WaitsClosed
  <2>3. QED
    BY <1>1, <2>1, <2>2 DEF After
<1>6. CASE JoinCheck
  <2>1. /\ checkPc' = checkPc /\ qRecv' = <<>> /\ handled' = handled
        /\ strBuf' = strBuf /\ iCnt' = iCnt /\ stream' = stream /\ link' = link
        /\ conns' = conns /\ sent' = sent
        /\ checkPc = "exit" \/ conns = 0
    BY <1>6 DEF JoinCheck, bufvars, linkvars, peervars, TypeInv, ControlType
  <2>2. Packets' = handled
    <3>1. handled \o <<>> = handled
      BY <1>0, ConcatEmptySeq
    <3>2. QED
      BY <2>1, <3>1 DEF Packets
  <2>3. /\ Len(handled) \in Nat /\ Len(Packets) \in Nat /\ Len(handled) <= Len(Packets)
        /\ \A i \in 1..Len(handled) : handled[i] = Packets[i]
    <3>1. /\ Len(handled \o qRecv) = Len(handled) + Len(qRecv)
          /\ \A i \in 1..(Len(handled) + Len(qRecv)) :
               (handled \o qRecv)[i] = IF i <= Len(handled) THEN handled[i] ELSE qRecv[i - Len(handled)]
      BY <1>0, ConcatProperties
    <3>2. Len(handled) \in Nat /\ Len(qRecv) \in Nat
      BY <1>0, LenProperties
    <3>3. \A i \in 1..Len(handled) : i \in 1..(Len(handled) + Len(qRecv)) /\ i <= Len(handled)
      BY <3>2
    <3>4. \A i \in 1..Len(handled) : handled[i] = (handled \o qRecv)[i]
      BY <3>1, <3>3
    <3>5. QED
      BY <3>1, <3>2, <3>4 DEF Packets
  <2>4. Listed(handled, conns)
    BY <1>0, <1>1, <2>3, ListedPrefix
  <2>5. conns = 0 => handled = <<>>
    <3>1. Packets = <<>> => Len(handled) = 0
      BY <2>3, EmptySeq
    <3>2. QED
      BY <1>0, <1>1, <3>1, EmptySeq
  <2>6. checkPc # "exit" => Waits(conns, strBuf, stream, link, sent, handled, checkPc, iCnt)
    BY <1>1, <2>1, <2>5
  <2>7. QED
    BY <1>1, <2>1, <2>2, <2>4, <2>5, <2>6 DEF After
<1>7. QED
  BY <1>2, <1>3, <1>4, <1>5, <1>6 DEF BufMove

LEMMA InvStep ==
  ASSUME Inv, [Next]_vars, BufMax >= 2
  PROVE  Inv'
<1>0. TypeInv /\ PacketInv /\ BufInv /\ TypeInv'
  BY TypeStep DEF Inv
<1>1. CASE Next
  <2>1. PeerMove \/ QuietMove \/ BufMove
    BY <1>1 DEF Next, PeerMove, QuietMove, BufMove, CheckStep, StopStep
  <2>2. After(conns', strBuf', stream', link', sent', Packets', checkPc', iCnt')
    BY <1>0, <2>1, AfterPeer, AfterQuiet, AfterBuf
  <2>3. QED
    BY <1>0, <2>2, AfterPrimed DEF Inv
<1>2. CASE UNCHANGED vars
  <2>1. /\ conns' = conns /\ strBuf' = strBuf /\ stream' = stream /\ link' = link /\ sent' = sent
        /\ Packets' = Packets /\ checkPc' = checkPc /\ iCnt' = iCnt
    BY <1>2 DEF vars, bufvars, linkvars, peervars, Packets
  <2>2. After(conns', strBuf', stream', link', sent', Packets', checkPc', iCnt')
    BY <1>0, <2>1, AfterNow
  <2>3. QED
    BY <1>0, <2>2, AfterPrimed DEF Inv
<1>3. QED
  BY <1>1, <1>2

LEMMA InvOrder ==
  ASSUME Inv
  PROVE  InOrder
<1>0. Len(Packets) \in Nat /\ Packets \in Seq(Seq(Unit))
  BY PacketsType DEF Inv
<1>1. DOMAIN Packets = 1..Len(Packets)
  BY <1>0, LenProperties
<1>2. SUFFICES ASSUME NEW k \in 1..conns, NEW i \in 1..Len(Packets), NEW n \in 1..SendBound,
                      Packets[i] = Whole(k, n)
               PROVE  /\ \A j \in 1..(i - 1), m \in n..SendBound : Packets[j] # Whole(k, m)
                      /\ \/ n = 1
                         \/ n = 2 /\ k > 1
                         \/ \E j \in 1..(i - 1) : Packets[j] = Whole(k, n - 1)
  BY <1>1 DEF InOrder, Of
<1>3. Kept(Packets, k)
  BY DEF Inv, PacketInv, Listed
<1>4. QED
  BY <1>2, <1>3 DEF Kept

LEMMA InvOneBad ==
  ASSUME Inv
  PROVE  OneBadPerReconnect
<1>0. Packets \in Seq(Seq(Unit)) /\ conns \in Nat
  BY PacketsType DEF Inv
<1>1. DOMAIN Packets = 1..Len(Packets)
  BY <1>0, LenProperties
<1>2. {i \in DOMAIN Packets : ~IsWhole(Packets[i])} = Strays(Packets, conns)
  BY <1>1 DEF Strays, IsWhole
<1>3. Strayed(Packets, conns)
  BY DEF Inv, PacketInv, Listed
<1>4. QED
  BY <1>2, <1>3 DEF OneBadPerReconnect, Strayed

(* The messages of the first connection reach the handler whole and in     *)
(* order, those of a later one too, perhaps without its first: whatever is *)
(* cut, lost or left in the buffer.  The buffer must hold a message but    *)
(* for its end mark.                                                       *)
THEOREM PacketsInOrder ==
  ASSUME BufMax >= 2
  PROVE  Spec => []InOrder
<1>1. Init => Inv
  BY InvInit
<1>2. Inv /\ [Next]_vars => Inv'
  BY InvStep
<1>3. Inv => InOrder
  BY InvOrder
<1>4. QED
  BY <1>1, <1>2, <1>3, PTL DEF Spec

(* Each connection but the first puts at most one packet before the        *)
(* handler that no peer has sent.                                          *)
THEOREM OneStrayEach ==
  ASSUME BufMax >= 2
  PROVE  Spec => []OneBadPerReconnect
<1>1. Init => Inv
  BY InvInit
<1>2. Inv /\ [Next]_vars => Inv'
  BY InvStep
<1>3. Inv => OneBadPerReconnect
  BY InvOneBad
<1>4. QED
  BY <1>1, <1>2, <1>3, PTL DEF Spec

=============================================================================
