------------------------- MODULE SocketServer_proofs -------------------------
(***************************************************************************)
(* What holds of SocketServer for any clients, messages of any length and  *)
(* any bound of the buffer.                                                *)
(***************************************************************************)
EXTENDS SocketServer, Operators_proofs

LEMMA UnitIsUnits == Unit = Units(Msgs)
BY DEF Unit, Units

(* A message as it goes over the stream, and what is left of one that is   *)
(* cut by a close.                                                         *)
LEMMA WholeWireType ==
  ASSUME NEW c \in Clients, NEW n \in Nat \ {0}
  PROVE  /\ WholeWire(c, n) \in Seq(Unit) /\ Len(WholeWire(c, n)) = Pieces[c] + 2
         /\ WholeWire(c, n)[1] = <<"<", <<c, n>>, 0>>
         /\ WholeWire(c, n)[Pieces[c] + 2] = <<">", <<c, n>>, 0>>
         /\ \A i \in 2..(Pieces[c] + 1) :
              WholeWire(c, n)[i] = <<IF i = 2 THEN "," ELSE ".", <<c, n>>, i - 1>>
<1>1. <<c, n>> \in Msgs
  BY DEF Msgs
<1>2. Pieces[c] \in Nat
  BY ServerAssumption
<1>3. QED
  BY <1>1, <1>2, WireType, UnitIsUnits DEF WholeWire

-----------------------------------------------------------------------------
(* TypeOK is inductive with: a stopped server has no check thread. *)
ControlType ==
  /\ checkPc \in CheckPcs /\ procPc \in ProcPcs
  /\ condCheck \in BOOLEAN /\ condProc \in BOOLEAN
  /\ mainPc \in MainPcs /\ starts \in 0..StartBound
  /\ mainPc = "new" <=> checkPc = "none"
  /\ mainPc = "stopped" => checkPc \in {"exit", "absent"}
  /\ conn \in Clients \cup {0} /\ eagain \in BOOLEAN
  /\ listening = (checkPc \in {"poll", "frame"})
  /\ conn # 0 => checkPc \in {"poll", "frame"}

DataType ==
  /\ strBuf \in Seq(Unit) /\ iCnt \in Nat
  /\ qRecv \in Seq(Seq(Unit)) /\ handled \in Seq(Seq(Unit))
  /\ backlog \in Seq(Clients)
  /\ link \in [Clients -> {"new", "open", "fin", "rst"}]
  /\ stream \in [Clients -> Seq(Unit)]
  /\ sent \in [Clients -> Nat]
  /\ \A c \in Clients : sent[c] <= SendBound[c]

TypeInv == ControlType /\ DataType

LEMMA TypeInit == Init => TypeInv
<1> SUFFICES ASSUME Init
             PROVE  TypeInv
  OBVIOUS
<1>1. ControlType
  <2>1. 0 \in 0..StartBound
    BY ServerAssumption
  <2>2. listening = (checkPc \in {"poll", "frame"})
    <3>1. listening = FALSE /\ (checkPc \in {"poll", "frame"}) = FALSE
      BY DEF Init
    <3>2. QED
      BY <3>1, Zenon
  <2>3. QED
    BY <2>1, <2>2 DEF Init, ControlType, CheckPcs, ProcPcs, MainPcs
<1>2. DataType
  <2>1. \A S : <<>> \in Seq(S)
    BY EmptySeq
  <2>2. \A c \in Clients : 0 <= SendBound[c]
    BY ServerAssumption
  <2>3. QED
    BY <2>1, <2>2 DEF Init, DataType
<1>3. QED
  BY <1>1, <1>2 DEF TypeInv

ClientMove(c) == Connect(c) \/ ClientSend(c) \/ ClientClose(c) \/ ClientReset(c)

LEMMA ClientTypes ==
  ASSUME TypeInv, NEW c \in Clients, ClientMove(c)
  PROVE  TypeInv'
<1>0. ControlType /\ DataType
  BY DEF TypeInv
<1>1. UNCHANGED <<threadvars, ownvars, sockvars, bufvars, qRecv, handled>>
  BY DEF ClientMove, Connect, ClientSend, ClientClose, ClientReset
<1>2. ControlType'
  BY <1>0, <1>1 DEF threadvars, ownvars, sockvars, ControlType
<1>3. DataType'
  <2>1. CASE Connect(c)
    <3>1. Append(backlog, c) \in Seq(Clients)
      BY <1>0, AppendProperties DEF DataType
    <3>2. QED
      BY <1>0, <2>1, <3>1 DEF Connect, DataType, bufvars
  <2>2. CASE ClientSend(c)
    <3>1. sent[c] \in Nat /\ sent[c] + 1 \in Nat \ {0} /\ sent[c] + 1 <= SendBound[c]
      <4>1. sent[c] \in Nat
        BY <1>0 DEF DataType
      <4>2. SendBound[c] \in Nat
        BY ServerAssumption
      <4>3. sent[c] < SendBound[c]
        BY <2>2 DEF ClientSend
      <4>4. QED
        BY <4>1, <4>2, <4>3
    <3>2. stream[c] \o WholeWire(c, sent[c] + 1) \in Seq(Unit)
      BY <1>0, <3>1, WholeWireType, ConcatProperties DEF DataType
    <3>3. QED
      BY <1>0, <2>2, <3>1, <3>2 DEF ClientSend, DataType, bufvars
  <2>3. CASE ClientClose(c)
    <3>1. PICK k \in 0..(Pieces[c] + 1) :
            stream' = [stream EXCEPT ![c] = @ \o SubSeq(WholeWire(c, sent[c] + 1), 1, k)]
      BY <2>3 DEF ClientClose
    <3>2. sent[c] + 1 \in Nat \ {0} /\ Pieces[c] \in Nat
      BY <1>0, ServerAssumption DEF DataType
    <3>3. /\ WholeWire(c, sent[c] + 1) \in Seq(Unit)
          /\ k \in 0..Len(WholeWire(c, sent[c] + 1))
      <4>1. /\ WholeWire(c, sent[c] + 1) \in Seq(Unit)
            /\ Len(WholeWire(c, sent[c] + 1)) = Pieces[c] + 2
        BY <3>2, WholeWireType
      <4>2. k \in 0..(Pieces[c] + 2)
        BY <3>2
      <4>3. QED
        BY <4>1, <4>2
    <3>4. SubSeq(WholeWire(c, sent[c] + 1), 1, k) \in Seq(Unit)
      BY <3>3, PrefixType
    <3>5. stream[c] \o SubSeq(WholeWire(c, sent[c] + 1), 1, k) \in Seq(Unit)
      BY <1>0, <3>4, ConcatProperties DEF DataType
    <3>6. QED
      BY <1>0, <2>3, <3>1, <3>5 DEF ClientClose, DataType, bufvars
  <2>4. CASE ClientReset(c)
    BY <1>0, <2>4 DEF ClientReset, DataType, bufvars
  <2>5. QED
    BY <2>1, <2>2, <2>3, <2>4 DEF ClientMove
<1>4. QED
  BY <1>2, <1>3 DEF TypeInv

ThreadMove == CheckStep \/ ProcStep \/ StartThread \/ ClearFlags \/ StopStep

LEMMA ControlStep ==
  ASSUME TypeInv, ThreadMove
  PROVE  ControlType'
<1>0. ControlType /\ DataType
  BY DEF TypeInv
<1>1. CASE Accept
  <2>1. Head(backlog) \in Clients
    BY <1>0, <1>1, HeadTailProperties DEF Accept, DataType
  <2>2. checkPc = "poll"
    BY <1>1 DEF Accept, Polling
  <2>3. QED
    BY <1>0, <1>1, <2>1, <2>2 DEF Accept, ControlType, threadvars, ownvars
<1>2. CASE Listen
  BY <1>0, <1>2 DEF Listen, ControlType, ownvars, CheckPcs
<1>3. CASE ListenFails
  BY <1>0, <1>3 DEF ListenFails, ControlType, ownvars, sockvars, CheckPcs
<1>4. CASE AcceptFails
  BY <1>0, <1>4 DEF AcceptFails, ControlType, Polling, threadvars, ownvars
<1>5. CASE AcceptAgain
  BY <1>0, <1>5 DEF AcceptAgain, ControlType, threadvars, ownvars, sockvars
<1>6. CASE Recv
  BY <1>0, <1>6 DEF Recv, ControlType, Receiving, Polling, ownvars, sockvars, CheckPcs
<1>7. CASE RecvAgain
  BY <1>0, <1>7 DEF RecvAgain, ControlType, threadvars, ownvars
<1>8. CASE RecvEnd
  BY <1>0, <1>8 DEF RecvEnd, ControlType, threadvars, ownvars
<1>9. CASE Frame
  BY <1>0, <1>9 DEF Frame, ControlType, threadvars, ownvars, sockvars
<1>10. CASE FrameEnd
  BY <1>0, <1>10 DEF FrameEnd, ControlType, ownvars, sockvars, CheckPcs
<1>11. CASE CheckExit
  <2>1. listening' = FALSE /\ (checkPc' \in {"poll", "frame"}) = FALSE
    BY <1>11 DEF CheckExit
  <2>2. listening' = (checkPc' \in {"poll", "frame"})
    BY <2>1, Zenon
  <2>3. QED
    BY <1>0, <1>11, <2>2 DEF CheckExit, ControlType, ownvars, CheckPcs
<1>12. CASE ProcStart
  BY <1>0, <1>12 DEF ProcStart, ControlType, ownvars, sockvars, ProcPcs
<1>13. CASE ProcMsg
  BY <1>0, <1>13 DEF ProcMsg, ControlType, threadvars, ownvars, sockvars
<1>14. CASE ProcGarbage
  BY <1>0, <1>14 DEF ProcGarbage, ControlType, ownvars, sockvars, ProcPcs
<1>15. CASE ProcExit
  BY <1>0, <1>15 DEF ProcExit, ControlType, ownvars, sockvars, ProcPcs
<1>16. CASE StartThread
  <2>1. starts + 1 \in 0..StartBound
    BY <1>0, <1>16, ServerAssumption DEF StartThread, Created, ControlType
  <2>2. (checkPc \in {"poll", "frame"}) = FALSE /\ conn = 0
    BY <1>0, <1>16 DEF StartThread, Created, ControlType
  <2>3. (checkPc' \in {"poll", "frame"}) = FALSE /\ UNCHANGED listening
    BY <1>16 DEF StartThread, Created
  <2>4. listening' = (checkPc' \in {"poll", "frame"})
    <3>1. listening = (checkPc \in {"poll", "frame"})
      BY <1>0 DEF ControlType
    <3>2. QED
      BY <3>1, <2>2, <2>3, Zenon
  <2>5. QED
    BY <1>0, <1>16, <2>1, <2>2, <2>4
    DEF StartThread, Created, ControlType, CheckPcs, ProcPcs, MainPcs
<1>17. CASE ClearFlags
  BY <1>0, <1>17 DEF ClearFlags, ControlType, sockvars, MainPcs
<1>18. CASE JoinProc
  BY <1>0, <1>18 DEF JoinProc, ControlType, threadvars, sockvars, MainPcs
<1>19. CASE JoinCheck
  BY <1>0, <1>19 DEF JoinCheck, ControlType, threadvars, sockvars, MainPcs
<1>20. CASE JoinDies
  BY <1>0, <1>20 DEF JoinDies, ControlType, ownvars, sockvars, ProcPcs
<1>21. QED
  BY <1>1, <1>2, <1>3, <1>4, <1>5, <1>6, <1>7, <1>8, <1>9, <1>10, <1>11, <1>12, <1>13, <1>14,
     <1>15, <1>16, <1>17, <1>18, <1>19,
     <1>20
  DEF ThreadMove, CheckStep, ProcStep, StopStep

LEMMA DataStep ==
  ASSUME TypeInv, ThreadMove
  PROVE  DataType'
<1>0. ControlType /\ DataType /\ \A S : <<>> \in Seq(S)
  BY EmptySeq DEF TypeInv
<1>1. CASE Accept \/ AcceptFails \/ AcceptAgain
  <2>1. backlog # <<>>
    BY <1>1 DEF Accept, AcceptFails, AcceptAgain
  <2>2. Tail(backlog) \in Seq(Clients)
    BY <1>0, <2>1, HeadTailProperties DEF DataType
  <2>3. <<>> \in Seq(Unit)
    BY <1>0
  <2>4. UNCHANGED <<iCnt, qRecv, netvars, handled>>
    BY <1>1 DEF Accept, AcceptFails, AcceptAgain
  <2>5. strBuf' \in Seq(Unit)
    BY <1>1, <2>3 DEF Accept, AcceptFails, AcceptAgain
  <2>6. backlog' \in Seq(Clients)
    BY <1>0, <1>1, <2>2 DEF Accept, AcceptFails, AcceptAgain, DataType
  <2>7. QED
    BY <1>0, <2>4, <2>5, <2>6 DEF DataType, netvars
<1>2. CASE Recv
  <2>1. conn \in Clients /\ stream[conn] \in Seq(Unit)
    BY <1>0, <1>2 DEF Recv, Receiving, ControlType, DataType
  <2>2. PICK k \in 1..Len(stream[conn]) :
          /\ strBuf' = strBuf \o SubSeq(stream[conn], 1, k)
          /\ stream' = [stream EXCEPT ![conn] = Erase(@, k)]
          /\ iCnt' = k
    BY <1>2 DEF Recv
  <2>3. k \in 0..Len(stream[conn]) /\ k \in Nat
    BY <2>1, LenProperties
  <2>4. SubSeq(stream[conn], 1, k) \in Seq(Unit) /\ Erase(stream[conn], k) \in Seq(Unit)
    BY <2>1, <2>3, PrefixType, EraseType
  <2>5. strBuf' \in Seq(Unit)
    BY <1>0, <2>2, <2>4, ConcatProperties DEF DataType
  <2>6. QED
    BY <1>0, <1>2, <2>1, <2>2, <2>3, <2>4, <2>5 DEF Recv, DataType
<1>3. CASE Frame
  <2>1. StripMark(strBuf) \in 1..Len(strBuf) /\ StripData(strBuf) \in Seq(Unit)
    BY <1>0, <1>3, StripType DEF Frame, DataType
  <2>2. StripMark(strBuf) \in 0..Len(strBuf) /\ Len(strBuf) \in Nat
    BY <1>0, <2>1, LenProperties DEF DataType
  <2>3. Erase(strBuf, StripMark(strBuf)) \in Seq(Unit)
    BY <1>0, <2>2, EraseType DEF DataType
  <2>4. Append(qRecv, StripData(strBuf)) \in Seq(Seq(Unit))
    BY <1>0, <2>1, AppendProperties DEF DataType
  <2>5. QED
    BY <1>0, <1>3, <2>3, <2>4 DEF Frame, DataType, netvars
<1>4. CASE FrameEnd
  <2>1. Overflow(strBuf) \in Seq(Unit)
    BY <1>0, OverflowType DEF DataType
  <2>2. QED
    BY <1>0, <1>4, <2>1 DEF FrameEnd, DataType, netvars
<1>5. CASE Listen \/ ListenFails \/ RecvAgain \/ RecvEnd \/ CheckExit
  BY <1>0, <1>5
  DEF Listen, ListenFails, RecvAgain, RecvEnd, CheckExit, DataType, netvars, bufvars
<1>6. CASE ProcMsg
  <2>1. Head(qRecv) \in Seq(Unit) /\ Tail(qRecv) \in Seq(Seq(Unit))
    BY <1>0, <1>6, HeadTailProperties DEF ProcMsg, DataType
  <2>2. Append(handled, Head(qRecv)) \in Seq(Seq(Unit))
    BY <1>0, <2>1, AppendProperties DEF DataType
  <2>3. QED
    BY <1>0, <1>6, <2>1, <2>2 DEF ProcMsg, DataType, netvars, bufvars
<1>7. CASE ProcStart \/ ProcGarbage \/ ProcExit
  BY <1>0, <1>7 DEF ProcStart, ProcGarbage, ProcExit, DataType, netvars, bufvars
<1>8. CASE StartThread \/ ClearFlags \/ StopStep
  <2>1. <<>> \in Seq(Unit) /\ <<>> \in Seq(Seq(Unit))
    BY <1>0
  <2>2. CASE StartThread
    BY <1>0, <2>1, <2>2 DEF StartThread, Created, DataType, netvars
  <2>3. CASE ClearFlags \/ JoinProc \/ JoinCheck \/ JoinDies
    BY <1>0, <2>1, <2>3 DEF ClearFlags, JoinProc, JoinCheck, JoinDies, DataType, netvars, bufvars
  <2>4. QED
    BY <1>8, <2>2, <2>3 DEF StopStep
<1>9. QED
  BY <1>1, <1>2, <1>3, <1>4, <1>5, <1>6, <1>7, <1>8 DEF ThreadMove, CheckStep, ProcStep

LEMMA TypeStep == TypeInv /\ [Next]_vars => TypeInv'
<1> SUFFICES ASSUME TypeInv, [Next]_vars
             PROVE  TypeInv'
  OBVIOUS
<1>1. ASSUME NEW c \in Clients, ClientMove(c)
      PROVE  TypeInv'
  BY <1>1, ClientTypes
<1>2. CASE ThreadMove
  BY <1>2, ControlStep, DataStep DEF TypeInv
<1>3. CASE UNCHANGED vars
  BY <1>3
  DEF vars, threadvars, ownvars, sockvars, bufvars, netvars, TypeInv, ControlType, DataType
<1>4. QED
  BY <1>1, <1>2, <1>3 DEF Next, ClientMove, ThreadMove

(* Every variable keeps a value of its C++ type, and a client is only      *)
(* connected to a server that listens.                                     *)
THEOREM TypeCorrect == Spec => []TypeOK
<1>1. Init => TypeInv
  BY TypeInit
<1>2. TypeInv /\ [Next]_vars => TypeInv'
  BY TypeStep
<1>3. TypeInv => TypeOK
  <2> SUFFICES ASSUME TypeInv
               PROVE  TypeOK
    OBVIOUS
  <2>1. listening = (checkPc \in {"poll", "frame"})
    BY DEF TypeInv, ControlType
  <2>2. CASE checkPc \in {"poll", "frame"}
    <3>1. listening = TRUE
      BY <2>1, <2>2, Zenon
    <3>2. QED
      BY <2>2, <3>1 DEF TypeInv, ControlType, DataType, TypeOK
  <2>3. CASE checkPc \notin {"poll", "frame"}
    <3>1. (checkPc \in {"poll", "frame"}) = FALSE
      BY <2>3
    <3>2. listening = FALSE
      BY <2>1, <3>1, Zenon
    <3>3. QED
      BY <2>3, <3>2 DEF TypeInv, ControlType, DataType, TypeOK
  <2>4. QED
    BY <2>2, <2>3
<1>4. QED
  BY <1>1, <1>2, <1>3, PTL DEF Spec

-----------------------------------------------------------------------------
(* What a client has sent and the server has not framed, from the start of *)
(* its message n: whole messages one after the other, perhaps with a last  *)
(* one that is cut.                                                        *)
StartMark(c, n) == <<"<", <<c, n>>, 0>>
EndMark(c, n) == <<">", <<c, n>>, 0>>

Starts(c, s, n) == s # <<>> => s[1] = StartMark(c, n)

Runs(c, s) ==
  \A i \in 1..Len(s), k \in Nat \ {0} : s[i] = StartMark(c, k) =>
    \A d \in 0..(Pieces[c] + 1) : i + d <= Len(s) => s[i + d] = WholeWire(c, k)[d + 1]

Follows(c, s) ==
  \A i \in 1..(Len(s) - 1), k \in Nat \ {0} :
    s[i] = EndMark(c, k) => s[i + 1] = StartMark(c, k + 1)

Shape(c, s, n) == Starts(c, s, n) /\ Runs(c, s) /\ Follows(c, s)

(* It ends with message m, of which nothing is missing. *)
Ended(c, s, n, m) == IF s = <<>> THEN n = m + 1 ELSE s[Len(s)] = EndMark(c, m)

LEMMA MarkNames ==
  ASSUME NEW c, NEW n, NEW k
  PROVE  /\ StartMark(c, n)[1] = "<" /\ EndMark(c, n)[1] = ">" /\ StartMark(c, n) # EndMark(c, k)
         /\ StartMark(c, n)[2] = <<c, n>> /\ EndMark(c, n)[2] = <<c, n>>
         /\ StartMark(c, n) = StartMark(c, k) => n = k
         /\ EndMark(c, n) = EndMark(c, k) => n = k
BY DEF StartMark, EndMark

LEMMA Marks ==
  ASSUME NEW c \in Clients, NEW k \in Nat \ {0}, NEW i \in 1..(Pieces[c] + 2)
  PROVE  /\ WholeWire(c, k)[1] = StartMark(c, k)
         /\ WholeWire(c, k)[Pieces[c] + 2] = EndMark(c, k)
         /\ \A n : WholeWire(c, k)[i] = StartMark(c, n) => i = 1 /\ n = k
         /\ \A n : WholeWire(c, k)[i] = EndMark(c, n) => i = Pieces[c] + 2 /\ n = k
         /\ WholeWire(c, k)[i][1] = ">" => i = Pieces[c] + 2
         /\ WholeWire(c, k)[i][2] = <<c, k>>
<1>1. Pieces[c] \in Nat \ {0} /\ i \in Nat
  BY ServerAssumption
<1>2. /\ WholeWire(c, k)[1] = StartMark(c, k)
      /\ WholeWire(c, k)[Pieces[c] + 2] = EndMark(c, k)
      /\ \A j \in 2..(Pieces[c] + 1) :
           WholeWire(c, k)[j] = <<IF j = 2 THEN "," ELSE ".", <<c, k>>, j - 1>>
  BY WholeWireType DEF StartMark, EndMark
<1>3. PICK w : w = WholeWire(c, k)[i]
  OBVIOUS
<1>4. CASE i = 1
  <2>1. w = StartMark(c, k)
    BY <1>2, <1>3, <1>4
  <2>2. /\ \A n : w = StartMark(c, n) => i = 1 /\ n = k
        /\ \A n : w = EndMark(c, n) => i = Pieces[c] + 2 /\ n = k
    <3>1. /\ \A n : StartMark(c, k) = StartMark(c, n) => k = n
          /\ \A n : StartMark(c, k) # EndMark(c, n)
      BY DEF StartMark, EndMark
    <3> QED BY <1>4, <2>1, <3>1
  <2>3. w[1] # ">" /\ w[2] = <<c, k>>
    BY <2>1, MarkNames
  <2> QED BY <1>2, <1>3, <2>2, <2>3
<1>5. CASE i = Pieces[c] + 2
  <2>1. w = EndMark(c, k)
    BY <1>2, <1>3, <1>5
  <2>2. /\ \A n : w = StartMark(c, n) => i = 1 /\ n = k
        /\ \A n : w = EndMark(c, n) => i = Pieces[c] + 2 /\ n = k
    <3>1. /\ \A n : EndMark(c, k) = EndMark(c, n) => k = n
          /\ \A n : EndMark(c, k) # StartMark(c, n)
      BY DEF StartMark, EndMark
    <3> QED BY <1>5, <2>1, <3>1
  <2>3. w[2] = <<c, k>>
    BY <2>1, MarkNames
  <2> QED BY <1>2, <1>3, <1>5, <2>2, <2>3
<1>6. CASE i \in 2..(Pieces[c] + 1)
  <2>1. w = <<IF i = 2 THEN "," ELSE ".", <<c, k>>, i - 1>>
    BY <1>2, <1>3, <1>6
  <2>2. w[1] # "<" /\ w[1] # ">" /\ w[2] = <<c, k>>
    BY <2>1
  <2>3. \A n : w # StartMark(c, n) /\ w # EndMark(c, n)
    BY <2>2, MarkNames
  <2> QED BY <1>2, <1>3, <2>2, <2>3
<1> QED
  BY <1>1, <1>4, <1>5, <1>6

(* A client that goes on with the next message, or a part of it. *)
LEMMA ShapeSend ==
  ASSUME NEW c \in Clients, NEW s \in Seq(Unit), NEW t \in Seq(Unit), NEW n \in Nat \ {0},
         NEW m \in Nat, NEW l \in 0..(Pieces[c] + 2),
         Shape(c, s, n), Ended(c, s, n, m),
         Len(t) = Len(s) + l,
         \A i \in 1..Len(s) : t[i] = s[i],
         \A i \in 1..l : t[Len(s) + i] = WholeWire(c, m + 1)[i]
  PROVE  Shape(c, t, n) /\ (l = Pieces[c] + 2 => Ended(c, t, n, m + 1))
<1>1. /\ Pieces[c] \in Nat \ {0} /\ Len(s) \in Nat /\ Len(t) \in Nat
      /\ m + 1 \in Nat \ {0}
  BY ServerAssumption, LenProperties
<1>2. \A i \in 1..Len(t) : i <= Len(s) \/ (i - Len(s) \in 1..l /\ t[i] = WholeWire(c, m + 1)[i - Len(s)])
  <2> SUFFICES ASSUME NEW i \in 1..Len(t), ~(i <= Len(s))
               PROVE  i - Len(s) \in 1..l /\ t[i] = WholeWire(c, m + 1)[i - Len(s)]
    OBVIOUS
  <2>1. i - Len(s) \in 1..l /\ Len(s) + (i - Len(s)) = i
    BY <1>1
  <2> QED BY <2>1
<1>3. s # <<>> => Len(s) > 0 /\ s[Len(s)] = EndMark(c, m)
  BY <1>1, EmptySeq DEF Ended
<1>4. s = <<>> => n = m + 1 /\ Len(s) = 0
  BY EmptySeq DEF Ended
<1>5. t # <<>> => Len(t) > 0
  BY <1>1, EmptySeq
<1>6. Starts(c, t, n)
  <2> SUFFICES ASSUME t # <<>>
               PROVE  t[1] = StartMark(c, n)
    BY DEF Starts
  <2>1. CASE s # <<>>
    BY <1>1, <1>3, <2>1 DEF Shape, Starts
  <2>2. CASE s = <<>>
    <3>1. 1 \in 1..l /\ Len(s) + 1 = 1
      BY <1>1, <1>4, <1>5, <2>2
    <3>2. t[1] = WholeWire(c, m + 1)[1]
      BY <3>1
    <3>3. 1 \in 1..(Pieces[c] + 2)
      BY <1>1
    <3> QED BY <1>1, <1>4, <2>2, <3>2, <3>3, Marks
  <2> QED BY <2>1, <2>2
<1>7. Runs(c, t)
  <2> SUFFICES ASSUME NEW i \in 1..Len(t), NEW k \in Nat \ {0}, t[i] = StartMark(c, k),
                      NEW d \in 0..(Pieces[c] + 1), i + d <= Len(t)
               PROVE  t[i + d] = WholeWire(c, k)[d + 1]
    BY DEF Runs
  <2>0. t[i] = StartMark(c, k)
    OBVIOUS
  <2>1. /\ d + 1 \in 1..(Pieces[c] + 2) /\ d \in Nat /\ i \in Nat /\ i + d \in 1..Len(t)
        /\ d <= Pieces[c] + 1
    BY <1>1, SMTT(30)
  <2>2. CASE i > Len(s)
    <3>1. i - Len(s) \in 1..l /\ t[i] = WholeWire(c, m + 1)[i - Len(s)]
      BY <1>1, <1>2, <2>2, SMTT(30)
    <3>2. i - Len(s) \in 1..(Pieces[c] + 2)
      BY <1>1, <3>1, SMTT(30)
    <3>3. i - Len(s) = 1 /\ k = m + 1
      <4>1. PICK j \in 1..(Pieces[c] + 2) : j = i - Len(s)
        BY <3>2
      <4>2. WholeWire(c, m + 1)[j] = StartMark(c, k)
        BY <2>0, <3>1, <4>1
      <4>3. j = 1 /\ k = m + 1
        BY <1>1, <4>2, Marks, SMTT(30)
      <4> QED BY <4>1, <4>3
    <3>4. ~(i + d <= Len(s)) /\ i + d - Len(s) = d + 1
      BY <1>1, <2>1, <3>3
    <3> QED BY <1>2, <2>1, <3>3, <3>4
  <2>3. CASE i <= Len(s)
    <3>1. i \in 1..Len(s) /\ s[i] = StartMark(c, k) /\ s # <<>>
      BY <1>1, <2>1, <2>3, EmptySeq, SMTT(30)
    <3>2. \A e \in 0..(Pieces[c] + 1) : i + e <= Len(s) => s[i + e] = WholeWire(c, k)[e + 1]
      BY <3>1 DEF Shape, Runs
    <3>3. CASE i + d <= Len(s)
      <4>1. i + d \in 1..Len(s)
        BY <1>1, <2>1, <3>3
      <4> QED BY <3>2, <3>3, <4>1
    <3>4. CASE ~(i + d <= Len(s))
      (* The end mark of the last message would be in the middle of one. *)
      <4>0. PICK e : e = Len(s) - i
        OBVIOUS
      <4>a. e \in Nat /\ i + e = Len(s) /\ i + e <= Len(s) /\ e < d
        BY <1>1, <2>1, <2>3, <3>4, <4>0
      <4>1. /\ e \in 0..(Pieces[c] + 1) /\ i + e = Len(s) /\ i + e <= Len(s)
            /\ e + 1 \in 1..(Pieces[c] + 2) /\ e + 1 # Pieces[c] + 2
        <5>1. PICK p \in Nat : p = Pieces[c]
          BY <1>1
        <5>2. e < p + 1
          BY ONLY <2>1, <4>a, <5>1, SMTT(30)
        <5>3. e \in 0..(p + 1) /\ e + 1 \in 1..(p + 2) /\ e + 1 # p + 2
          BY <4>a, <5>2
        <5> QED BY <4>a, <5>1, <5>3
      <4>2. EndMark(c, m) = WholeWire(c, k)[e + 1]
        BY <1>3, <3>1, <3>2, <4>1
      <4>3. e + 1 = Pieces[c] + 2
        BY <4>1, <4>2, Marks, SMTT(30)
      <4> QED BY <4>1, <4>3
    <3> QED BY <3>3, <3>4
  <2> QED BY <1>1, <2>2, <2>3
<1>8. Follows(c, t)
  <2> SUFFICES ASSUME NEW i \in 1..(Len(t) - 1), NEW k \in Nat \ {0}, t[i] = EndMark(c, k)
               PROVE  t[i + 1] = StartMark(c, k + 1)
    BY DEF Follows
  <2>1. i \in 1..Len(t) /\ i + 1 \in 1..Len(t)
    BY <1>1
  <2>2. CASE i < Len(s)
    <3>1. i \in 1..(Len(s) - 1) /\ i \in 1..Len(s) /\ i + 1 \in 1..Len(s)
      BY <1>1, <2>1, <2>2, SMTT(30)
    <3> QED BY <3>1 DEF Shape, Follows
  <2>3. CASE i = Len(s)
    <3>1. t[i] = EndMark(c, m) /\ k = m
      <4>1. i \in 1..Len(s) /\ s # <<>>
        BY <1>1, <1>4, <2>1, <2>3
      <4>2. t[i] = EndMark(c, m)
        BY <1>3, <2>3, <4>1
      <4> QED BY <4>2 DEF EndMark
    <3>2. 1 \in 1..l /\ 1 \in 1..(Pieces[c] + 2) /\ i + 1 = Len(s) + 1
      BY <1>1, <2>1, <2>3
    <3>3. t[i + 1] = WholeWire(c, m + 1)[1]
      BY <3>2
    <3> QED BY <1>1, <3>1, <3>2, <3>3, Marks
  <2>4. CASE i > Len(s)
    <3>1. /\ i - Len(s) \in 1..l /\ t[i] = WholeWire(c, m + 1)[i - Len(s)]
          /\ i + 1 - Len(s) \in 1..l
      BY <1>1, <1>2, <2>1, <2>4
    <3>2. PICK j : j = i - Len(s)
      OBVIOUS
    <3>3. j \in 1..l /\ j + 1 \in 1..l
      BY <1>1, <2>1, <3>1, <3>2
    <3>4. j \in 1..(Pieces[c] + 2) /\ j # Pieces[c] + 2
      <4>1. PICK u \in Nat : u = Pieces[c] + 2
        BY <1>1
      <4>2. j \in Nat /\ j > 0 /\ j + 1 <= l
        BY <1>1, <3>3
      <4>3. l \in 0..u
        BY <4>1
      <4>4. j \in 1..u /\ j # u
        BY ONLY u \in Nat, <4>2, <4>3
      <4> QED BY <4>1, <4>4
    <3>5. WholeWire(c, m + 1)[j] = EndMark(c, k)
      BY <3>1, <3>2
    <3> QED BY <1>1, <3>4, <3>5, Marks
  <2> QED BY <1>1, <2>1, <2>2, <2>3, <2>4
<1>9. ASSUME l = Pieces[c] + 2
      PROVE  Ended(c, t, n, m + 1)
  <2>1. l \in 1..l /\ Len(t) > 0 /\ Len(s) + l = Len(t) /\ l \in 1..(Pieces[c] + 2)
    BY <1>1, <1>9, SMTT(30)
  <2>2. t[Len(t)] = WholeWire(c, m + 1)[l]
    BY <2>1
  <2>3. t[Len(t)] = EndMark(c, m + 1)
    BY <1>1, <1>9, <2>1, <2>2, Marks
  <2>4. t # <<>>
    BY <2>1, EmptySeq
  <2> QED BY <2>3, <2>4 DEF Ended
<1> QED
  BY <1>6, <1>7, <1>8, <1>9 DEF Shape

(* After its first message has gone, the rest begins with the next one. *)
LEMMA ShapeErase ==
  ASSUME NEW c \in Clients, NEW s \in Seq(Unit), NEW n \in Nat \ {0}, NEW m \in Nat,
         Shape(c, s, n), Len(s) >= Pieces[c] + 2
  PROVE  /\ s[Pieces[c] + 2] = EndMark(c, n)
         /\ Shape(c, Erase(s, Pieces[c] + 2), n + 1)
         /\ Ended(c, s, n, m) => Ended(c, Erase(s, Pieces[c] + 2), n + 1, m)
<1> DEFINE t == Erase(s, Pieces[c] + 2)
<1>0. PICK p \in Nat \ {0} : p = Pieces[c]
  BY ServerAssumption
<1>1. Len(s) \in Nat /\ Len(s) >= p + 2 /\ p + 2 \in 0..Len(s) /\ s # <<>>
  BY <1>0, LenProperties, EmptySeq
<1>2. /\ t \in Seq(Unit) /\ Len(t) = Len(s) - (p + 2)
      /\ \A i \in 1..(Len(s) - (p + 2)) : t[i] = s[i + (p + 2)]
  BY <1>0, <1>1, EraseType
<1> HIDE DEF t
<1>3. s[p + 2] = EndMark(c, n)
  <2>1. /\ 1 \in 1..Len(s) /\ s[1] = StartMark(c, n) /\ p + 1 \in 0..(p + 1)
        /\ 1 + (p + 1) <= Len(s) /\ 1 + (p + 1) = p + 2 /\ (p + 1) + 1 = p + 2
    BY <1>1 DEF Shape, Starts
  <2>2. \A d \in 0..(p + 1) : 1 + d <= Len(s) => s[1 + d] = WholeWire(c, n)[d + 1]
    BY <1>0, <2>1 DEF Shape, Runs
  <2>3. s[p + 2] = WholeWire(c, n)[p + 2]
    <3>1. s[1 + (p + 1)] = WholeWire(c, n)[(p + 1) + 1]
      BY <2>1, <2>2
    <3> QED BY <2>1, <3>1
  <2>4. 1 \in 1..(p + 2)
    BY <1>0
  <2>5. WholeWire(c, n)[p + 2] = EndMark(c, n)
    BY <1>0, <2>4, Marks
  <2> QED BY <2>3, <2>5
<1>4. Starts(c, t, n + 1)
  <2> SUFFICES ASSUME t # <<>>
               PROVE  t[1] = StartMark(c, n + 1)
    BY DEF Starts
  <2>1. Len(t) \in Nat \ {0}
    BY <1>2, EmptySeq
  <2>2. /\ 1 \in 1..(Len(s) - (p + 2)) /\ p + 2 \in 1..(Len(s) - 1)
        /\ 1 + (p + 2) = (p + 2) + 1
    BY <1>1, <1>2, <2>1
  <2>3. s[(p + 2) + 1] = StartMark(c, n + 1)
    BY <1>3, <2>2 DEF Shape, Follows
  <2> QED BY <1>2, <2>2, <2>3
<1>5. Runs(c, t)
  <2> SUFFICES ASSUME NEW i \in 1..Len(t), NEW k \in Nat \ {0}, t[i] = StartMark(c, k),
                      NEW d \in 0..(p + 1), i + d <= Len(t)
               PROVE  t[i + d] = WholeWire(c, k)[d + 1]
    BY <1>0 DEF Runs
  <2>1. PICK j : j = i + (p + 2)
    OBVIOUS
  <2>2. /\ i \in 1..(Len(s) - (p + 2)) /\ i + d \in 1..(Len(s) - (p + 2))
        /\ j \in 1..Len(s) /\ j + d <= Len(s) /\ (i + d) + (p + 2) = j + d
    BY <1>1, <1>2, <2>1
  <2>3. s[j] = StartMark(c, k) /\ t[i + d] = s[j + d]
    BY <1>2, <2>1, <2>2
  <2> QED BY <1>0, <2>2, <2>3 DEF Shape, Runs
<1>6. Follows(c, t)
  <2> SUFFICES ASSUME NEW i \in 1..(Len(t) - 1), NEW k \in Nat \ {0}, t[i] = EndMark(c, k)
               PROVE  t[i + 1] = StartMark(c, k + 1)
    BY DEF Follows
  <2>1. PICK j : j = i + (p + 2)
    OBVIOUS
  <2>2. /\ i \in 1..(Len(s) - (p + 2)) /\ i + 1 \in 1..(Len(s) - (p + 2))
        /\ j \in 1..(Len(s) - 1) /\ (i + 1) + (p + 2) = j + 1
    BY <1>1, <1>2, <2>1
  <2>3. s[j] = EndMark(c, k) /\ t[i + 1] = s[j + 1]
    BY <1>2, <2>1, <2>2
  <2> QED BY <2>2, <2>3 DEF Shape, Follows
<1>7. ASSUME Ended(c, s, n, m)
      PROVE  Ended(c, t, n + 1, m)
  <2>1. s[Len(s)] = EndMark(c, m)
    BY <1>1, <1>7 DEF Ended
  <2>2. CASE t = <<>>
    <3>1. Len(s) = p + 2
      BY <1>1, <1>2, <2>2, EmptySeq
    <3>2. n = m
      BY <1>3, <2>1, <3>1 DEF EndMark
    <3> QED BY <2>2, <3>2 DEF Ended
  <2>3. CASE t # <<>>
    <3>1. Len(t) \in Nat \ {0}
      BY <1>2, <2>3, EmptySeq
    <3>2. Len(t) \in 1..(Len(s) - (p + 2)) /\ Len(t) + (p + 2) = Len(s)
      BY <1>1, <1>2, <3>1
    <3>3. t[Len(t)] = s[Len(s)]
      BY <1>2, <3>2
    <3> QED BY <2>1, <2>3, <3>3 DEF Ended
  <2> QED BY <2>2, <2>3
<1> QED
  BY <1>0, <1>3, <1>4, <1>5, <1>6, <1>7 DEF Shape, t

(* What Frame finds in a buffer that holds the start of such a stream: the *)
(* first message, or no end mark and less than one message.                *)
LEMMA FirstPacket ==
  ASSUME NEW c \in Clients, NEW s \in Seq(Unit), NEW b \in Seq(Unit), NEW n \in Nat \ {0},
         Shape(c, s, n), Len(b) <= Len(s), \A i \in 1..Len(b) : b[i] = s[i]
  PROVE  /\ StripMark(b) > 0 =>
              /\ Len(b) >= Pieces[c] + 2 /\ StripMark(b) = Pieces[c] + 2
              /\ StripData(b) = WholeBody(<<c, n>>)
         /\ ~(StripMark(b) > 0) => Len(b) <= Pieces[c] + 1
<1>0. PICK p \in Nat \ {0} : p = Pieces[c]
  BY ServerAssumption
<1>1. Len(b) \in Nat /\ Len(s) \in Nat
  BY LenProperties
<1>2. PICK f, e : f = Find(b, "<") /\ e = Find(b, ">")
  OBVIOUS
<1>3. /\ f \in 0..Len(b) /\ e \in 0..Len(b)
      /\ f = 0 => \A i \in 1..Len(b) : b[i][1] # "<"
      /\ f # 0 => \A i \in 1..(f - 1) : b[i][1] # "<"
      /\ e = 0 => \A i \in 1..Len(b) : b[i][1] # ">"
      /\ e # 0 => b[e][1] = ">" /\ \A i \in 1..(e - 1) : b[i][1] # ">"
  BY <1>2, FindType
<1>4. StripMark(b) = IF f = 0 THEN -1 ELSE e
  BY <1>2 DEF StripMark
<1>5. CASE b = <<>>
  <2>1. Len(b) = 0
    BY <1>5, EmptySeq
  <2>2. f = 0
    BY <1>3, <2>1
  <2> QED BY <1>0, <1>4, <2>1, <2>2
<1>6. CASE b # <<>>
  <2>1. Len(b) \in Nat \ {0} /\ s # <<>> /\ 1 \in 1..Len(b) /\ 1 \in 1..Len(s)
    BY <1>1, <1>6, EmptySeq
  <2>2. b[1] = StartMark(c, n) /\ s[1] = StartMark(c, n)
    BY <2>1 DEF Shape, Starts
  <2>3. \A d \in 0..(p + 1) : 1 + d <= Len(s) => s[1 + d] = WholeWire(c, n)[d + 1]
    BY <1>0, <2>1, <2>2 DEF Shape, Runs
  <2>4. ASSUME NEW i \in 1..Len(b), i <= p + 2
        PROVE  b[i] = WholeWire(c, n)[i]
    <3>1. i - 1 \in 0..(p + 1) /\ 1 + (i - 1) <= Len(s) /\ 1 + (i - 1) = i /\ (i - 1) + 1 = i
      BY <1>0, <1>1, <2>4
    <3>2. s[1 + (i - 1)] = WholeWire(c, n)[(i - 1) + 1]
      BY <2>3, <3>1
    <3> QED BY <3>1, <3>2
  <2>5. f = 1
    <3>1. b[1][1] = "<"
      BY <2>2 DEF StartMark
    <3>2. f # 0
      BY <1>3, <2>1, <3>1
    <3>3. ~(1 \in 1..(f - 1))
      BY <1>3, <3>1, <3>2
    <3> QED BY <1>1, <1>3, <3>2, <3>3
  <2>6. StripMark(b) = e /\ e \in Nat
    BY <1>3, <1>4, <2>5
  <2>7. Len(b) >= p + 2 => e = p + 2
    <3> SUFFICES ASSUME Len(b) >= p + 2
                 PROVE  e = p + 2
      OBVIOUS
    <3>1. p + 2 \in 1..Len(b) /\ p + 2 \in 1..(p + 2)
      BY <1>0, <1>1
    <3>2. b[p + 2][1] = ">"
      <4>1. b[p + 2] = WholeWire(c, n)[p + 2]
        BY <2>4, <3>1
      <4>2. WholeWire(c, n)[p + 2] = EndMark(c, n)
        BY <1>0, <3>1, Marks
      <4> QED BY <4>1, <4>2 DEF EndMark
    <3>3. e # 0 /\ ~(p + 2 \in 1..(e - 1))
      BY <1>3, <3>1, <3>2
    <3>4. e <= p + 2 /\ e \in 1..(p + 2) /\ e \in 1..Len(b)
      BY <1>0, <1>1, <1>3, <3>3
    <3>5. WholeWire(c, n)[e][1] = ">"
      BY <1>3, <2>4, <3>3, <3>4
    <3> QED BY <1>0, <3>4, <3>5, Marks
  <2>8. e > 0 => Len(b) >= p + 2
    <3> SUFFICES ASSUME e > 0, ~(Len(b) >= p + 2)
                 PROVE  FALSE
      OBVIOUS
    <3>1. e \in 1..Len(b) /\ e <= p + 2 /\ e \in 1..(p + 2) /\ e # p + 2
      BY <1>0, <1>1, <1>3
    <3>2. WholeWire(c, n)[e][1] = ">"
      BY <1>3, <2>4, <3>1
    <3> QED BY <1>0, <3>1, <3>2, Marks
  <2>9. ASSUME e > 0
        PROVE  StripData(b) = WholeBody(<<c, n>>)
    <3>1. Len(b) >= p + 2 /\ e = p + 2
      BY <2>7, <2>8, <2>9
    <3>2. StripData(b) = SubSeq(b, 2, p + 1)
      <4>1. Find(b, "<") < Find(b, ">") /\ Find(b, "<") + 1 = 2 /\ Find(b, ">") - 1 = p + 1
        BY <1>0, <1>2, <2>5, <3>1
      <4>2. StripData(b) = SubSeq(b, Find(b, "<") + 1, Find(b, ">") - 1)
        BY <4>1 DEF StripData
      <4> QED BY <4>1, <4>2
    <3>3. <<c, n>> \in Msgs /\ WholeBody(<<c, n>>) = Body(<<c, n>>, p)
      BY <1>0 DEF Msgs, WholeBody
    <3>4. /\ WholeBody(<<c, n>>) \in Seq(Unit) /\ Len(WholeBody(<<c, n>>)) = p
          /\ \A i \in 1..p : WholeBody(<<c, n>>)[i] = <<IF i = 1 THEN "," ELSE ".", <<c, n>>, i>>
      <4>1. PICK m \in Msgs : m = <<c, n>>
        BY <3>3
      <4>2. /\ Body(m, p) \in Seq(Units(Msgs)) /\ Len(Body(m, p)) = p
            /\ \A i \in 1..p : Body(m, p)[i] = <<IF i = 1 THEN "," ELSE ".", m, i>>
        BY BodyType
      <4> QED BY <3>3, <4>1, <4>2, UnitIsUnits
    <3>5. /\ SubSeq(b, 2, p + 1) \in Seq(Unit) /\ Len(SubSeq(b, 2, p + 1)) = p
          /\ \A i \in 1..p : SubSeq(b, 2, p + 1)[i] = b[i + 1]
      <4>1. \A i \in 2..(p + 1) : b[i] \in Unit
        BY <1>1, <3>1, ElementOfSeq
      <4>2. /\ SubSeq(b, 2, p + 1) \in Seq(Unit)
            /\ Len(SubSeq(b, 2, p + 1)) = IF 2 <= p + 1 THEN (p + 1) - 2 + 1 ELSE 0
            /\ \A i \in 1..((p + 1) - 2 + 1) : SubSeq(b, 2, p + 1)[i] = b[2 + i - 1]
        BY <4>1, SubSeqProperties
      <4>3. (p + 1) - 2 + 1 = p /\ 2 <= p + 1 /\ \A i \in 1..p : 2 + i - 1 = i + 1
        BY <1>0
      <4> QED BY <4>2, <4>3
    <3>6. \A i \in 1..p : SubSeq(b, 2, p + 1)[i] = WholeBody(<<c, n>>)[i]
      <4> TAKE i \in 1..p
      <4>1. i + 1 \in 1..Len(b) /\ i + 1 <= p + 2 /\ i + 1 \in 2..(p + 1)
            /\ (i + 1) - 1 = i /\ (i + 1 = 2 <=> i = 1)
        BY <1>1, <3>1
      <4>2. b[i + 1] = WholeWire(c, n)[i + 1]
        BY <2>4, <4>1
      <4>3. WholeWire(c, n)[i + 1] = <<IF i + 1 = 2 THEN "," ELSE ".", <<c, n>>, (i + 1) - 1>>
        BY <1>0, <4>1, WholeWireType
      <4> QED BY <3>4, <3>5, <4>1, <4>2, <4>3
    <3>7. SubSeq(b, 2, p + 1) = WholeBody(<<c, n>>)
      BY <3>4, <3>5, <3>6, SeqEqual
    <3> QED BY <3>2, <3>7
  <2> QED
    <3>1. Len(b) >= p + 2 \/ Len(b) <= p + 1
      BY <1>0, <1>1
    <3> QED BY <1>0, <2>6, <2>7, <2>8, <2>9, <3>1
<1> QED
  BY <1>5, <1>6

-----------------------------------------------------------------------------
(* Units of client c, of messages up to m where an end mark is there. *)
FromClient(c, s, m) ==
  \A i \in 1..Len(s) : s[i][2][1] = c /\ (s[i][1] = ">" => s[i][2][2] <= m)

LEMMA FromParts ==
  ASSUME NEW c, NEW m \in Nat, NEW k \in Nat, NEW s \in Seq(Unit), NEW t \in Seq(Unit),
         FromClient(c, s, m)
  PROVE  /\ FromClient(c, <<>>, m)
         /\ m <= k => FromClient(c, s, k)
         /\ FromClient(c, t, m) => FromClient(c, s \o t, m)
         /\ \A i \in 0..Len(s) : FromClient(c, Erase(s, i), m) /\ FromClient(c, SubSeq(s, 1, i), m)
         /\ FromClient(c, Overflow(s), m)
<1>0. Len(s) \in Nat /\ Len(t) \in Nat
  BY LenProperties
<1>1. FromClient(c, <<>>, m)
  BY EmptySeq DEF FromClient
<1>2. ASSUME m <= k
      PROVE  FromClient(c, s, k)
  <2>1. \A i \in 1..Len(s) : s[i][2][2] \in Nat
    <3> TAKE i \in 1..Len(s)
    <3>1. s[i] \in Unit
      BY ElementOfSeq
    <3> QED BY <3>1 DEF Unit, Msgs
  <2> QED BY <1>2, <2>1 DEF FromClient
<1>3. ASSUME FromClient(c, t, m)
      PROVE  FromClient(c, s \o t, m)
  <2>1. /\ Len(s \o t) = Len(s) + Len(t)
        /\ \A i \in 1..(Len(s) + Len(t)) : (s \o t)[i] = IF i <= Len(s) THEN s[i] ELSE t[i - Len(s)]
    BY ConcatProperties
  <2> SUFFICES ASSUME NEW i, i \in 1..(Len(s) + Len(t))
               PROVE  (s \o t)[i][2][1] = c /\ ((s \o t)[i][1] = ">" => (s \o t)[i][2][2] <= m)
    BY <2>1 DEF FromClient
  <2>2. CASE i <= Len(s)
    <3>1. i \in 1..Len(s) /\ (s \o t)[i] = s[i]
      BY <1>0, <2>1, <2>2
    <3> QED BY <3>1 DEF FromClient
  <2>3. CASE ~(i <= Len(s))
    <3>1. i - Len(s) \in 1..Len(t) /\ (s \o t)[i] = t[i - Len(s)]
      BY <1>0, <2>1, <2>3
    <3> QED BY <1>3, <3>1 DEF FromClient
  <2> QED BY <2>2, <2>3
<1>4. ASSUME NEW n \in 0..Len(s)
      PROVE  FromClient(c, Erase(s, n), m) /\ FromClient(c, SubSeq(s, 1, n), m)
  <2>1. /\ Len(Erase(s, n)) = Len(s) - n
        /\ \A i \in 1..(Len(s) - n) : Erase(s, n)[i] = s[i + n]
    BY EraseType
  <2>2. Len(SubSeq(s, 1, n)) = n /\ \A i \in 1..n : SubSeq(s, 1, n)[i] = s[i]
    BY PrefixType
  <2>3. /\ \A i \in 1..(Len(s) - n) : i + n \in 1..Len(s)
        /\ \A i \in 1..n : i \in 1..Len(s)
    BY <1>0
  <2>4. FromClient(c, Erase(s, n), m)
    <3> SUFFICES ASSUME NEW i, i \in 1..(Len(s) - n)
                 PROVE  /\ Erase(s, n)[i][2][1] = c
                        /\ Erase(s, n)[i][1] = ">" => Erase(s, n)[i][2][2] <= m
      BY <2>1 DEF FromClient
    <3>1. PICK j \in 1..Len(s) : Erase(s, n)[i] = s[j]
      BY <2>1, <2>3
    <3> QED BY <3>1 DEF FromClient
  <2>5. FromClient(c, SubSeq(s, 1, n), m)
    BY <2>2, <2>3 DEF FromClient
  <2> QED BY <2>4, <2>5
<1>5. FromClient(c, Overflow(s), m)
  <2>1. Find(s, ">") \in 0..Len(s)
    BY FindType
  <2> QED BY <1>1, <1>4, <2>1 DEF Overflow
<1> QED
  BY <1>1, <1>2, <1>3, <1>4, <1>5

LEMMA FromWire ==
  ASSUME NEW c \in Clients, NEW n \in Nat \ {0}
  PROVE  /\ FromClient(c, WholeWire(c, n), n)
         /\ \A k \in 0..(Pieces[c] + 1), m \in Nat : FromClient(c, SubSeq(WholeWire(c, n), 1, k), m)
<1>0. PICK p \in Nat \ {0} : p = Pieces[c]
  BY ServerAssumption
<1>1. WholeWire(c, n) \in Seq(Unit) /\ Len(WholeWire(c, n)) = p + 2
  BY <1>0, WholeWireType
<1>2. \A i \in 1..(p + 2) : /\ WholeWire(c, n)[i][2] = <<c, n>>
                            /\ WholeWire(c, n)[i][1] = ">" => i = p + 2
  BY <1>0, Marks
<1>3. FromClient(c, WholeWire(c, n), n)
  BY <1>1, <1>2 DEF FromClient
<1>4. ASSUME NEW k \in 0..(p + 1), NEW m \in Nat
      PROVE  FromClient(c, SubSeq(WholeWire(c, n), 1, k), m)
  <2>1. k \in 0..Len(WholeWire(c, n))
    BY <1>1
  <2>2. /\ Len(SubSeq(WholeWire(c, n), 1, k)) = k
        /\ \A i \in 1..k : SubSeq(WholeWire(c, n), 1, k)[i] = WholeWire(c, n)[i]
    BY <1>1, <2>1, PrefixType
  <2>3. \A i \in 1..k : i \in 1..(p + 2) /\ i # p + 2
    BY <1>0
  <2> QED BY <1>2, <2>2, <2>3 DEF FromClient
<1> QED
  BY <1>0, <1>3, <1>4

(* What the server holds of a connection comes from its client, and so     *)
(* does what the kernel holds: Accept empties the buffer.                  *)
OriginInv ==
  /\ \A c \in Clients : FromClient(c, stream[c], sent[c])
  /\ conn # 0 => FromClient(conn, strBuf, sent[conn])
  /\ checkPc = "frame" => conn # 0

LEMMA OriginInit == Init => OriginInv
BY EmptySeq DEF Init, OriginInv, FromClient

LEMMA OriginStep ==
  ASSUME TypeInv, OriginInv, [Next]_vars
  PROVE  OriginInv'
<1>0. /\ stream \in [Clients -> Seq(Unit)] /\ sent \in [Clients -> Nat]
      /\ conn \in Clients \cup {0} /\ strBuf \in Seq(Unit) /\ 0 \notin Clients
  BY ServerAssumption DEF TypeInv, ControlType, DataType
<1>1. ASSUME NEW c \in Clients, ClientSend(c)
      PROVE  OriginInv'
  <2>1. PICK n \in Nat \ {0} : n = sent[c] + 1 /\ sent[c] \in Nat /\ sent[c] <= n
    BY <1>0
  <2>2. PICK w \in Seq(Unit) : w = WholeWire(c, n)
    BY WholeWireType
  <2>3. /\ stream' = [stream EXCEPT ![c] = @ \o w] /\ sent' = [sent EXCEPT ![c] = n]
        /\ UNCHANGED <<checkPc, conn, strBuf>>
    BY <1>1, <2>1, <2>2 DEF ClientSend, threadvars, sockvars, bufvars
  <2>4. FromClient(c, w, n)
    BY <2>2, FromWire
  <2>5. FromClient(c, stream[c], n)
    BY <1>0, <2>1, FromParts DEF OriginInv
  <2>6. FromClient(c, stream[c] \o w, n)
    BY <1>0, <2>4, <2>5, FromParts
  <2>7. \A d \in Clients : FromClient(d, stream'[d], sent'[d])
    BY <1>0, <2>3, <2>6 DEF OriginInv
  <2>8. conn = c => FromClient(c, strBuf, n)
    BY <1>0, <2>1, FromParts DEF OriginInv
  <2>9. conn # 0 => FromClient(conn, strBuf, sent'[conn])
    BY <1>0, <2>3, <2>8 DEF OriginInv
  <2> QED BY <2>3, <2>7, <2>9 DEF OriginInv
<1>2. ASSUME NEW c \in Clients, ClientClose(c)
      PROVE  OriginInv'
  <2>1. PICK n \in Nat \ {0} : n = sent[c] + 1
    BY <1>0
  <2>2. PICK k \in 0..(Pieces[c] + 1) :
          stream' = [stream EXCEPT ![c] = @ \o SubSeq(WholeWire(c, n), 1, k)]
    BY <1>2, <2>1 DEF ClientClose
  <2>3. UNCHANGED <<checkPc, conn, strBuf, sent>>
    BY <1>2 DEF ClientClose, threadvars, sockvars, bufvars
  <2>4. PICK w : w = SubSeq(WholeWire(c, n), 1, k)
    OBVIOUS
  <2>5. w \in Seq(Unit)
    <3>1. k \in 0..(Pieces[c] + 2)
      BY ServerAssumption
    <3> QED BY <2>4, <3>1, WholeWireType, PrefixType
  <2>6. FromClient(c, w, sent[c])
    BY <1>0, <2>4, FromWire
  <2>7. FromClient(c, stream[c] \o w, sent[c])
    BY <1>0, <2>5, <2>6, FromParts DEF OriginInv
  <2>8. \A d \in Clients : FromClient(d, stream'[d], sent'[d])
    BY <1>0, <2>2, <2>3, <2>4, <2>7 DEF OriginInv
  <2> QED BY <2>3, <2>8 DEF OriginInv
<1>3. CASE Accept \/ AcceptFails \/ AcceptAgain \/ StartThread
  <2>1. /\ strBuf' = <<>> /\ checkPc' # "frame" /\ UNCHANGED <<stream, sent>>
    BY <1>3 DEF Accept, AcceptFails, AcceptAgain, StartThread, Created, Polling, threadvars,
           netvars
  <2>2. \A d, m : FromClient(d, <<>>, m)
    BY EmptySeq DEF FromClient
  <2> QED BY <2>1, <2>2 DEF OriginInv
<1>4. CASE Recv
  <2>1. conn \in Clients /\ stream[conn] \in Seq(Unit) /\ sent[conn] \in Nat
    BY <1>0, <1>4 DEF Recv, Receiving
  <2>2. PICK k \in 1..Len(stream[conn]) :
          /\ strBuf' = strBuf \o SubSeq(stream[conn], 1, k)
          /\ stream' = [stream EXCEPT ![conn] = Erase(@, k)]
    BY <1>4 DEF Recv
  <2>3. UNCHANGED <<conn, sent>>
    BY <1>4 DEF Recv, sockvars
  <2>4. k \in 0..Len(stream[conn])
    BY <2>1, LenProperties
  <2>5. /\ FromClient(conn, SubSeq(stream[conn], 1, k), sent[conn])
        /\ FromClient(conn, Erase(stream[conn], k), sent[conn])
    BY <2>1, <2>4, FromParts DEF OriginInv
  <2>6. SubSeq(stream[conn], 1, k) \in Seq(Unit)
    BY <2>1, <2>4, PrefixType
  <2>7. FromClient(conn, strBuf', sent[conn])
    BY <1>0, <2>1, <2>2, <2>5, <2>6, FromParts DEF OriginInv
  <2>8. \A d \in Clients : FromClient(d, stream'[d], sent'[d])
    BY <1>0, <2>1, <2>2, <2>3, <2>5 DEF OriginInv
  <2> QED BY <1>0, <2>1, <2>3, <2>7, <2>8 DEF OriginInv
<1>5. CASE Frame \/ FrameEnd
  <2>1. UNCHANGED <<conn, stream, sent>>
    BY <1>5 DEF Frame, FrameEnd, sockvars, netvars
  <2>2. conn # 0 /\ conn \in Clients /\ sent[conn] \in Nat
    BY <1>0, <1>5 DEF Frame, FrameEnd, OriginInv
  <2>3. CASE Frame
    <3>1. StripMark(strBuf) \in 1..Len(strBuf) /\ strBuf' = Erase(strBuf, StripMark(strBuf))
      BY <1>0, <2>3, StripType DEF Frame
    <3>2. StripMark(strBuf) \in 0..Len(strBuf)
      BY <1>0, <3>1, LenProperties
    <3>3. FromClient(conn, strBuf', sent[conn])
      BY <1>0, <2>2, <3>1, <3>2, FromParts DEF OriginInv
    <3> QED BY <2>1, <2>2, <3>3 DEF OriginInv
  <2>4. CASE FrameEnd
    <3>1. strBuf' = strBuf \/ strBuf' = Overflow(strBuf)
      BY <2>4 DEF FrameEnd
    <3>2. FromClient(conn, strBuf', sent[conn])
      BY <1>0, <2>2, <3>1, FromParts DEF OriginInv
    <3> QED BY <2>1, <2>2, <3>2 DEF OriginInv
  <2> QED BY <1>5, <2>3, <2>4
<1>6. CASE RecvEnd \/ CheckExit
  BY <1>6 DEF RecvEnd, CheckExit, Polling, Receiving, OriginInv, threadvars, netvars
<1>7. CASE \/ Listen \/ ListenFails \/ RecvAgain \/ ProcStep \/ ClearFlags \/ StopStep
           \/ UNCHANGED vars \/ \E c \in Clients : Connect(c) \/ ClientReset(c)
  <2>1. /\ UNCHANGED <<conn, strBuf, stream, sent>>
        /\ checkPc' = "frame" => checkPc = "frame"
    BY <1>7 DEF Listen, ListenFails, RecvAgain, ProcStep, ProcStart, ProcMsg, ProcGarbage, ProcExit,
         ClearFlags, StopStep, JoinProc, JoinCheck, JoinDies, Connect, ClientReset, vars,
         threadvars,
         sockvars, bufvars, netvars
  <2> QED BY <2>1 DEF OriginInv
<1> QED
  BY <1>1, <1>2, <1>3, <1>4, <1>5, <1>6, <1>7 DEF Next, CheckStep

(* Every connection is made once and is in one place: a client that has    *)
(* not connected has sent nothing, and who waits is not connected.         *)
BacklogInv ==
  /\ \A i, j \in 1..Len(backlog) : i # j => backlog[i] # backlog[j]
  /\ \A i \in 1..Len(backlog) : backlog[i] # conn /\ link[backlog[i]] # "new"
  /\ conn # 0 => link[conn] # "new"
  /\ \A c \in Clients : link[c] = "new" => stream[c] = <<>> /\ sent[c] = 0

LEMMA BacklogInit == Init => BacklogInv
BY EmptySeq DEF Init, BacklogInv

LEMMA BacklogStep ==
  ASSUME TypeInv, BacklogInv, [Next]_vars
  PROVE  BacklogInv'
<1>0. /\ backlog \in Seq(Clients) /\ conn \in Clients \cup {0} /\ 0 \notin Clients
      /\ link \in [Clients -> {"new", "open", "fin", "rst"}]
      /\ stream \in [Clients -> Seq(Unit)] /\ sent \in [Clients -> Nat]
      /\ Len(backlog) \in Nat /\ \A i \in 1..Len(backlog) : backlog[i] \in Clients
  BY ServerAssumption, LenProperties, ElementOfSeq DEF TypeInv, ControlType, DataType
<1>1. ASSUME backlog # <<>>
      PROVE  /\ Head(backlog) = backlog[1] /\ 1 \in 1..Len(backlog)
             /\ Len(Tail(backlog)) = Len(backlog) - 1 /\ Len(Tail(backlog)) \in Nat
             /\ \A i \in 1..Len(Tail(backlog)) :
                  Tail(backlog)[i] = backlog[i + 1] /\ i + 1 \in 1..Len(backlog) /\ i + 1 # 1
  <2>1. Len(backlog) \in Nat \ {0} /\ Head(backlog) = backlog[1]
    BY <1>0, <1>1, EmptySeq
  <2>2. /\ Len(Tail(backlog)) = Len(backlog) - 1
        /\ \A i \in 1..Len(Tail(backlog)) : Tail(backlog)[i] = backlog[i + 1]
    BY <1>0, <1>1, HeadTailProperties
  <2> QED BY <2>1, <2>2
<1>2. ASSUME backlog # <<>>, backlog' = Tail(backlog), UNCHANGED netvars,
             conn' = conn \/ conn' = Head(backlog)
      PROVE  BacklogInv'
  <2>1. UNCHANGED <<link, stream, sent>>
    BY <1>2 DEF netvars
  <2>2. \A i, j \in 1..Len(backlog') : i # j => backlog'[i] # backlog'[j]
    <3> SUFFICES ASSUME NEW i \in 1..Len(Tail(backlog)), NEW j \in 1..Len(Tail(backlog)), i # j
                 PROVE  Tail(backlog)[i] # Tail(backlog)[j]
      BY <1>2
    <3>1. i + 1 # j + 1 /\ i + 1 \in 1..Len(backlog) /\ j + 1 \in 1..Len(backlog)
      BY <1>1, <1>2
    <3>2. Tail(backlog)[i] = backlog[i + 1] /\ Tail(backlog)[j] = backlog[j + 1]
      BY <1>1, <1>2
    <3> QED BY <3>1, <3>2 DEF BacklogInv
  <2>3. \A i \in 1..Len(backlog') : backlog'[i] # conn' /\ link'[backlog'[i]] # "new"
    <3> SUFFICES ASSUME NEW i \in 1..Len(Tail(backlog))
                 PROVE  Tail(backlog)[i] # conn' /\ link[Tail(backlog)[i]] # "new"
      BY <1>2, <2>1
    <3>1. PICK j \in 1..Len(backlog) : j # 1 /\ Tail(backlog)[i] = backlog[j]
      BY <1>1, <1>2
    <3>2. backlog[j] # backlog[1] /\ backlog[j] # conn /\ link[backlog[j]] # "new"
      BY <1>1, <1>2, <3>1 DEF BacklogInv
    <3> QED BY <1>1, <1>2, <3>1, <3>2
  <2>4. conn' # 0 => link'[conn'] # "new"
    BY <1>1, <1>2, <2>1 DEF BacklogInv
  <2> QED BY <2>1, <2>2, <2>3, <2>4 DEF BacklogInv
<1>3. ASSUME NEW c \in Clients, Connect(c)
      PROVE  BacklogInv'
  <2>1. /\ link[c] = "new" /\ link' = [link EXCEPT ![c] = "open"]
        /\ backlog' = Append(backlog, c) /\ UNCHANGED <<conn, stream, sent>>
    BY <1>3 DEF Connect, sockvars
  <2>2. /\ Len(backlog') = Len(backlog) + 1
        /\ \A i \in 1..Len(backlog) : backlog'[i] = backlog[i]
        /\ backlog'[Len(backlog) + 1] = c
    BY <1>0, <2>1, AppendProperties
  <2>3. \A i \in 1..Len(backlog) : backlog[i] # c
    BY <2>1 DEF BacklogInv
  <2>4. conn # c
    BY <1>0, <2>1 DEF BacklogInv
  <2>5. \A i : i \in 1..(Len(backlog) + 1) => i \in 1..Len(backlog) \/ i = Len(backlog) + 1
    BY <1>0
  <2>6. \A i, j : i \in 1..Len(backlog') /\ j \in 1..Len(backlog') /\ i # j
                    => backlog'[i] # backlog'[j]
    <3> SUFFICES ASSUME NEW i, NEW j, i \in 1..(Len(backlog) + 1), j \in 1..(Len(backlog) + 1),
                        i # j
                 PROVE  backlog'[i] # backlog'[j]
      BY <2>2
    <3> QED BY <2>2, <2>3, <2>5 DEF BacklogInv
  <2>7. \A i : i \in 1..Len(backlog') => backlog'[i] # conn' /\ link'[backlog'[i]] # "new"
    <3> SUFFICES ASSUME NEW i, i \in 1..(Len(backlog) + 1)
                 PROVE  backlog'[i] # conn' /\ link'[backlog'[i]] # "new"
      BY <2>2
    <3>1. CASE i \in 1..Len(backlog)
      BY <1>0, <2>1, <2>2, <2>3, <3>1 DEF BacklogInv
    <3>2. CASE i = Len(backlog) + 1
      BY <1>0, <2>1, <2>2, <2>4, <3>2
    <3> QED BY <2>5, <3>1, <3>2
  <2>8. conn' # 0 => link'[conn'] # "new"
    BY <1>0, <2>1, <2>4 DEF BacklogInv
  <2>9. \A d \in Clients : link'[d] = "new" => stream'[d] = <<>> /\ sent'[d] = 0
    BY <1>0, <2>1 DEF BacklogInv
  <2> QED BY <2>6, <2>7, <2>8, <2>9 DEF BacklogInv
<1>4. ASSUME NEW c \in Clients, ClientSend(c) \/ ClientClose(c) \/ ClientReset(c)
      PROVE  BacklogInv'
  <2>1. /\ link[c] = "open" /\ UNCHANGED <<conn, backlog>>
        /\ \A d \in Clients : /\ d # c => link'[d] = link[d] /\ stream'[d] = stream[d] /\ sent'[d] = sent[d]
                              /\ link'[d] = "new" <=> link[d] = "new"
    BY <1>0, <1>4 DEF ClientSend, ClientClose, ClientReset, sockvars
  <2> QED BY <1>0, <2>1 DEF BacklogInv
<1>5. CASE Accept \/ AcceptFails
  <2>1. backlog # <<>> /\ UNCHANGED netvars
    BY <1>5 DEF Accept, AcceptFails
  <2>2. CASE Accept
    BY <1>2, <2>1, <2>2 DEF Accept
  <2>3. CASE AcceptFails /\ backlog' = Tail(backlog)
    BY <1>2, <2>1, <2>3 DEF AcceptFails
  <2>4. CASE AcceptFails /\ backlog' = backlog
    BY <2>1, <2>4 DEF AcceptFails, BacklogInv, netvars
  <2> QED BY <1>5, <2>2, <2>3, <2>4 DEF AcceptFails
<1>6. CASE Recv
  <2>1. /\ UNCHANGED <<conn, backlog, link, sent>> /\ conn \in Clients
        /\ \A d \in Clients : d # conn => stream'[d] = stream[d]
    BY <1>0, <1>6 DEF Recv, Receiving, sockvars
  <2> QED BY <1>0, <2>1 DEF BacklogInv
<1>7. CASE CheckExit \/ RecvEnd
  <2>1. /\ conn' = 0 /\ (backlog' = backlog \/ backlog' = <<>>) /\ UNCHANGED netvars
    BY <1>7 DEF CheckExit, RecvEnd
  <2> QED BY <1>0, <2>1, EmptySeq DEF BacklogInv, netvars
<1>8. CASE \/ Listen \/ ListenFails \/ AcceptAgain \/ RecvAgain \/ Frame \/ FrameEnd
           \/ ProcStep \/ StartThread \/ ClearFlags \/ StopStep \/ UNCHANGED vars
  <2>1. UNCHANGED <<conn, backlog, link, stream, sent>>
    BY <1>8 DEF Listen, ListenFails, AcceptAgain, RecvAgain, Frame, FrameEnd, ProcStep, ProcStart,
         ProcMsg, ProcGarbage, ProcExit, StartThread, ClearFlags, StopStep, JoinProc, JoinCheck,
            JoinDies, vars, sockvars, netvars
  <2> QED BY <2>1 DEF BacklogInv
<1> QED
  BY <1>3, <1>4, <1>5, <1>6, <1>7, <1>8 DEF Next, CheckStep

-----------------------------------------------------------------------------
(* The packets ps that were framed hold the messages of client c before n. *)
PassedIn(ps, c, n) ==
  /\ \A i \in 1..Len(ps) : From(c, ps[i]) => \E k \in 1..(n - 1) : ps[i] = WholeBody(<<c, k>>)
  /\ n > 1 => \E i \in 1..Len(ps) : ps[i] = WholeBody(<<c, n - 1>>)

(* InOrder for one client that has sent m messages. *)
OrderIn(ps, c, m) ==
  \A i \in {j \in DOMAIN ps : From(c, ps[j])} :
    \E n \in 1..m :
      /\ ps[i] = WholeBody(<<c, n>>)
      /\ \A j \in 1..(i - 1) : ps[j] # WholeBody(<<c, n>>)
      /\ n > 1 => \E j \in 1..(i - 1) : ps[j] = WholeBody(<<c, n - 1>>)

LEMMA BodyFrom ==
  ASSUME NEW c \in Clients, NEW n \in Nat \ {0}
  PROVE  /\ WholeBody(<<c, n>>) \in Seq(Unit)
         /\ From(c, WholeBody(<<c, n>>))
         /\ \A d : From(d, WholeBody(<<c, n>>)) => d = c
         /\ \A k \in Nat \ {0} : WholeBody(<<c, k>>) = WholeBody(<<c, n>>) => k = n
         /\ Splits(WholeBody(<<c, n>>))
<1>0. PICK p \in Nat \ {0} : p = Pieces[c]
  BY ServerAssumption
<1>1. ASSUME NEW k \in Nat \ {0}
      PROVE  /\ WholeBody(<<c, k>>) \in Seq(Unit) /\ DOMAIN WholeBody(<<c, k>>) = 1..p
             /\ \A i \in 1..p : WholeBody(<<c, k>>)[i] = <<IF i = 1 THEN "," ELSE ".", <<c, k>>, i>>
  <2>1. PICK m \in Msgs : m = <<c, k>>
    BY DEF Msgs
  <2>2. /\ Body(m, p) \in Seq(Units(Msgs)) /\ Len(Body(m, p)) = p
        /\ \A i \in 1..p : Body(m, p)[i] = <<IF i = 1 THEN "," ELSE ".", m, i>>
    BY BodyType
  <2>3. WholeBody(<<c, k>>) = Body(m, p)
    BY <1>0, <2>1 DEF WholeBody
  <2> QED BY <2>1, <2>2, <2>3, UnitIsUnits, LenProperties
<1>w. PICK w : w = WholeBody(<<c, n>>)
  OBVIOUS
<1>t. w \in Seq(Unit)
  BY <1>1, <1>w
<1>2. /\ DOMAIN w = 1..p
      /\ \A i \in 1..p : w[i] = <<IF i = 1 THEN "," ELSE ".", <<c, n>>, i>>
  BY <1>1, <1>w
<1>3. 1 \in 1..p /\ w[1] = <<",", <<c, n>>, 1>> /\ w[1][1] = ","
  <2>1. 1 \in 1..p
    BY <1>0
  <2>2. w[1] = <<IF 1 = 1 THEN "," ELSE ".", <<c, n>>, 1>>
    BY <1>2, <2>1, Zenon
  <2>3. w[1] = <<",", <<c, n>>, 1>>
    BY <2>2
  <2>4. PICK u : u = w[1]
    OBVIOUS
  <2>5. u = <<",", <<c, n>>, 1>>
    BY <2>3, <2>4
  <2>6. u[1] = ","
    BY <2>5
  <2> QED BY <2>1, <2>3, <2>4, <2>6
<1>4. From(c, w) /\ \A d : From(d, w) => d = c
  <2>1. \A i \in 1..p : w[i][2] = <<c, n>>
    <3> TAKE i \in 1..p
    <3>1. w[i] = <<IF i = 1 THEN "," ELSE ".", <<c, n>>, i>>
      BY <1>2, Zenon
    <3>2. PICK u : u = w[i]
      OBVIOUS
    <3>3. u = <<IF i = 1 THEN "," ELSE ".", <<c, n>>, i>>
      BY <3>1, <3>2
    <3>4. u[2] = <<c, n>>
      BY <3>3
    <3> QED BY <3>2, <3>4
  <2>2. <<c, n>>[1] = c
    OBVIOUS
  <2>3. \A i \in DOMAIN w : w[i][2][1] = c
    BY <1>2, <2>1, <2>2
  <2> QED BY <1>2, <1>3, <2>3 DEF From
<1>5. ASSUME NEW k \in Nat \ {0}, WholeBody(<<c, k>>) = w
      PROVE  k = n
  <2>1. w[1] = <<",", <<c, k>>, 1>>
    BY <1>1, <1>3, <1>5
  <2>2. <<",", <<c, k>>, 1>> = <<",", <<c, n>>, 1>>
    BY <1>3, <2>1
  <2> QED BY <2>2
<1>6. Splits(w)
  <2>1. 1 \in 1..Len(w)
    BY <1>2, <1>3, <1>t, LenProperties
  <2>2. Find(w, ",") = 0 => \A i \in 1..Len(w) : w[i][1] # ","
    BY <1>t, FindType
  <2>3. Find(w, ",") # 0
    BY <1>3, <2>1, <2>2
  <2> QED BY <2>3 DEF Splits
<1> QED
  BY <1>w, <1>t, <1>4, <1>5, <1>6

(* A packet that comes from another client changes nothing for this one,   *)
LEMMA OtherPacket ==
  ASSUME NEW c \in Clients, NEW n \in Nat \ {0}, NEW m \in Nat,
         NEW ps \in Seq(Seq(Unit)), NEW p \in Seq(Unit), ~From(c, p)
  PROVE  /\ PassedIn(ps, c, n) => PassedIn(Append(ps, p), c, n)
         /\ OrderIn(ps, c, m) => OrderIn(Append(ps, p), c, m)
<1>1. PICK qs \in Seq(Seq(Unit)) : qs = Append(ps, p)
  BY AppendProperties
<1>2. /\ Len(ps) \in Nat /\ Len(qs) = Len(ps) + 1 /\ qs[Len(ps) + 1] = p
      /\ \A i \in 1..Len(ps) : qs[i] = ps[i]
  BY <1>1, AppendProperties, LenProperties
<1>3. /\ \A i : i \in 1..Len(qs) => i \in 1..Len(ps) \/ i = Len(ps) + 1
      /\ \A i : i \in 1..Len(ps) => i \in 1..Len(qs)
  BY <1>2
<1>4. ASSUME PassedIn(ps, c, n)
      PROVE  PassedIn(qs, c, n)
  <2>1. \A i \in 1..Len(qs) : From(c, qs[i]) => i \in 1..Len(ps)
    BY <1>2, <1>3
  <2> QED BY <1>2, <1>3, <1>4, <2>1 DEF PassedIn
<1>5. ASSUME OrderIn(ps, c, m)
      PROVE  OrderIn(qs, c, m)
  <2>1. DOMAIN qs = 1..Len(qs) /\ DOMAIN ps = 1..Len(ps)
    BY LenProperties
  <2> SUFFICES ASSUME NEW i, i \in 1..Len(qs), From(c, qs[i])
               PROVE  \E k \in 1..m :
                        /\ qs[i] = WholeBody(<<c, k>>)
                        /\ \A j \in 1..(i - 1) : qs[j] # WholeBody(<<c, k>>)
                        /\ k > 1 => \E j \in 1..(i - 1) : qs[j] = WholeBody(<<c, k - 1>>)
    BY <2>1 DEF OrderIn
  <2>2. i \in 1..Len(ps) /\ From(c, ps[i])
    BY <1>2, <1>3
  <2>3. PICK k \in 1..m :
          /\ ps[i] = WholeBody(<<c, k>>)
          /\ \A j \in 1..(i - 1) : ps[j] # WholeBody(<<c, k>>)
          /\ k > 1 => \E j \in 1..(i - 1) : ps[j] = WholeBody(<<c, k - 1>>)
    BY <1>5, <2>1, <2>2 DEF OrderIn
  <2>4. \A j \in 1..(i - 1) : qs[j] = ps[j]
    <3>1. \A j \in 1..(i - 1) : j \in 1..Len(ps)
      BY <1>2, <2>2
    <3> QED BY <1>2, <3>1
  <2> QED BY <1>2, <2>2, <2>3, <2>4
<1> QED
  BY <1>1, <1>4, <1>5

(* and its next message is the next of its packets. *)
LEMMA NextPacket ==
  ASSUME NEW c \in Clients, NEW n \in Nat \ {0}, NEW m \in Nat, n <= m,
         NEW ps \in Seq(Seq(Unit)), PassedIn(ps, c, n)
  PROVE  /\ PassedIn(Append(ps, WholeBody(<<c, n>>)), c, n + 1)
         /\ OrderIn(ps, c, m) => OrderIn(Append(ps, WholeBody(<<c, n>>)), c, m)
<1>0. PICK p \in Seq(Unit) : p = WholeBody(<<c, n>>)
  BY BodyFrom
<1>1. PICK qs \in Seq(Seq(Unit)) : qs = Append(ps, p)
  BY AppendProperties
<1>2. /\ Len(ps) \in Nat /\ Len(qs) = Len(ps) + 1 /\ qs[Len(ps) + 1] = p
      /\ \A i \in 1..Len(ps) : qs[i] = ps[i]
  BY <1>1, AppendProperties, LenProperties
<1>3. /\ \A i : i \in 1..Len(qs) => i \in 1..Len(ps) \/ i = Len(ps) + 1
      /\ \A i : i \in 1..Len(ps) => i \in 1..Len(qs)
      /\ Len(ps) + 1 \in 1..Len(qs)
  BY <1>2
<1>4. PassedIn(qs, c, n + 1)
  <2>1. \A i \in 1..Len(qs) : From(c, qs[i]) => \E k \in 1..n : qs[i] = WholeBody(<<c, k>>)
    <3> SUFFICES ASSUME NEW i \in 1..Len(qs), From(c, qs[i])
                 PROVE  \E k \in 1..n : qs[i] = WholeBody(<<c, k>>)
      OBVIOUS
    <3>1. CASE i \in 1..Len(ps)
      <4>1. PICK k \in 1..(n - 1) : ps[i] = WholeBody(<<c, k>>)
        BY <1>2, <3>1 DEF PassedIn
      <4>2. k \in 1..n
        OBVIOUS
      <4> QED BY <1>2, <3>1, <4>1, <4>2
    <3>2. CASE i = Len(ps) + 1
      <4>1. n \in 1..n
        OBVIOUS
      <4> QED BY <1>0, <1>2, <3>2, <4>1
    <3> QED BY <1>3, <3>1, <3>2
  <2>2. \E i \in 1..Len(qs) : qs[i] = WholeBody(<<c, n>>)
    BY <1>0, <1>2, <1>3
  <2>3. (n + 1) - 1 = n
    OBVIOUS
  <2> QED BY <2>1, <2>2, <2>3 DEF PassedIn
<1>5. ASSUME OrderIn(ps, c, m)
      PROVE  OrderIn(qs, c, m)
  <2>1. DOMAIN qs = 1..Len(qs) /\ DOMAIN ps = 1..Len(ps)
    BY LenProperties
  <2> SUFFICES ASSUME NEW i, i \in 1..Len(qs), From(c, qs[i])
               PROVE  \E k \in 1..m :
                        /\ qs[i] = WholeBody(<<c, k>>)
                        /\ \A j \in 1..(i - 1) : qs[j] # WholeBody(<<c, k>>)
                        /\ k > 1 => \E j \in 1..(i - 1) : qs[j] = WholeBody(<<c, k - 1>>)
    BY <2>1 DEF OrderIn
  <2>2. CASE i \in 1..Len(ps)
    <3>1. From(c, ps[i])
      BY <1>2, <2>2
    <3>2. PICK k \in 1..m :
            /\ ps[i] = WholeBody(<<c, k>>)
            /\ \A j \in 1..(i - 1) : ps[j] # WholeBody(<<c, k>>)
            /\ k > 1 => \E j \in 1..(i - 1) : ps[j] = WholeBody(<<c, k - 1>>)
      BY <1>5, <2>1, <2>2, <3>1 DEF OrderIn
    <3>3. \A j \in 1..(i - 1) : qs[j] = ps[j]
      <4>1. \A j \in 1..(i - 1) : j \in 1..Len(ps)
        BY <1>2, <2>2
      <4> QED BY <1>2, <4>1
    <3> QED BY <1>2, <2>2, <3>2, <3>3
  <2>3. CASE i = Len(ps) + 1
    <3>1. /\ \A j : j \in 1..(i - 1) <=> j \in 1..Len(ps)
          /\ n \in 1..m
      BY <1>2, <2>3
    <3>2. \A j \in 1..(i - 1) : qs[j] # WholeBody(<<c, n>>)
      <4> SUFFICES ASSUME NEW j \in 1..(i - 1), qs[j] = WholeBody(<<c, n>>)
                   PROVE  FALSE
        OBVIOUS
      <4>1. j \in 1..Len(ps) /\ ps[j] = WholeBody(<<c, n>>) /\ From(c, ps[j])
        BY <1>2, <3>1, BodyFrom, ZenonT(60)
      <4>2. PICK k \in 1..(n - 1) : ps[j] = WholeBody(<<c, k>>)
        BY <4>1 DEF PassedIn
      <4>3. k \in Nat \ {0} /\ k # n
        OBVIOUS
      <4> QED BY <4>1, <4>2, <4>3, BodyFrom
    <3>3. n > 1 => \E j \in 1..(i - 1) : qs[j] = WholeBody(<<c, n - 1>>)
      BY <1>2, <3>1 DEF PassedIn
    <3>4. qs[i] = WholeBody(<<c, n>>)
      BY <1>0, <1>2, <2>3
    <3> QED BY <3>1, <3>2, <3>3, <3>4
  <2> QED BY <1>3, <2>2, <2>3
<1> QED
  BY <1>0, <1>1, <1>4, <1>5

(* The order does not depend on the last packets. *)
LEMMA FirstPackets ==
  ASSUME NEW c, NEW ps \in Seq(Seq(Unit)), NEW qs \in Seq(Seq(Unit)),
         Len(qs) <= Len(ps), \A i \in 1..Len(qs) : qs[i] = ps[i],
         PassedIn(ps, c, 1)
  PROVE  PassedIn(qs, c, 1)
<1>1. Len(ps) \in Nat /\ Len(qs) \in Nat
  BY LenProperties
<1> QED
  BY <1>1 DEF PassedIn

LEMMA FirstInOrder ==
  ASSUME NEW c, NEW m \in Nat, NEW k \in Nat, m <= k,
         NEW ps \in Seq(Seq(Unit)), NEW qs \in Seq(Seq(Unit)),
         Len(qs) <= Len(ps), \A i \in 1..Len(qs) : qs[i] = ps[i],
         OrderIn(ps, c, m)
  PROVE  OrderIn(qs, c, k)
<1>1. /\ Len(ps) \in Nat /\ Len(qs) \in Nat /\ DOMAIN qs = 1..Len(qs) /\ DOMAIN ps = 1..Len(ps)
      /\ \A i \in 1..Len(qs) : i \in 1..Len(ps) /\ \A j \in 1..(i - 1) : j \in 1..Len(qs)
      /\ \A i \in 1..m : i \in 1..k
  BY LenProperties
<1> SUFFICES ASSUME NEW i, i \in 1..Len(qs), From(c, qs[i])
             PROVE  \E n \in 1..k :
                      /\ qs[i] = WholeBody(<<c, n>>)
                      /\ \A j \in 1..(i - 1) : qs[j] # WholeBody(<<c, n>>)
                      /\ n > 1 => \E j \in 1..(i - 1) : qs[j] = WholeBody(<<c, n - 1>>)
  BY <1>1 DEF OrderIn
<1>2. i \in 1..Len(ps) /\ From(c, ps[i])
  BY <1>1
<1>3. PICK n \in 1..m :
        /\ ps[i] = WholeBody(<<c, n>>)
        /\ \A j \in 1..(i - 1) : ps[j] # WholeBody(<<c, n>>)
        /\ n > 1 => \E j \in 1..(i - 1) : ps[j] = WholeBody(<<c, n - 1>>)
  BY <1>1, <1>2 DEF OrderIn
<1>4. \A j \in 1..(i - 1) : qs[j] = ps[j]
  BY <1>1
<1> QED
  BY <1>1, <1>2, <1>3, <1>4

-----------------------------------------------------------------------------
Good(c, s, n) == Shape(c, s, n) /\ (link[c] = "open" => Ended(c, s, n, sent[c]))

(* The check thread goes on with the connection. *)
Heeded == backlog = <<>> \/ checkPc = "frame"

(* Whose packets come next: of a client that has not connected or waits    *)
(* none was framed; the connected one goes on, in the buffer and then in   *)
(* the kernel, with the message after its last packet.                     *)
StreamInv ==
  \A c \in {d \in Clients : Fits(d)} :
    /\ link[c] = "new" => PassedIn(Packets, c, 1)
    /\ \A i \in 1..Len(backlog) :
         backlog[i] = c => Good(c, stream[c], 1) /\ PassedIn(Packets, c, 1)
    /\ conn = c /\ Heeded =>
         \E n \in Nat \ {0} : Good(c, strBuf \o stream[c], n) /\ PassedIn(Packets, c, n)

IInv == OriginInv /\ BacklogInv /\ StreamInv

(* What Frame appends. *)
LEMMA FramePacket ==
  ASSUME TypeInv, IInv, Frame, Fits(conn)
  PROVE  \E n \in 1..sent[conn] :
           /\ StripData(strBuf) = WholeBody(<<conn, n>>)
           /\ PassedIn(Packets, conn, n)
           /\ Good(conn, strBuf' \o stream'[conn], n + 1)
<1>0. /\ conn \in Clients /\ strBuf \in Seq(Unit) /\ stream[conn] \in Seq(Unit)
      /\ sent[conn] \in Nat /\ StripMark(strBuf) > 0 /\ Heeded
      /\ strBuf' = Erase(strBuf, StripMark(strBuf)) /\ UNCHANGED <<stream, link, sent>>
  BY DEF TypeInv, ControlType, DataType, IInv, OriginInv, Frame, netvars, Heeded
<1>1. PICK p \in Nat \ {0} : p = Pieces[conn]
  BY <1>0, ServerAssumption
<1>2. PICK n \in Nat \ {0} : Good(conn, strBuf \o stream[conn], n) /\ PassedIn(Packets, conn, n)
  BY <1>0 DEF IInv, StreamInv
<1>3. PICK s \in Seq(Unit) : s = strBuf \o stream[conn]
  BY <1>0, ConcatProperties
<1>4. /\ Len(strBuf) \in Nat /\ Len(s) = Len(strBuf) + Len(stream[conn])
      /\ Len(stream[conn]) \in Nat
      /\ \A i \in 1..Len(strBuf) : s[i] = strBuf[i]
  <2>1. /\ Len(strBuf) \in Nat /\ Len(stream[conn]) \in Nat
    BY <1>0, LenProperties
  <2>2. /\ Len(s) = Len(strBuf) + Len(stream[conn])
        /\ \A i \in 1..(Len(strBuf) + Len(stream[conn])) :
             s[i] = IF i <= Len(strBuf) THEN strBuf[i] ELSE stream[conn][i - Len(strBuf)]
    BY <1>0, <1>3, ConcatProperties
  <2> QED BY <2>1, <2>2
<1>5. Shape(conn, s, n) /\ Len(strBuf) <= Len(s)
  BY <1>2, <1>3, <1>4 DEF Good
<1>6. /\ Len(strBuf) >= p + 2 /\ StripMark(strBuf) = p + 2
      /\ StripData(strBuf) = WholeBody(<<conn, n>>)
  BY <1>0, <1>1, <1>4, <1>5, FirstPacket
<1>7. /\ s[p + 2] = EndMark(conn, n) /\ Shape(conn, Erase(s, p + 2), n + 1)
      /\ Ended(conn, s, n, sent[conn]) => Ended(conn, Erase(s, p + 2), n + 1, sent[conn])
  <2>1. Len(s) >= p + 2
    BY <1>4, <1>6
  <2> QED BY <1>0, <1>1, <1>5, <2>1, ShapeErase
<1>8. strBuf' \o stream'[conn] = Erase(s, p + 2)
  <2>1. p + 2 \in 0..Len(strBuf)
    BY <1>4, <1>6
  <2> QED BY <1>0, <1>3, <1>6, <2>1, EraseFront, ZenonT(60)
<1>9. Good(conn, strBuf' \o stream'[conn], n + 1)
  BY <1>2, <1>3, <1>7, <1>8 DEF Good
<1>10. n \in 1..sent[conn]
  <2>1. p + 2 \in 1..Len(strBuf) /\ strBuf[p + 2] = EndMark(conn, n)
    BY <1>4, <1>6, <1>7
  <2>2. strBuf[p + 2][1] = ">" => strBuf[p + 2][2][2] <= sent[conn]
    BY <1>0, <2>1, ServerAssumption DEF IInv, OriginInv, FromClient
  <2>3. EndMark(conn, n)[1] = ">" /\ EndMark(conn, n)[2][2] = n
    BY DEF EndMark
  <2>4. n <= sent[conn]
    BY <2>1, <2>2, <2>3
  <2> QED BY <1>0, <2>4
<1> QED
  BY <1>2, <1>6, <1>9, <1>10

(* The packets of a connection are from its client. *)
LEMMA FrameOrigin ==
  ASSUME TypeInv, OriginInv, Frame, NEW c, c # conn
  PROVE  ~From(c, StripData(strBuf))
<1>1. /\ strBuf \in Seq(Unit) /\ StripMark(strBuf) > 0 /\ FromClient(conn, strBuf, sent[conn])
  BY DEF TypeInv, DataType, OriginInv, Frame
<1>2. PICK p \in Seq(Unit) : p = StripData(strBuf)
  BY <1>1, StripType
<1>3. \A i \in 1..Len(p) : \E j \in 1..Len(strBuf) : p[i] = strBuf[j]
  BY <1>1, <1>2, StripFrom
<1>4. DOMAIN p = 1..Len(p)
  BY LenProperties
<1>5. \A i \in DOMAIN p : p[i][2][1] # c
  BY <1>1, <1>3, <1>4 DEF FromClient
<1> QED
  BY <1>2, <1>5 DEF From

LEMMA PacketsType ==
  ASSUME TypeInv
  PROVE  Packets \in Seq(Seq(Unit)) /\ handled \in Seq(Seq(Unit)) /\ qRecv \in Seq(Seq(Unit))
BY ConcatProperties DEF TypeInv, DataType, Packets

LEMMA PacketsNext ==
  ASSUME TypeInv'
  PROVE  Packets' \in Seq(Seq(Unit))
BY ConcatProperties DEF TypeInv, DataType, Packets

(* What a step does to the packets. *)
LEMMA PacketsStep ==
  ASSUME TypeInv, TypeInv', [Next]_vars
  PROVE  /\ Frame => Packets' = Append(Packets, StripData(strBuf))
         /\ StartThread \/ JoinCheck =>
              /\ Len(Packets') <= Len(Packets)
              /\ \A i \in 1..Len(Packets') : Packets'[i] = Packets[i]
         /\ Frame \/ StartThread \/ JoinCheck \/ Packets' = Packets
<1>0. handled \in Seq(Seq(Unit)) /\ qRecv \in Seq(Seq(Unit))
  BY PacketsType
<1>1. ASSUME Frame
      PROVE  Packets' = Append(Packets, StripData(strBuf))
  <2>1. StripData(strBuf) \in Seq(Unit)
    BY <1>1, StripType DEF Frame, TypeInv, DataType
  <2>2. qRecv' = Append(qRecv, StripData(strBuf)) /\ handled' = handled
    BY <1>1 DEF Frame
  <2> QED BY <1>0, <2>1, <2>2, AppendRight DEF Packets
<1>2. ASSUME StartThread \/ JoinCheck
      PROVE  /\ Len(Packets') <= Len(Packets)
             /\ \A i \in 1..Len(Packets') : Packets'[i] = Packets[i]
  <2>1. qRecv' = <<>> /\ handled' = handled
    BY <1>2 DEF StartThread, Created, JoinCheck
  <2>2. Packets' = handled
    BY <1>0, <2>1, ConcatEmptySeq DEF Packets
  <2>3. /\ Len(Packets) = Len(handled) + Len(qRecv) /\ Len(handled) \in Nat /\ Len(qRecv) \in Nat
        /\ \A i \in 1..(Len(handled) + Len(qRecv)) :
             Packets[i] = IF i <= Len(handled) THEN handled[i] ELSE qRecv[i - Len(handled)]
    BY <1>0, ConcatProperties, LenProperties DEF Packets
  <2> QED BY <2>2, <2>3
<1>3. CASE ProcMsg
  <2>1. qRecv # <<>> /\ qRecv' = Tail(qRecv) /\ handled' = Append(handled, Head(qRecv))
    BY <1>3 DEF ProcMsg
  <2>2. Packets' = Packets
    BY <1>0, <2>1, MoveHead DEF Packets
  <2> QED BY <1>1, <1>2, <2>2
<1>4. CASE Frame \/ StartThread \/ JoinCheck
  BY <1>1, <1>2, <1>4
<1>5. CASE \/ \E c \in Clients : ClientMove(c)
           \/ Listen \/ ListenFails \/ Accept \/ AcceptFails \/ AcceptAgain \/ Recv \/ RecvAgain
           \/ RecvEnd \/ FrameEnd \/ CheckExit \/ ProcStart \/ ProcGarbage \/ ProcExit
           \/ ClearFlags \/ JoinProc \/ JoinDies \/ UNCHANGED vars
  <2>1. UNCHANGED <<qRecv, handled>>
    BY <1>5 DEF ClientMove, Connect, ClientSend, ClientClose, ClientReset, Listen, ListenFails,
         Accept, AcceptFails, AcceptAgain, Recv, RecvAgain, RecvEnd, FrameEnd, CheckExit, ProcStart,
         ProcGarbage, ProcExit, ClearFlags, JoinProc, JoinDies, vars
  <2>2. Packets' = Packets
    BY <2>1 DEF Packets
  <2> QED BY <1>1, <1>2, <2>2
<1> QED
  BY <1>3, <1>4, <1>5 DEF Next, ClientMove, CheckStep, ProcStep, StopStep

(* A client goes on with the next message, whole or in part. *)
LEMMA GoodSend ==
  ASSUME TypeInv, NEW c \in Clients, NEW d \in Clients, ClientMove(d),
         NEW b \in Seq(Unit), NEW n \in Nat \ {0}, Good(c, b \o stream[c], n),
         link[c] # "new"
  PROVE  /\ Shape(c, b \o stream'[c], n)
         /\ link'[c] = "open" => Ended(c, b \o stream'[c], n, sent'[c])
<1>0. /\ stream \in [Clients -> Seq(Unit)] /\ sent \in [Clients -> Nat]
      /\ link \in [Clients -> {"new", "open", "fin", "rst"}]
  BY DEF TypeInv, DataType
<1>1. CASE d # c \/ Connect(d) \/ ClientReset(d)
  <2>1. stream'[c] = stream[c] /\ sent'[c] = sent[c] /\ (link'[c] = "open" => link[c] = "open")
    BY <1>0, <1>1 DEF ClientMove, Connect, ClientSend, ClientClose, ClientReset
  <2> QED BY <2>1 DEF Good
<1>2. CASE d = c /\ (ClientSend(d) \/ ClientClose(d))
  <2>1. PICK p \in Nat \ {0}, m \in Nat : p = Pieces[c] /\ m = sent[c] /\ m + 1 \in Nat \ {0}
    BY <1>0, ServerAssumption
  <2>2. link[c] = "open"
    BY <1>2 DEF ClientSend, ClientClose
  <2>3. PICK w \in Seq(Unit) : w = WholeWire(c, m + 1) /\ Len(w) = p + 2
    BY <2>1, WholeWireType
  <2>4. PICK l \in 0..(p + 2) :
          /\ stream'[c] = stream[c] \o SubSeq(w, 1, l)
          /\ link'[c] = "open" => l = p + 2 /\ sent'[c] = m + 1
    <3>1. CASE ClientSend(d)
      <4>1. stream'[c] = stream[c] \o w /\ sent'[c] = m + 1
        BY <1>0, <1>2, <2>1, <2>3, <3>1 DEF ClientSend
      <4>2. SubSeq(w, 1, p + 2) = w /\ p + 2 \in 0..(p + 2)
        BY <2>3, SubSeqFull
      <4> QED BY <4>1, <4>2
    <3>2. CASE ClientClose(d)
      <4>1. PICK k \in 0..(p + 1) :
              stream' = [stream EXCEPT ![c] = @ \o SubSeq(w, 1, k)]
        BY <1>2, <2>1, <2>3, <3>2 DEF ClientClose
      <4>2. stream'[c] = stream[c] \o SubSeq(w, 1, k) /\ link'[c] # "open"
        BY <1>0, <1>2, <3>2, <4>1 DEF ClientClose
      <4>3. k \in 0..(p + 2)
        OBVIOUS
      <4> QED BY <4>2, <4>3
    <3> QED BY <1>2, <3>1, <3>2
  <2>5. PICK u \in Seq(Unit) :
          u = SubSeq(w, 1, l) /\ Len(u) = l /\ \A i \in 1..l : u[i] = w[i]
    <3>1. l \in 0..Len(w)
      BY <2>3
    <3>2. /\ SubSeq(w, 1, l) \in Seq(Unit) /\ Len(SubSeq(w, 1, l)) = l
          /\ \A i \in 1..l : SubSeq(w, 1, l)[i] = w[i]
      BY <3>1, PrefixType
    <3> QED BY <3>2
  <2>6. PICK s \in Seq(Unit) : s = b \o stream[c]
    BY <1>0, ConcatProperties
  <2>7. PICK t \in Seq(Unit) : t = s \o u
    BY ConcatProperties
  <2>8. b \o stream'[c] = t
    <3>1. PICK r \in Seq(Unit) : r = stream[c]
      BY <1>0
    <3>2. (b \o r) \o u = b \o (r \o u)
      <4>1. b \in Seq(Unit) /\ r \in Seq(Unit) /\ u \in Seq(Unit)
        OBVIOUS
      <4> QED BY ONLY <4>1, ConcatAssociative, SMTT(30)
    <3> QED BY <2>4, <2>5, <2>6, <2>7, <3>1, <3>2, Zenon
  <2>9. /\ Len(t) = Len(s) + l
        /\ \A i \in 1..Len(s) : t[i] = s[i]
        /\ \A i \in 1..l : t[Len(s) + i] = u[i]
    <3>1. /\ Len(s) \in Nat /\ Len(t) = Len(s) + l
          /\ \A i \in 1..(Len(s) + l) : t[i] = IF i <= Len(s) THEN s[i] ELSE u[i - Len(s)]
      BY <2>5, <2>7, ConcatProperties, LenProperties, SMTT(30)
    <3>2. \A i \in 1..Len(s) : t[i] = s[i]
      BY <3>1
    <3>3. ASSUME NEW i \in 1..l
          PROVE  t[Len(s) + i] = u[i]
      <4>1. Len(s) + i \in 1..(Len(s) + l) /\ ~(Len(s) + i <= Len(s)) /\ Len(s) + i - Len(s) = i
        BY <3>1
      <4> QED BY <3>1, <4>1
    <3> QED BY <3>1, <3>2, <3>3
  <2>10. \A i \in 1..l : t[Len(s) + i] = WholeWire(c, m + 1)[i]
    BY <2>3, <2>5, <2>9
  <2>11. Shape(c, s, n) /\ Ended(c, s, n, m)
    BY <2>1, <2>2, <2>6 DEF Good
  <2>12. Shape(c, t, n) /\ (l = p + 2 => Ended(c, t, n, m + 1))
    <3>1. l \in 0..(Pieces[c] + 2)
      BY <2>1
    <3>2. Shape(c, t, n) /\ (l = Pieces[c] + 2 => Ended(c, t, n, m + 1))
      BY <2>9, <2>10, <2>11, <3>1, ShapeSend
    <3> QED BY <2>1, <3>2
  <2> QED BY <2>4, <2>8, <2>12 DEF Good
<1> QED
  BY <1>1, <1>2 DEF ClientMove

(* StreamInv of the next state, in the terms of the lemmas. *)
LEMMA StreamNext ==
  ASSUME \A c \in {d \in Clients : Fits(d)} :
           /\ link'[c] = "new" => PassedIn(Packets', c, 1)
           /\ \A i \in 1..Len(backlog') : backlog'[i] = c =>
                /\ Shape(c, stream'[c], 1)
                /\ link'[c] = "open" => Ended(c, stream'[c], 1, sent'[c])
                /\ PassedIn(Packets', c, 1)
           /\ conn' = c /\ Heeded' => \E n \in Nat \ {0} :
                /\ Shape(c, strBuf' \o stream'[c], n)
                /\ link'[c] = "open" => Ended(c, strBuf' \o stream'[c], n, sent'[c])
                /\ PassedIn(Packets', c, n)
  PROVE  StreamInv'
<1>1. ASSUME NEW c, NEW n
      PROVE  /\ PassedIn(Packets, c, n)' <=> PassedIn(Packets', c, n)
             /\ Shape(c, stream[c], n)' <=> Shape(c, stream'[c], n)
             /\ Shape(c, strBuf \o stream[c], n)' <=> Shape(c, strBuf' \o stream'[c], n)
             /\ Ended(c, stream[c], n, sent[c])' <=> Ended(c, stream'[c], n, sent'[c])
             /\ Ended(c, strBuf \o stream[c], n, sent[c])'
                  <=> Ended(c, strBuf' \o stream'[c], n, sent'[c])
  <2>1. PassedIn(Packets, c, n)' <=> PassedIn(Packets', c, n)
    BY DEF PassedIn, From, WholeBody, Body
  <2>2. Shape(c, stream[c], n)' <=> Shape(c, stream'[c], n)
    BY DEF Shape, Starts, Runs, Follows, StartMark, EndMark, WholeWire, Wire, Body
  <2>3. Shape(c, strBuf \o stream[c], n)' <=> Shape(c, strBuf' \o stream'[c], n)
    BY DEF Shape, Starts, Runs, Follows, StartMark, EndMark, WholeWire, Wire, Body
  <2>4. Ended(c, stream[c], n, sent[c])' <=> Ended(c, stream'[c], n, sent'[c])
    BY DEF Ended, EndMark
  <2>5. Ended(c, strBuf \o stream[c], n, sent[c])'
          <=> Ended(c, strBuf' \o stream'[c], n, sent'[c])
    BY DEF Ended, EndMark
  <2> QED BY <2>1, <2>2, <2>3, <2>4, <2>5
<1>2. \A c : Fits(c)' <=> Fits(c)
  BY DEF Fits
<1> QED
  BY <1>1, <1>2 DEF StreamInv, Good

LEMMA StreamInit == Init => StreamInv
<1> SUFFICES ASSUME Init
             PROVE  StreamInv
  OBVIOUS
<1>1. Packets = <<>> /\ Len(Packets) = 0
  BY ConcatEmptySeq, EmptySeq DEF Init, Packets
<1>2. \A c : PassedIn(Packets, c, 1)
  BY <1>1 DEF PassedIn
<1>3. Len(backlog) = 0 /\ \A c \in Clients : conn # c
  BY ServerAssumption, EmptySeq DEF Init
<1> QED
  BY <1>2, <1>3 DEF StreamInv

LEMMA StreamStep ==
  ASSUME TypeInv, TypeInv', IInv, [Next]_vars
  PROVE  StreamInv'
<1>0. /\ stream \in [Clients -> Seq(Unit)] /\ sent \in [Clients -> Nat] /\ strBuf \in Seq(Unit)
      /\ link \in [Clients -> {"new", "open", "fin", "rst"}] /\ 0 \notin Clients
      /\ backlog \in Seq(Clients) /\ Len(backlog) \in Nat /\ BacklogInv /\ OriginInv
  BY ServerAssumption, LenProperties DEF TypeInv, DataType, IInv
<1>t. Packets \in Seq(Seq(Unit)) /\ Packets' \in Seq(Seq(Unit))
  BY PacketsType, PacketsNext
<1> SUFFICES ASSUME NEW c \in Clients, Fits(c)
             PROVE  /\ link'[c] = "new" => PassedIn(Packets', c, 1)
                    /\ \A i \in 1..Len(backlog') : backlog'[i] = c =>
                         /\ Shape(c, stream'[c], 1)
                         /\ link'[c] = "open" => Ended(c, stream'[c], 1, sent'[c])
                         /\ PassedIn(Packets', c, 1)
                    /\ conn' = c /\ Heeded' => \E n \in Nat \ {0} :
                         /\ Shape(c, strBuf' \o stream'[c], n)
                         /\ link'[c] = "open" => Ended(c, strBuf' \o stream'[c], n, sent'[c])
                         /\ PassedIn(Packets', c, n)
  BY StreamNext
<1>i. /\ link[c] = "new" => PassedIn(Packets, c, 1)
      /\ \A i \in 1..Len(backlog) : backlog[i] = c =>
           /\ Shape(c, stream[c], 1)
           /\ link[c] = "open" => Ended(c, stream[c], 1, sent[c])
           /\ PassedIn(Packets, c, 1)
      /\ conn = c /\ Heeded => \E n \in Nat \ {0} :
           /\ Shape(c, strBuf \o stream[c], n)
           /\ link[c] = "open" => Ended(c, strBuf \o stream[c], n, sent[c])
           /\ PassedIn(Packets, c, n)
  BY DEF IInv, StreamInv, Good
<1>e. <<>> \o stream[c] = stream[c] /\ <<>> \in Seq(Unit)
  BY <1>0, ConcatEmptySeq, EmptySeq
<1>1. ASSUME NEW d \in Clients, ClientMove(d)
      PROVE  /\ link'[c] = "new" => PassedIn(Packets', c, 1)
             /\ \A i \in 1..Len(backlog') : backlog'[i] = c =>
                  /\ Shape(c, stream'[c], 1)
                  /\ link'[c] = "open" => Ended(c, stream'[c], 1, sent'[c])
                  /\ PassedIn(Packets', c, 1)
             /\ conn' = c /\ Heeded' => \E n \in Nat \ {0} :
                  /\ Shape(c, strBuf' \o stream'[c], n)
                  /\ link'[c] = "open" => Ended(c, strBuf' \o stream'[c], n, sent'[c])
                  /\ PassedIn(Packets', c, n)
  <2>1. /\ UNCHANGED <<conn, strBuf, checkPc, qRecv, handled>> /\ Packets' = Packets
        /\ link'[c] = "new" => link[c] = "new"
        /\ \/ Connect(d) /\ link[d] = "new" /\ backlog' = Append(backlog, d)
           \/ backlog' = backlog
    BY <1>0, <1>1 DEF ClientMove, Connect, ClientSend, ClientClose, ClientReset, Packets,
         threadvars, sockvars, bufvars
  <2>2. ASSUME NEW b \in Seq(Unit), NEW n \in Nat \ {0}, Shape(c, b \o stream[c], n),
               link[c] = "open" => Ended(c, b \o stream[c], n, sent[c]), link[c] # "new"
        PROVE  /\ Shape(c, b \o stream'[c], n)
               /\ link'[c] = "open" => Ended(c, b \o stream'[c], n, sent'[c])
    BY <1>1, <2>2, GoodSend DEF Good
  <2>3. stream'[c] \in Seq(Unit) /\ <<>> \o stream'[c] = stream'[c]
    <3>1. stream'[c] \in Seq(Unit)
      BY DEF TypeInv, DataType
    <3> QED BY <3>1, ConcatEmptySeq
  <2>4. ASSUME NEW i \in 1..Len(backlog), backlog[i] = c
        PROVE  /\ Shape(c, stream'[c], 1)
               /\ link'[c] = "open" => Ended(c, stream'[c], 1, sent'[c])
    <3>1. /\ Shape(c, <<>> \o stream[c], 1) /\ link[c] # "new"
          /\ link[c] = "open" => Ended(c, <<>> \o stream[c], 1, sent[c])
      BY <1>0, <1>e, <1>i, <2>4 DEF BacklogInv
    <3>2. /\ Shape(c, <<>> \o stream'[c], 1)
          /\ link'[c] = "open" => Ended(c, <<>> \o stream'[c], 1, sent'[c])
      <4>b. PICK b \in Seq(Unit) : b = <<>>
        BY <1>e
      <4>n. PICK n \in Nat \ {0} : n = 1
        OBVIOUS
      <4>1. b = <<>> /\ n = 1
        BY <4>b, <4>n
      <4>2. Shape(c, b \o stream[c], n) /\ (link[c] = "open" => Ended(c, b \o stream[c], n, sent[c]))
        BY <3>1, <4>1
      <4> QED BY <2>2, <3>1, <4>1, <4>2
    <3> QED BY <2>3, <3>2
  <2>5. \A i \in 1..Len(backlog') : backlog'[i] = c =>
          /\ Shape(c, stream'[c], 1)
          /\ link'[c] = "open" => Ended(c, stream'[c], 1, sent'[c])
          /\ PassedIn(Packets', c, 1)
    <3>1. CASE backlog' = backlog
      BY <1>i, <2>1, <2>4, <3>1
    <3>2. CASE Connect(d) /\ link[d] = "new" /\ backlog' = Append(backlog, d)
      <4>1. /\ Len(backlog') = Len(backlog) + 1 /\ backlog'[Len(backlog) + 1] = d
            /\ \A i \in 1..Len(backlog) : backlog'[i] = backlog[i]
            /\ \A i : i \in 1..(Len(backlog) + 1) => i \in 1..Len(backlog) \/ i = Len(backlog) + 1
        BY <1>0, <3>2, AppendProperties
      <4>2. ASSUME c = d
            PROVE  /\ Shape(c, stream'[c], 1)
                   /\ link'[c] = "open" => Ended(c, stream'[c], 1, sent'[c])
                   /\ PassedIn(Packets', c, 1)
        <5>1. stream'[c] = <<>> /\ sent'[c] = 0
          BY <1>0, <3>2, <4>2 DEF BacklogInv, Connect
        <5>2. Shape(c, <<>>, 1)
          BY EmptySeq DEF Shape, Starts, Runs, Follows
        <5>3. Ended(c, <<>>, 1, 0)
          BY DEF Ended
        <5> QED BY <1>i, <2>1, <3>2, <4>2, <5>1, <5>2, <5>3
      <4> SUFFICES ASSUME NEW i, i \in 1..(Len(backlog) + 1), backlog'[i] = c
                   PROVE  /\ Shape(c, stream'[c], 1)
                          /\ link'[c] = "open" => Ended(c, stream'[c], 1, sent'[c])
                          /\ PassedIn(Packets', c, 1)
        BY <4>1
      <4>3. CASE i \in 1..Len(backlog)
        BY <1>i, <2>1, <2>4, <4>1, <4>3
      <4>4. CASE i = Len(backlog) + 1
        BY <4>1, <4>2, <4>4
      <4> QED BY <4>1, <4>3, <4>4
    <3> QED BY <2>1, <3>1, <3>2
  <2>6. ASSUME conn' = c, Heeded'
        PROVE  \E n \in Nat \ {0} :
                 /\ Shape(c, strBuf' \o stream'[c], n)
                 /\ link'[c] = "open" => Ended(c, strBuf' \o stream'[c], n, sent'[c])
                 /\ PassedIn(Packets', c, n)
    <3>1. conn = c /\ Heeded /\ link[c] # "new"
      <4>1. backlog' = <<>> => backlog = <<>>
        <5>t. backlog \in Seq(Clients) /\ d \in Clients
          BY <1>0
        <5>1. Append(backlog, d) # <<>>
          BY <5>t, AppendProperties
        <5> QED BY <2>1, <5>1
      <4> QED BY <1>0, <2>1, <2>6, <4>1 DEF Heeded, BacklogInv
    <3>2. PICK n \in Nat \ {0} :
            /\ Shape(c, strBuf \o stream[c], n)
            /\ link[c] = "open" => Ended(c, strBuf \o stream[c], n, sent[c])
            /\ PassedIn(Packets, c, n)
      BY <1>i, <3>1
    <3>3. /\ Shape(c, strBuf \o stream'[c], n)
          /\ link'[c] = "open" => Ended(c, strBuf \o stream'[c], n, sent'[c])
      BY <1>0, <2>2, <3>1, <3>2
    <3> QED BY <2>1, <3>2, <3>3
  <2> QED BY <1>i, <2>1, <2>5, <2>6
<1>2. CASE Accept
  <2>1. /\ checkPc' = "poll" /\ backlog # <<>> /\ conn' = Head(backlog) /\ backlog' = Tail(backlog)
        /\ strBuf' = <<>> /\ UNCHANGED <<link, stream, sent>> /\ Packets' = Packets
    BY <1>2 DEF Accept, Polling, threadvars, netvars, Packets
  <2>2. /\ Len(backlog) \in Nat \ {0} /\ Head(backlog) = backlog[1]
        /\ Len(Tail(backlog)) = Len(backlog) - 1
        /\ \A i \in 1..Len(Tail(backlog)) : Tail(backlog)[i] = backlog[i + 1]
    BY <1>0, <2>1, EmptySeq, HeadTailProperties
  <2>3. 1 \in 1..Len(backlog) /\ \A i \in 1..Len(Tail(backlog)) : i + 1 \in 1..Len(backlog)
    BY <2>2
  <2>4. 1 \in Nat \ {0}
    OBVIOUS
  <2> QED BY <1>e, <1>i, <2>1, <2>2, <2>3, <2>4
<1>3. CASE AcceptFails
  <2>1. /\ conn' = 0 /\ backlog # <<>> /\ (backlog' = Tail(backlog) \/ backlog' = backlog)
        /\ UNCHANGED <<link, stream, sent>> /\ Packets' = Packets
    BY <1>3 DEF AcceptFails, netvars, Packets
  <2>2. /\ Len(backlog) \in Nat \ {0} /\ Len(Tail(backlog)) = Len(backlog) - 1
        /\ \A i \in 1..Len(Tail(backlog)) : Tail(backlog)[i] = backlog[i + 1]
    BY <1>0, <2>1, EmptySeq, HeadTailProperties
  <2>3. \A i \in 1..Len(Tail(backlog)) : i + 1 \in 1..Len(backlog)
    BY <2>2
  <2> QED BY <1>0, <1>i, <2>1, <2>2, <2>3
<1>4. CASE AcceptAgain
  <2>1. /\ checkPc' = "poll" /\ backlog # <<>> /\ UNCHANGED <<backlog, link, stream, sent>>
        /\ Packets' = Packets
    BY <1>4 DEF AcceptAgain, Polling, threadvars, netvars, Packets
  <2>2. ~Heeded'
    BY <2>1 DEF Heeded
  <2> QED BY <1>i, <2>1, <2>2
<1>5. CASE Recv
  <2>1. /\ backlog = <<>> /\ UNCHANGED <<conn, backlog, link, sent>> /\ Packets' = Packets
        /\ conn \in Clients
    BY <1>0, <1>5 DEF Recv, Receiving, sockvars, Packets, TypeInv, ControlType
  <2>2. PICK k \in 1..Len(stream[conn]) :
          /\ strBuf' = strBuf \o SubSeq(stream[conn], 1, k)
          /\ stream' = [stream EXCEPT ![conn] = Erase(@, k)]
    BY <1>5 DEF Recv
  <2>3. conn = c => strBuf' \o stream'[c] = strBuf \o stream[c]
    <3> SUFFICES ASSUME conn = c
                 PROVE  strBuf' \o stream'[c] = strBuf \o stream[c]
      OBVIOUS
    <3>1. PICK t \in Seq(Unit) : t = stream[c]
      BY <1>0
    <3>2. k \in 0..Len(t)
      BY <2>2, <3>1, LenProperties
    <3>3. (strBuf \o SubSeq(t, 1, k)) \o Erase(t, k) = strBuf \o t
      BY <1>0, <3>2, MoveUnits, ZenonT(60)
    <3>4. strBuf' = strBuf \o SubSeq(t, 1, k) /\ stream'[c] = Erase(t, k)
      BY <1>0, <2>2, <3>1
    <3> QED BY <3>1, <3>3, <3>4
  <2>4. (\A i : ~(i \in 1..Len(backlog'))) /\ Heeded
    <3>1. Len(backlog') = 0
      BY <2>1, EmptySeq
    <3> QED BY <2>1, <3>1 DEF Heeded
  <2>5. ASSUME conn = c
        PROVE  \E n \in Nat \ {0} :
                 /\ Shape(c, strBuf' \o stream'[c], n)
                 /\ link[c] = "open" => Ended(c, strBuf' \o stream'[c], n, sent[c])
                 /\ PassedIn(Packets, c, n)
    BY <1>i, <2>3, <2>4, <2>5
  <2> QED BY <1>i, <2>1, <2>4, <2>5
<1>6. CASE Frame
  <2>1. /\ UNCHANGED <<conn, backlog, checkPc, link, stream, sent>> /\ conn \in Clients
        /\ Packets' = Append(Packets, StripData(strBuf)) /\ StripData(strBuf) \in Seq(Unit)
    BY <1>0, <1>6, PacketsStep, StripType
    DEF Frame, sockvars, netvars, threadvars, OriginInv, TypeInv, ControlType
  <2>2. CASE conn # c
    <3>1. ~From(c, StripData(strBuf))
      BY <1>0, <1>6, <2>2, FrameOrigin
    <3>2. PassedIn(Packets, c, 1) => PassedIn(Packets', c, 1)
      BY <1>0, <1>t, <2>1, <3>1, OtherPacket
    <3> QED BY <1>i, <2>1, <2>2, <3>2
  <2>3. CASE conn = c
    <3>1. PICK n \in 1..sent[c] :
            /\ StripData(strBuf) = WholeBody(<<c, n>>)
            /\ PassedIn(Packets, c, n)
            /\ Good(c, strBuf' \o stream'[c], n + 1)
      BY <1>6, <2>3, FramePacket
    <3>2. n \in Nat \ {0} /\ n + 1 \in Nat \ {0} /\ sent[c] \in Nat /\ n <= sent[c]
      BY <1>0
    <3>3. PassedIn(Packets', c, n + 1)
      BY <1>0, <1>t, <2>1, <3>1, <3>2, NextPacket
    <3>4. /\ Shape(c, strBuf' \o stream'[c], n + 1)
          /\ link'[c] = "open" => Ended(c, strBuf' \o stream'[c], n + 1, sent'[c])
      BY <2>1, <3>1 DEF Good
    <3>5. link'[c] # "new" /\ \A i \in 1..Len(backlog') : backlog'[i] # c
      BY <1>0, <2>1, <2>3 DEF BacklogInv
    <3> QED BY <3>2, <3>3, <3>4, <3>5
  <2> QED BY <2>2, <2>3
<1>7. CASE FrameEnd
  <2>1. /\ UNCHANGED <<conn, backlog, link, stream, sent>> /\ Packets' = Packets
        /\ checkPc = "frame"
    BY <1>7 DEF FrameEnd, sockvars, netvars, Packets
  <2>2. ASSUME conn = c
        PROVE  strBuf' = strBuf
    <3>1. PICK n \in Nat \ {0} : Shape(c, strBuf \o stream[c], n)
      BY <1>i, <2>1, <2>2 DEF Heeded
    <3>2. PICK s \in Seq(Unit) : s = strBuf \o stream[c]
      BY <1>0, ConcatProperties
    <3>3. /\ Len(strBuf) \in Nat /\ Len(strBuf) <= Len(s)
          /\ \A i \in 1..Len(strBuf) : s[i] = strBuf[i]
      <4>1. Len(strBuf) \in Nat /\ Len(stream[c]) \in Nat
        BY <1>0, LenProperties
      <4>2. /\ Len(s) = Len(strBuf) + Len(stream[c])
            /\ \A i \in 1..(Len(strBuf) + Len(stream[c])) :
                 s[i] = IF i <= Len(strBuf) THEN strBuf[i] ELSE stream[c][i - Len(strBuf)]
        BY <1>0, <3>2, ConcatProperties
      <4> QED BY <4>1, <4>2
    <3>4. ~(StripMark(strBuf) > 0) => Len(strBuf) <= Pieces[c] + 1
      BY <1>0, <3>1, <3>2, <3>3, FirstPacket
    <3>5. StripMark(strBuf) \in Int /\ (iCnt > 0 => StripMark(strBuf) <= 0)
      <4>1. Find(strBuf, ">") \in 0..Len(strBuf)
        BY <1>0, FindType
      <4> QED BY <1>7, <3>3, <4>1 DEF FrameEnd, StripMark
    <3>6. iCnt > 0 => Len(strBuf) <= BufMax
      <4>1. Pieces[c] \in Nat /\ Pieces[c] + 1 <= BufMax
        BY ServerAssumption DEF Fits
      <4> QED BY <3>3, <3>4, <3>5, <4>1, BufMaxAssumption
    <3> QED BY <1>7, <3>6 DEF FrameEnd, Overflow
  <2> QED BY <1>i, <2>1, <2>2 DEF Heeded
<1>8. CASE RecvEnd \/ CheckExit
  <2>1. /\ conn' = 0 /\ (backlog' = backlog \/ backlog' = <<>>) /\ UNCHANGED <<link, stream, sent>>
        /\ Packets' = Packets
    BY <1>8 DEF RecvEnd, CheckExit, netvars, Packets
  <2> QED BY <1>0, <1>i, <2>1, EmptySeq
<1>9. CASE StartThread \/ JoinCheck
  <2>1. /\ conn = 0 /\ UNCHANGED <<conn, backlog, link, stream, sent>>
    BY <1>9 DEF StartThread, Created, JoinCheck, TypeInv, ControlType, sockvars, netvars
  <2>2. PassedIn(Packets, c, 1) => PassedIn(Packets', c, 1)
    <3>1. /\ Len(Packets') <= Len(Packets)
          /\ \A i \in 1..Len(Packets') : Packets'[i] = Packets[i]
      BY <1>9, PacketsStep
    <3> QED BY <1>0, <1>t, <3>1, FirstPackets
  <2> QED BY <1>0, <1>i, <2>1, <2>2
<1>10. CASE \/ Listen \/ ListenFails \/ RecvAgain \/ ProcStep \/ ClearFlags \/ JoinProc \/ JoinDies
            \/ UNCHANGED vars
  <2>1. /\ UNCHANGED <<conn, backlog, strBuf, link, stream, sent>>
        /\ checkPc' = "frame" => checkPc = "frame"
    BY <1>10 DEF Listen, ListenFails, RecvAgain, ProcStep, ProcStart, ProcMsg, ProcGarbage,
         ProcExit, ClearFlags, JoinProc, JoinDies, vars, sockvars, bufvars, netvars, threadvars
  <2>2. Packets' = Packets
    <3>1. ProcMsg \/ UNCHANGED <<qRecv, handled>>
      BY <1>10 DEF Listen, ListenFails, RecvAgain, ProcStep, ProcStart, ProcGarbage, ProcExit,
           ClearFlags, JoinProc, JoinDies, vars
    <3>2. CASE ProcMsg
      <4>1. qRecv # <<>> /\ qRecv' = Tail(qRecv) /\ handled' = Append(handled, Head(qRecv))
        BY <3>2 DEF ProcMsg
      <4> QED BY <4>1, PacketsType, MoveHead DEF Packets
    <3>3. CASE UNCHANGED <<qRecv, handled>>
      BY <3>3 DEF Packets
    <3> QED BY <3>1, <3>2, <3>3
  <2>3. Heeded' => Heeded
    BY <2>1 DEF Heeded
  <2> QED BY <1>i, <2>1, <2>2, <2>3
<1> QED
  BY <1>1, <1>2, <1>3, <1>4, <1>5, <1>6, <1>7, <1>8, <1>9, <1>10
  DEF Next, ClientMove, CheckStep, StopStep

LEMMA NextIInv == TypeInv /\ TypeInv' /\ IInv /\ [Next]_vars => IInv'
BY OriginStep, BacklogStep, StreamStep DEF IInv

LEMMA InitIInv == Init => IInv
BY OriginInit, BacklogInit, StreamInit DEF IInv

(* What reaches the handler of a client whose messages fit the buffer is   *)
(* its messages, whole and in their order, none missing and none twice     *)
(* (SocketCheckThread, StripMark): for any clients, any length of their    *)
(* messages, any cut of the streams and any bound of the buffer.           *)
THEOREM PacketsInOrder == Spec => []InOrder
<1> DEFINE AllInOrder == \A c \in {d \in Clients : Fits(d)} : OrderIn(Packets, c, sent[c])
<1>1. Init => AllInOrder
  <2> SUFFICES ASSUME Init, NEW c \in Clients
               PROVE  OrderIn(Packets, c, sent[c])
    OBVIOUS
  <2>1. Packets = <<>> /\ DOMAIN Packets = {}
    BY ConcatEmptySeq, EmptySeq DEF Init, Packets
  <2> QED BY <2>1 DEF OrderIn
<1>2. TypeInv /\ TypeInv' /\ IInv /\ AllInOrder /\ [Next]_vars => AllInOrder'
  <2> SUFFICES ASSUME TypeInv, TypeInv', IInv, AllInOrder, [Next]_vars, NEW c \in Clients, Fits(c)
               PROVE  OrderIn(Packets', c, sent'[c])
    <3>1. \A c : OrderIn(Packets, c, sent[c])' <=> OrderIn(Packets', c, sent'[c])
      BY DEF OrderIn, From, WholeBody, Body
    <3>2. \A c : Fits(c)' <=> Fits(c)
      BY DEF Fits
    <3> QED BY <3>1, <3>2
  <2>1. /\ Packets \in Seq(Seq(Unit)) /\ Packets' \in Seq(Seq(Unit))
        /\ OrderIn(Packets, c, sent[c])
    BY PacketsType, PacketsNext
  <2>2. sent[c] \in Nat /\ sent'[c] \in Nat /\ sent[c] <= sent'[c]
    <3>1. sent \in [Clients -> Nat] /\ sent'[c] \in Nat
      BY DEF TypeInv, DataType
    <3>2. ASSUME NEW d \in Clients, ClientMove(d)
          PROVE  sent'[c] = sent[c] \/ sent'[c] = sent[c] + 1
      BY <3>1, <3>2 DEF ClientMove, Connect, ClientSend, ClientClose, ClientReset
    <3>3. CASE ThreadMove \/ UNCHANGED vars
      <4>1. UNCHANGED sent
        BY <3>3
        DEF ThreadMove, CheckStep, Listen, ListenFails, Accept, AcceptFails, AcceptAgain, Recv,
            RecvAgain, RecvEnd, Frame, FrameEnd, CheckExit, ProcStep, ProcStart, ProcMsg,
            ProcGarbage, ProcExit, StartThread, ClearFlags, StopStep, JoinProc, JoinCheck,
            JoinDies, vars, netvars
      <4> QED BY <3>1, <4>1
    <3>4. (\E d \in Clients : ClientMove(d)) \/ ThreadMove \/ UNCHANGED vars
      BY DEF Next, ClientMove, ThreadMove
    <3> QED BY <3>1, <3>2, <3>3, <3>4
  <2>3. CASE Frame
    <3>1. /\ Packets' = Append(Packets, StripData(strBuf)) /\ StripData(strBuf) \in Seq(Unit)
          /\ sent' = sent
      BY <2>3, PacketsStep, StripType DEF Frame, TypeInv, DataType, netvars
    <3>2. CASE conn # c
      <4>1. ~From(c, StripData(strBuf))
        BY <2>3, <3>2, FrameOrigin DEF IInv
      <4>2. 1 \in Nat \ {0}
        OBVIOUS
      <4> QED BY <2>1, <2>2, <3>1, <4>1, <4>2, OtherPacket
    <3>3. CASE conn = c
      <4>1. PICK n \in 1..sent[c] :
              /\ StripData(strBuf) = WholeBody(<<c, n>>)
              /\ PassedIn(Packets, c, n)
        BY <2>3, <3>3, FramePacket
      <4>2. n \in Nat \ {0} /\ n <= sent[c]
        BY <2>2
      <4> QED BY <2>1, <2>2, <3>1, <4>1, <4>2, NextPacket
    <3> QED BY <3>2, <3>3
  <2>4. CASE ~Frame
    <3>1. /\ Len(Packets') <= Len(Packets)
          /\ \A i \in 1..Len(Packets') : Packets'[i] = Packets[i]
      <4>1. CASE StartThread \/ JoinCheck
        BY <4>1, PacketsStep
      <4>2. CASE Packets' = Packets
        BY <2>1, <4>2, LenProperties
      <4> QED BY <2>4, <4>1, <4>2, PacketsStep
    <3> QED BY <2>1, <2>2, <3>1, FirstInOrder
  <2> QED BY <2>3, <2>4
<1>3. AllInOrder => InOrder
  BY DEF OrderIn, InOrder
<1> HIDE DEF AllInOrder
<1> QED
  BY <1>1, <1>2, <1>3, TypeInit, TypeStep, InitIInv, NextIInv, PTL DEF Spec

-----------------------------------------------------------------------------
(* From the start of message n to the end of message m every end mark is   *)
(* in the stream: otherwise look at the first that is not.                 *)
LEMMA EndsAreThere ==
  ASSUME NEW c \in Clients, NEW s \in Seq(Unit), NEW n \in Nat \ {0}, NEW m \in Nat,
         Shape(c, s, n), Ended(c, s, n, m), NEW k \in n..m
  PROVE  \E i \in 1..Len(s) : s[i] = EndMark(c, k)
<1> DEFINE D == {j \in n..m : ~\E i \in 1..Len(s) : s[i] = EndMark(c, j)}
<1> SUFFICES ASSUME D # {}
             PROVE  FALSE
  OBVIOUS
<1>1. PICK j \in D : \A l \in D : j <= l
  <2>1. D \subseteq Nat
    OBVIOUS
  <2> HIDE DEF D
  <2> QED BY <2>1, NatMin
<1>2. /\ j \in n..m /\ j \in Nat \ {0}
      /\ \A i \in 1..Len(s) : s[i] # EndMark(c, j)
      /\ \A l \in n..(j - 1) : \E i \in 1..Len(s) : s[i] = EndMark(c, l)
  <2>1. j \in n..m /\ j \in Nat \ {0} /\ \A i \in 1..Len(s) : s[i] # EndMark(c, j)
    OBVIOUS
  <2>2. ASSUME NEW l \in n..(j - 1)
        PROVE  \E i \in 1..Len(s) : s[i] = EndMark(c, l)
    <3>1. l \notin D /\ l \in n..m
      BY <1>1, <2>1, <2>2
    <3> QED BY <3>1
  <2> QED BY <2>1, <2>2
<1> HIDE DEF D
<1>3. /\ s # <<>> /\ Len(s) \in Nat /\ Len(s) # 0
      /\ s[1] = StartMark(c, n) /\ s[Len(s)] = EndMark(c, m)
  <2>1. s # <<>>
    BY <1>2 DEF Ended
  <2>2. Len(s) \in Nat /\ Len(s) # 0
    BY <2>1, EmptySeq, LenProperties
  <2> QED BY <2>1, <2>2 DEF Ended, Shape, Starts
<1>4. PICK i \in 1..Len(s) : s[i] = StartMark(c, j)
  <2>1. CASE j = n
    BY <1>3, <2>1
  <2>2. CASE j # n
    <3>1. j - 1 \in n..(j - 1) /\ j - 1 \in Nat \ {0} /\ j - 1 # m
      BY <1>2, <2>2
    <3>2. PICK i \in 1..Len(s) : s[i] = EndMark(c, j - 1)
      BY <1>2, <3>1
    <3>3. i # Len(s)
      BY <1>3, <3>1, <3>2, MarkNames
    <3>4. i \in 1..(Len(s) - 1) /\ i + 1 \in 1..Len(s)
      BY <1>3, <3>3
    <3>5. s[i + 1] = StartMark(c, (j - 1) + 1)
      BY <3>1, <3>2, <3>4 DEF Shape, Follows
    <3>6. (j - 1) + 1 = j
      BY <1>2
    <3> QED BY <3>4, <3>5, <3>6
  <2> QED BY <2>1, <2>2
<1>5. PICK p \in Nat \ {0} : p = Pieces[c]
  BY ServerAssumption
<1>6. \A d \in 0..(p + 1) : i + d <= Len(s) => s[i + d] = WholeWire(c, j)[d + 1]
  BY <1>2, <1>4, <1>5 DEF Shape, Runs
<1>7. CASE i + (p + 1) <= Len(s)
  <2>1. s[i + (p + 1)] = WholeWire(c, j)[(p + 1) + 1]
    BY <1>5, <1>6, <1>7, SMTT(30)
  <2>2. (p + 1) + 1 = p + 2 /\ WholeWire(c, j)[p + 2] = EndMark(c, j)
    <3>1. (p + 1) + 1 = p + 2 /\ 1 \in 1..(p + 2)
      BY <1>5
    <3>2. WholeWire(c, j)[Pieces[c] + 2] = EndMark(c, j)
      BY <1>2, <1>5, <3>1, Marks
    <3> QED BY <1>5, <3>1, <3>2
  <2>3. i + (p + 1) \in 1..Len(s)
    BY <1>3, <1>4, <1>5, <1>7
  <2> QED BY <1>2, <2>1, <2>2, <2>3
<1>8. CASE ~(i + (p + 1) <= Len(s))
  <2>1. PICK d \in 0..p : i + d = Len(s)
    <3>1. Len(s) - i \in 0..p /\ i + (Len(s) - i) = Len(s)
      BY <1>3, <1>4, <1>5, <1>8
    <3> QED BY <3>1
  <2>2. d \in 0..(p + 1) /\ d + 1 \in 1..(p + 2) /\ d + 1 # p + 2
    BY <1>5, <2>1
  <2>3. WholeWire(c, j)[d + 1] = EndMark(c, m)
    BY <1>3, <1>6, <2>1, <2>2
  <2>4. \A l : WholeWire(c, j)[d + 1] = EndMark(c, l) => d + 1 = p + 2
    BY <1>2, <1>5, <2>2, Marks
  <2> QED BY <2>2, <2>3, <2>4
<1> QED BY <1>7, <1>8

(* Packets that are in order hold every message before n if they hold the  *)
(* last of them: otherwise look at the last that they do not.              *)
LEMMA EarlierArePassed ==
  ASSUME NEW c \in Clients, NEW ps \in Seq(Seq(Unit)), NEW n \in Nat \ {0}, NEW m \in Nat,
         PassedIn(ps, c, n), OrderIn(ps, c, m), NEW k \in 1..(n - 1)
  PROVE  \E i \in DOMAIN ps : ps[i] = WholeBody(<<c, k>>)
<1> DEFINE Held(l) == \E i \in DOMAIN ps : ps[i] = WholeBody(<<c, l>>)
           T == {j \in 0..n : n - j \in 1..(n - 1) /\ ~Held(n - j)}
<1> SUFFICES ASSUME ~Held(k)
             PROVE  FALSE
  OBVIOUS
<1>1. n - k \in T
  <2>1. n - k \in 0..n /\ n - (n - k) = k
    OBVIOUS
  <2> HIDE DEF Held
  <2> QED BY <2>1
<1>2. PICK t \in T : \A u \in T : t <= u
  <2>1. T \subseteq Nat
    OBVIOUS
  <2> HIDE DEF T
  <2> QED BY <1>1, <2>1, NatMin
<1>3. PICK l \in 1..(n - 1) : l = n - t /\ ~Held(l)
  BY <1>2
<1>4. DOMAIN ps = 1..Len(ps)
  BY LenProperties
<1>5. l # n - 1
  <2>1. n > 1
    BY <1>3
  <2>2. Held(n - 1)
    BY <1>4, <2>1 DEF PassedIn
  <2> HIDE DEF Held
  <2> QED BY <1>3, <2>2
<1>6. Held(l + 1)
  <2>1. l + 1 \in 1..(n - 1) /\ t - 1 \in 0..n /\ n - (t - 1) = l + 1 /\ ~(t <= t - 1)
    BY <1>2, <1>3, <1>5
  <2>2. t - 1 \notin T
    BY <1>2, <2>1
  <2> HIDE DEF Held
  <2> QED BY <2>1, <2>2
<1>7. l \in Nat \ {0} /\ l + 1 \in Nat \ {0} /\ l + 1 > 1 /\ (l + 1) - 1 = l
  BY <1>3
<1>8. PICK i \in DOMAIN ps : ps[i] = WholeBody(<<c, l + 1>>)
  BY <1>6
<1>9. From(c, ps[i])
  BY <1>7, <1>8, BodyFrom
<1>10. PICK q \in 1..m : /\ ps[i] = WholeBody(<<c, q>>)
                         /\ q > 1 => \E j \in 1..(i - 1) : ps[j] = WholeBody(<<c, q - 1>>)
  BY <1>8, <1>9 DEF OrderIn
<1>11. q = l + 1
  <2>1. q \in Nat \ {0}
    OBVIOUS
  <2> QED BY <1>7, <1>8, <1>10, <2>1, BodyFrom
<1>12. PICK j \in 1..(i - 1) : ps[j] = WholeBody(<<c, l>>)
  BY <1>7, <1>10, <1>11
<1>13. j \in DOMAIN ps
  BY <1>4, <1>8, <1>12
<1> QED
  BY <1>3, <1>12, <1>13

(* The connected client's messages are all in the packets or before their  *)
(* end marks in the buffer and the kernel (SocketCheckThread), while it is *)
(* open and no other waits: nothing is lost by framing, cutting or         *)
(* erasing, for any clients, messages and bound of the buffer.             *)
THEOREM NothingIsLost == Spec => []NothingLost
<1>1. TypeInv /\ IInv /\ InOrder => NothingLost
  <2> SUFFICES ASSUME TypeInv, IInv, InOrder, NEW c \in Clients, Fits(c),
                      conn = c, link[c] = "open", ~Wedged, NEW k \in 1..sent[c]
               PROVE  UnderWay(c, k) \/ \E i \in DOMAIN Packets : Packets[i] = WholeBody(<<c, k>>)
    BY DEF NothingLost
  <2> DEFINE s == strBuf \o stream[c]
  <2>1. s \in Seq(Unit) /\ sent[c] \in Nat /\ Packets \in Seq(Seq(Unit))
    BY PacketsType, ConcatProperties DEF TypeInv, DataType
  <2>2. Heeded
    BY ServerAssumption DEF Wedged, Heeded
  <2>3. PICK n \in Nat \ {0} : Good(c, s, n) /\ PassedIn(Packets, c, n)
    BY <2>2 DEF IInv, StreamInv
  <2>4. Shape(c, s, n) /\ Ended(c, s, n, sent[c])
    BY <2>3 DEF Good
  <2>5. OrderIn(Packets, c, sent[c])
    BY DEF InOrder, OrderIn
  <2>6. CASE k >= n
    <3>1. k \in n..sent[c]
      BY <2>1, <2>6
    <3>2. PICK i \in 1..Len(s) : s[i] = EndMark(c, k)
      <4> HIDE DEF s
      <4> QED BY <2>1, <2>4, <3>1, EndsAreThere
    <3>3. i \in DOMAIN s
      BY <2>1, LenProperties
    <3> QED BY <3>2, <3>3 DEF UnderWay, EndMark
  <2>7. CASE ~(k >= n)
    <3>1. k \in 1..(n - 1)
      BY <2>1, <2>7
    <3> QED BY <2>1, <2>3, <2>5, <3>1, EarlierArePassed
  <2> QED BY <2>6, <2>7
<1> QED
  BY <1>1, TypeInit, TypeStep, InitIInv, NextIInv, PacketsInOrder, PTL DEF Spec

(* A packet that does not split takes a client whose messages do not fit   *)
(* the buffer, whatever the others send and wherever they stop.            *)
THEOREM GarbageIsLong == Spec => []GarbageOnlyFromLong
<1>1. Init => GarbageOnlyFromLong
  BY DEF Init, GarbageOnlyFromLong
<1>2. TypeInv /\ TypeInv' /\ IInv /\ GarbageOnlyFromLong /\ [Next]_vars => GarbageOnlyFromLong'
  <2> SUFFICES ASSUME TypeInv, TypeInv', IInv, GarbageOnlyFromLong, [Next]_vars,
                      NEW i, i \in 1..Len(qRecv'), ~Splits(qRecv'[i])
               PROVE  \E c \in Clients : ~Fits(c) /\ sent'[c] > 0
    <3>1. DOMAIN qRecv' = 1..Len(qRecv')
      BY LenProperties DEF TypeInv, DataType
    <3>2. /\ \A c : Fits(c)' <=> Fits(c)
          /\ \A j : Splits(qRecv[j])' <=> Splits(qRecv'[j])
      BY DEF Fits, Splits, Find
    <3> QED BY <3>1, <3>2 DEF GarbageOnlyFromLong
  <2>0. /\ qRecv \in Seq(Seq(Unit)) /\ DOMAIN qRecv = 1..Len(qRecv) /\ Len(qRecv) \in Nat
        /\ sent \in [Clients -> Nat] /\ strBuf \in Seq(Unit)
    BY LenProperties DEF TypeInv, DataType
  <2>1. ASSUME NEW c \in Clients, sent[c] > 0
        PROVE  sent'[c] > 0
    <3>1. CASE \E d \in Clients : ClientMove(d)
      <4>1. ASSUME NEW d \in Clients, ClientMove(d)
            PROVE  sent'[c] = sent[c] \/ sent'[c] = sent[c] + 1
        BY <2>0, <4>1 DEF ClientMove, Connect, ClientSend, ClientClose, ClientReset
      <4>2. sent[c] \in Nat
        BY <2>0
      <4> QED BY <2>1, <3>1, <4>1, <4>2
    <3>2. CASE ThreadMove \/ UNCHANGED vars
      <4>1. UNCHANGED sent
        BY <3>2
        DEF ThreadMove, CheckStep, Listen, ListenFails, Accept, AcceptFails, AcceptAgain, Recv,
            RecvAgain, RecvEnd, Frame, FrameEnd, CheckExit, ProcStep, ProcStart, ProcMsg,
            ProcGarbage, ProcExit, StartThread, ClearFlags, StopStep, JoinProc, JoinCheck,
            JoinDies, vars, netvars
      <4> QED BY <2>1, <4>1
    <3> QED BY <3>1, <3>2 DEF Next, ClientMove, ThreadMove
  <2>2. SUFFICES ASSUME \A j \in 1..Len(qRecv) : qRecv'[i] # qRecv[j]
                 PROVE  \E c \in Clients : ~Fits(c) /\ sent'[c] > 0
    BY <2>0, <2>1 DEF GarbageOnlyFromLong
  <2>3. CASE Frame
    <3>1. /\ qRecv' = Append(qRecv, StripData(strBuf)) /\ StripMark(strBuf) > 0
          /\ StripData(strBuf) \in Seq(Unit) /\ sent' = sent /\ conn \in Clients
      BY <2>0, <2>3, StripType
      DEF Frame, netvars, IInv, OriginInv, TypeInv, ControlType
    <3>2. qRecv'[i] = StripData(strBuf)
      <4>1. /\ Len(qRecv') = Len(qRecv) + 1 /\ qRecv'[Len(qRecv) + 1] = StripData(strBuf)
            /\ \A j \in 1..Len(qRecv) : qRecv'[j] = qRecv[j]
        BY <2>0, <3>1, AppendProperties
      <4>2. i \in 1..Len(qRecv) \/ i = Len(qRecv) + 1
        BY <2>0, <4>1
      <4> QED BY <2>2, <4>1, <4>2
    <3>3. ~Fits(conn)
      <4> SUFFICES ASSUME Fits(conn)
                   PROVE  FALSE
        OBVIOUS
      <4>1. PICK n \in 1..sent[conn] : StripData(strBuf) = WholeBody(<<conn, n>>)
        BY <2>3, FramePacket
      <4>2. n \in Nat \ {0}
        BY <2>0, <3>1
      <4> QED BY <3>1, <3>2, <4>1, <4>2, BodyFrom
    <3>4. sent[conn] > 0
      <4>1. PICK e \in 1..Len(strBuf) : strBuf[e][1] = ">"
        <5>1. /\ Find(strBuf, "<") \in 0..Len(strBuf) /\ Find(strBuf, ">") \in 0..Len(strBuf)
              /\ Find(strBuf, ">") # 0 => strBuf[Find(strBuf, ">")][1] = ">"
              /\ Len(strBuf) \in Nat
          BY <2>0, FindType, LenProperties
        <5>2. Find(strBuf, ">") # 0
          BY ONLY <3>1, <5>1 DEF StripMark
        <5> QED BY <5>1, <5>2
      <4>2. strBuf[e][2][2] <= sent[conn]
        BY <3>1, <4>1, ServerAssumption DEF IInv, OriginInv, FromClient
      <4>3. strBuf[e] \in Unit
        BY <2>0, ElementOfSeq
      <4>4. strBuf[e][2][2] \in Nat \ {0}
        BY <4>3 DEF Unit, Msgs
      <4> QED BY <2>0, <3>1, <4>2, <4>4
    <3> QED BY <3>1, <3>3, <3>4
  <2>4. CASE ProcMsg
    <3>1. qRecv # <<>> /\ qRecv' = Tail(qRecv)
      BY <2>4 DEF ProcMsg
    <3>2. /\ Len(qRecv') = Len(qRecv) - 1 /\ \A j \in 1..Len(qRecv') : qRecv'[j] = qRecv[j + 1]
      BY <2>0, <3>1, HeadTailProperties
    <3>3. i + 1 \in 1..Len(qRecv) /\ qRecv'[i] = qRecv[i + 1]
      BY <2>0, <3>2
    <3> QED BY <2>2, <3>3
  <2>5. CASE StartThread \/ JoinCheck
    BY <2>5, EmptySeq DEF StartThread, Created, JoinCheck
  <2>6. CASE ~Frame /\ ~ProcMsg /\ ~StartThread /\ ~JoinCheck
    <3>1. UNCHANGED qRecv
      BY <2>6
      DEF Next, Connect, ClientSend, ClientClose, ClientReset, CheckStep, Listen, ListenFails,
          Accept, AcceptFails, AcceptAgain, Recv, RecvAgain, RecvEnd, FrameEnd, CheckExit,
          ProcStep, ProcStart, ProcGarbage, ProcExit, ClearFlags, StopStep, JoinProc, JoinDies, vars
    <3> QED BY <2>2, <3>1
  <2> QED BY <2>3, <2>4, <2>5, <2>6
<1> QED
  BY <1>1, <1>2, TypeInit, TypeStep, InitIInv, NextIInv, PTL DEF Spec

=============================================================================
