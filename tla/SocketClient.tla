---------------------------- MODULE SocketClient ----------------------------
(***************************************************************************)
(* CSocketClient (tnet/socketclient.cpp): a check thread that connects to  *)
(* the server of the boards, cuts what it sends into packets, sends a      *)
(* dummy packet when nothing comes, and connects anew when the connection  *)
(* is lost; and a proc thread that passes the packets to the handler.      *)
(*                                                                         *)
(* The peer and the kernel are the environment.  link is the kernel's view *)
(* of the socket:                                                          *)
(*   "none"  not connected          "syn"   connecting                     *)
(*   "up"    connected              "gone"  the peer vanished silently     *)
(*   "fin"   the peer closed        "err"   refused or reset, not reported *)
(*   "dead"  refused or reset, and the error was read                      *)
(* A message is named by the number of its connection and its own.         *)
(*                                                                         *)
(* A definition whose name ends in _Bug is the one after it with a mistake *)
(* that would be easy to make; the properties are tried against it.        *)
(***************************************************************************)
EXTENDS Packet, FiniteSets

CONSTANTS
  ConnBound,     \* how many connections the peer accepts
  SendBound,     \* how many messages it sends on each,
  FirstBound,    \* and on the first
  ConnectTries   \* iConnecTimeout

ASSUME ClientAssumption == ConnBound \in Nat /\ SendBound \in Nat /\ ConnectTries \in Nat \ {0}
ASSUME FirstAssumption == FirstBound \in 0..SendBound

VARIABLES
  checkPc, procPc,      \* the two threads
  condCheck, condProc,  \* condCheckThread, condProcThread
  mainPc,               \* the owner of the client
  sock, bConnect,       \* iClientSocket >= 0, bConnect
  iLoop,                \* how often select was called
  strBuf, iCnt,         \* the check thread's buffer, and its loop counter
  eagain,               \* the check thread's errno is EAGAIN
  qRecv,
  link, unacked,        \* the kernel's view; a dummy packet waits for its answer
  conns, sent,          \* connections so far; messages sent on the last one
  stream,               \* what the peer sent and recv has not returned
  handled               \* the packets passed to ProcFunc, in order

condvars == <<condCheck, condProc>>
sockvars == <<sock, bConnect>>
bufvars == <<strBuf, iCnt>>
linkvars == <<link, unacked>>
peervars == <<conns, sent>>
vars == <<checkPc, procPc, condvars, mainPc, sockvars, iLoop, bufvars, eagain, qRecv, linkvars,
          peervars, stream, handled>>

Msgs == Nat \X (Nat \ {0})
Unit == Kinds \X Msgs \X Nat

CheckPcs == {"absent", "start", "loop", "connect", "select", "poll", "dummy", "frame", "exit"}
ProcPcs == {"absent", "start", "loop", "exit", "dead"}
MainPcs == {"run", "joinProc", "joinCheck", "stopped"}
Links == {"none", "syn", "up", "gone", "fin", "err", "dead"}

Message(k, n) == Wire(<<k, n>>, 1)
Whole(k, n) == Body(<<k, n>>, 1)

(* StartThread has been called.  It makes a thread whose id is 0, and the  *)
(* constructor leaves the ids as they are in memory.                       *)
Init ==
  /\ checkPc \in {"start", "absent"} /\ procPc \in {"start", "absent"}
  /\ condCheck = FALSE /\ condProc = FALSE
  /\ mainPc = "run"
  /\ sock = FALSE /\ bConnect = FALSE /\ iLoop = 0
  /\ strBuf = <<>> /\ iCnt = 0 /\ eagain = FALSE
  /\ qRecv = <<>> /\ handled = <<>>
  /\ link = "none" /\ unacked = FALSE
  /\ conns = 0 /\ sent = 0 /\ stream = <<>>

-----------------------------------------------------------------------------
(* The peer and the network; what they do after StopThread was called is   *)
(* left out.                                                               *)

PeerAccepts ==
  /\ mainPc = "run" /\ link = "syn" /\ conns < ConnBound
  /\ link' = "up"
  /\ conns' = conns + 1 /\ sent' = 0
  /\ UNCHANGED <<checkPc, procPc, condvars, mainPc, sockvars, iLoop, bufvars, eagain, qRecv,
                 unacked, stream, handled>>

PeerSend ==
  /\ mainPc = "run" /\ link = "up"
  /\ sent < IF conns = 1 THEN FirstBound ELSE SendBound
  /\ sent' = sent + 1
  /\ stream' = stream \o Message(conns, sent + 1)
  /\ UNCHANGED <<checkPc, procPc, condvars, mainPc, sockvars, iLoop, bufvars, eagain, qRecv,
                 linkvars, conns, handled>>

(* The peer closes, perhaps in the middle of a message, *)
PeerCloses ==
  /\ mainPc = "run" /\ link = "up"
  /\ link' = "fin"
  /\ \E k \in 0..2 : stream' = stream \o SubSeq(Message(conns, sent + 1), 1, k)
  /\ UNCHANGED <<checkPc, procPc, condvars, mainPc, sockvars, iLoop, bufvars, eagain, qRecv,
                 unacked, peervars, handled>>

(* or resets the connection, as a closed one does when something is sent   *)
(* to it, or vanishes.                                                     *)
PeerLost ==
  /\ mainPc = "run"
  /\ \/ link \in {"up", "fin"} /\ link' = "err"
     \/ link = "up" /\ link' = "gone"
  /\ UNCHANGED <<checkPc, procPc, condvars, mainPc, sockvars, iLoop, bufvars, eagain, qRecv,
                 unacked, peervars, stream, handled>>

PeerRefuses ==
  /\ mainPc = "run" /\ link = "syn"
  /\ link' = "err"
  /\ UNCHANGED <<checkPc, procPc, condvars, mainPc, sockvars, iLoop, bufvars, eagain, qRecv,
                 unacked, peervars, stream, handled>>

(* The kernel only learns that the peer has vanished when it waits for the *)
(* acknowledgement of something sent.                                      *)
KernelGivesUp ==
  /\ link = "gone" /\ unacked
  /\ link' = "err" /\ unacked' = FALSE
  /\ UNCHANGED <<checkPc, procPc, condvars, mainPc, sockvars, iLoop, bufvars, eagain, qRecv,
                 peervars, stream, handled>>

-----------------------------------------------------------------------------
(* SocketCheckThread. *)

CheckStart ==
  /\ checkPc = "start"
  /\ condCheck' = TRUE
  /\ checkPc' = "loop"
  /\ UNCHANGED <<procPc, condProc, mainPc, sockvars, iLoop, bufvars, eagain, qRecv, linkvars,
                 peervars, stream, handled>>

(* CloseSocket: what was not received is lost with the connection. *)
CloseSocket ==
  /\ sock' = FALSE /\ bConnect' = FALSE
  /\ link' = "none" /\ unacked' = FALSE /\ stream' = <<>>

(* The thread stays while it is connected. *)
CheckExit_Bug ==
  /\ checkPc = "loop" /\ ~condCheck /\ ~bConnect
  /\ CloseSocket
  /\ checkPc' = "exit"
  /\ UNCHANGED <<procPc, condvars, mainPc, iLoop, bufvars, eagain, qRecv, peervars, handled>>

CheckExit ==
  /\ checkPc = "loop" /\ ~condCheck
  /\ CloseSocket
  /\ checkPc' = "exit"
  /\ UNCHANGED <<procPc, condvars, mainPc, iLoop, bufvars, eagain, qRecv, peervars, handled>>

(* CreateSocket, which returns the socket there is; ConnectServer returns  *)
(* at once when it is connected.                                           *)
Create ==
  /\ checkPc = "loop" /\ condCheck
  /\ sock' = TRUE
  /\ checkPc' = IF bConnect THEN "poll" ELSE "connect"
  /\ UNCHANGED <<procPc, condvars, mainPc, bConnect, iLoop, bufvars, eagain, qRecv, linkvars,
                 peervars, stream, handled>>

(* The socket is closed, the buffer emptied and the loop starts again; the *)
(* next connect sets errno.                                                *)
StartOver ==
  /\ CloseSocket
  /\ strBuf' = <<>> /\ iLoop' = 0 /\ eagain' = FALSE
  /\ checkPc' = "loop"
  /\ UNCHANGED <<procPc, condvars, mainPc, iCnt, qRecv, peervars, handled>>

CreateFails ==
  /\ checkPc = "loop" /\ condCheck /\ ~sock
  /\ StartOver

(* connect gives EINPROGRESS. *)
Connect ==
  /\ checkPc = "connect" /\ link = "none"
  /\ link' = "syn" /\ eagain' = FALSE /\ iLoop' = 0
  /\ checkPc' = "select"
  /\ UNCHANGED <<procPc, condvars, mainPc, sockvars, bufvars, qRecv, unacked, peervars, stream,
                 handled>>

(* connect fails at once: no network, or the socket was connected before   *)
(* and SendCheckDummy took bConnect away.                                  *)
ConnectFails ==
  /\ checkPc = "connect"
  /\ StartOver

(* One second of select: the socket is not writable yet, or SO_ERROR tells *)
(* whether it is connected.  Reading SO_ERROR clears it: the next call     *)
(* takes a refused connection for a connected one.                         *)
Select ==
  /\ checkPc = "select" /\ condCheck /\ iLoop < ConnectTries
  /\ \/ /\ link \in {"syn", "err"}
        /\ iLoop' = iLoop + 1
        /\ link' = IF link = "err" THEN "dead" ELSE link
        /\ UNCHANGED <<bConnect, checkPc>>
     \/ /\ link \in {"up", "gone", "fin", "dead"}
        /\ bConnect' = TRUE
        /\ checkPc' = "poll" /\ iLoop' = 0
        /\ UNCHANGED link
  /\ UNCHANGED <<procPc, condvars, mainPc, sock, bufvars, eagain, qRecv, unacked, peervars,
                 stream, handled>>

(* Ten seconds, or a stop: not connected. *)
SelectFails ==
  /\ checkPc = "select" /\ (~condCheck \/ iLoop = ConnectTries)
  /\ StartOver

Readable == stream # <<>> \/ link \in {"fin", "err", "dead"}

(* poll returns 0: nothing within a second. *)
PollIdle ==
  /\ checkPc = "poll" /\ ~Readable
  /\ checkPc' = "dummy"
  /\ UNCHANGED <<procPc, condvars, mainPc, sockvars, iLoop, bufvars, eagain, qRecv, linkvars,
                 peervars, stream, handled>>

(* No dummy packet. *)
SendDummy_Bug ==
  /\ checkPc = "dummy"
  /\ checkPc' = "loop"
  /\ UNCHANGED <<procPc, condvars, mainPc, sockvars, iLoop, bufvars, eagain, qRecv, linkvars,
                 peervars, stream, handled>>

(* SendCheckDummy, whatever has arrived meanwhile. *)
SendDummy ==
  /\ checkPc = "dummy" /\ link \in {"up", "gone", "fin"}
  /\ unacked' = (unacked \/ link = "gone")
  /\ checkPc' = "loop"
  /\ UNCHANGED <<procPc, condvars, mainPc, sockvars, iLoop, bufvars, eagain, qRecv, link,
                 peervars, stream, handled>>

(* It was not sent whole; the error of a reset is read with that. *)
DummyFails ==
  /\ checkPc = "dummy"
  /\ bConnect' = FALSE
  /\ link' = IF link = "err" THEN "dead" ELSE link
  /\ checkPc' = "loop"
  /\ UNCHANGED <<procPc, condvars, mainPc, sock, iLoop, bufvars, eagain, qRecv, unacked,
                 peervars, stream, handled>>

Recv ==
  /\ checkPc = "poll" /\ stream # <<>>
  /\ \E k \in 1..Len(stream) :
       /\ strBuf' = strBuf \o SubSeq(stream, 1, k)
       /\ stream' = Erase(stream, k)
       /\ iCnt' = k
  /\ checkPc' = "frame"
  /\ UNCHANGED <<procPc, condvars, mainPc, sockvars, iLoop, eagain, qRecv, linkvars, peervars,
                 handled>>

(* poll reported data that is not there. *)
RecvAgain ==
  /\ checkPc = "poll" /\ ~Readable
  /\ eagain' = TRUE
  /\ checkPc' = "loop"
  /\ UNCHANGED <<procPc, condvars, mainPc, sockvars, iLoop, bufvars, qRecv, linkvars, peervars,
                 stream, handled>>

(* The end of the stream: errno is an old one unless the connection was    *)
(* reset, and with EAGAIN in it the loop goes round.  The socket is closed *)
(* and the buffer kept: the part of a message in it will go before the     *)
(* first message of the next connection.                                   *)
RecvEnd ==
  /\ checkPc = "poll" /\ stream = <<>> /\ Readable
  /\ eagain' = (eagain /\ link # "err")
  /\ IF eagain'
     THEN UNCHANGED <<sockvars, linkvars, stream>>
     ELSE CloseSocket
  /\ checkPc' = "loop"
  /\ UNCHANGED <<procPc, condvars, mainPc, iLoop, bufvars, qRecv, peervars, handled>>

(* if in place of while. *)
Frame_Bug ==
  /\ checkPc = "frame" /\ iCnt > 0
  /\ StripMark(strBuf) > 0
  /\ iCnt' = 0
  /\ strBuf' = Erase(strBuf, StripMark(strBuf))
  /\ qRecv' = Append(qRecv, StripData(strBuf))
  /\ checkPc' = "loop"
  /\ UNCHANGED <<procPc, condvars, mainPc, sockvars, iLoop, eagain, linkvars, peervars,
                 stream, handled>>

(* The packet is copied and stays in the buffer. *)
FrameKeeps_Bug ==
  /\ checkPc = "frame" /\ iCnt > 0
  /\ StripMark(strBuf) > 0
  /\ iCnt' = iCnt - 1
  /\ qRecv' = Append(qRecv, StripData(strBuf))
  /\ UNCHANGED <<checkPc, procPc, condvars, mainPc, sockvars, iLoop, strBuf, eagain, linkvars,
                 peervars, stream, handled>>

(* One packet out of the buffer. *)
Frame ==
  /\ checkPc = "frame" /\ iCnt > 0
  /\ StripMark(strBuf) > 0
  /\ iCnt' = iCnt - 1
  /\ strBuf' = Erase(strBuf, StripMark(strBuf))
  /\ qRecv' = Append(qRecv, StripData(strBuf))
  /\ UNCHANGED <<checkPc, procPc, condvars, mainPc, sockvars, iLoop, eagain, linkvars, peervars,
                 stream, handled>>

(* The rest waits for the next recv. *)
FrameEnd ==
  /\ checkPc = "frame"
  /\ iCnt > 0 => StripMark(strBuf) <= 0
  /\ iCnt' = 0
  /\ strBuf' = IF iCnt > 0 THEN Overflow(strBuf) ELSE strBuf
  /\ checkPc' = "loop"
  /\ UNCHANGED <<procPc, condvars, mainPc, sockvars, iLoop, eagain, qRecv, linkvars, peervars,
                 stream, handled>>

CheckStep ==
  \/ CheckStart \/ CheckExit \/ Create \/ CreateFails \/ Connect \/ ConnectFails
  \/ Select \/ SelectFails \/ PollIdle \/ SendDummy \/ DummyFails \/ Recv \/ RecvAgain \/ RecvEnd
  \/ Frame \/ FrameEnd

-----------------------------------------------------------------------------
(* SocketProcThread. *)

ProcStart ==
  /\ procPc = "start"
  /\ condProc' = TRUE
  /\ procPc' = "loop"
  /\ UNCHANGED <<checkPc, condCheck, mainPc, sockvars, iLoop, bufvars, eagain, qRecv, linkvars,
                 peervars, stream, handled>>

ProcMsg ==
  /\ procPc = "loop" /\ condProc /\ qRecv # <<>>
  /\ qRecv' = Tail(qRecv)
  /\ handled' = Append(handled, Head(qRecv))
  /\ UNCHANGED <<checkPc, procPc, condvars, mainPc, sockvars, iLoop, bufvars, eagain, linkvars,
                 peervars, stream>>

(* A packet that did not split may end the process, as in SocketServer. *)
ProcGarbage ==
  /\ procPc = "loop" /\ condProc /\ qRecv # <<>> /\ ~Splits(Head(qRecv))
  /\ procPc' = "dead"
  /\ UNCHANGED <<checkPc, condvars, mainPc, sockvars, iLoop, bufvars, eagain, qRecv, linkvars,
                 peervars, stream, handled>>

ProcExit ==
  /\ procPc = "loop" /\ ~condProc
  /\ procPc' = "exit"
  /\ UNCHANGED <<checkPc, condvars, mainPc, sockvars, iLoop, bufvars, eagain, qRecv, linkvars,
                 peervars, stream, handled>>

ProcStep == ProcStart \/ ProcMsg \/ ProcGarbage \/ ProcExit

-----------------------------------------------------------------------------
(* StopThread: both flags, the proc thread, the check thread, the queue. *)

ClearFlags ==
  /\ mainPc = "run"
  /\ condCheck' = FALSE /\ condProc' = FALSE
  /\ mainPc' = "joinProc"
  /\ UNCHANGED <<checkPc, procPc, sockvars, iLoop, bufvars, eagain, qRecv, linkvars, peervars,
                 stream, handled>>

JoinProc ==
  /\ mainPc = "joinProc" /\ procPc \in {"exit", "absent"}
  /\ mainPc' = "joinCheck"
  /\ UNCHANGED <<checkPc, procPc, condvars, sockvars, iLoop, bufvars, eagain, qRecv, linkvars,
                 peervars, stream, handled>>

JoinCheck ==
  /\ mainPc = "joinCheck" /\ checkPc \in {"exit", "absent"}
  /\ qRecv' = <<>>
  /\ mainPc' = "stopped"
  /\ UNCHANGED <<checkPc, procPc, condvars, sockvars, iLoop, bufvars, eagain, linkvars,
                 peervars, stream, handled>>

(* pthread_join of an id that is none may also end the process. *)
JoinDies ==
  /\ \/ mainPc = "joinProc" /\ procPc = "absent"
     \/ mainPc = "joinCheck" /\ checkPc = "absent"
  /\ procPc' = "dead"
  /\ UNCHANGED <<checkPc, condvars, mainPc, sockvars, iLoop, bufvars, eagain, qRecv, linkvars,
                 peervars, stream, handled>>

StopStep == JoinProc \/ JoinCheck \/ JoinDies

-----------------------------------------------------------------------------
Alive == procPc # "dead"

Next ==
  \/ PeerAccepts \/ PeerSend \/ PeerCloses \/ PeerLost \/ PeerRefuses \/ KernelGivesUp
  \/ Alive /\ (CheckStep \/ ProcStep \/ ClearFlags \/ StopStep)

(* The threads run, an owner that waits is woken, the kernel gives up on a *)
(* peer that does not acknowledge, and poll does not forever report data   *)
(* that is not there.                                                      *)
Fairness ==
  /\ WF_vars(Alive /\ CheckStep) /\ WF_vars(Alive /\ ProcStep) /\ WF_vars(Alive /\ StopStep)
  /\ WF_vars(KernelGivesUp) /\ SF_vars(PollIdle)

Spec == Init /\ [][Next]_vars
FairSpec == Spec /\ Fairness

-----------------------------------------------------------------------------
(* Properties. *)

(* Every variable has a value of its C++ type; without a socket there is   *)
(* no connection, and what waits for recv came over the last one.          *)
TypeOK ==
  /\ checkPc \in CheckPcs /\ procPc \in ProcPcs
  /\ condCheck \in BOOLEAN /\ condProc \in BOOLEAN
  /\ mainPc \in MainPcs
  /\ sock \in BOOLEAN /\ bConnect \in BOOLEAN
  /\ ~sock => link = "none" /\ ~bConnect
  /\ iLoop \in 0..ConnectTries
  /\ strBuf \in Seq(Unit) /\ iCnt \in Nat /\ eagain \in BOOLEAN
  /\ qRecv \in Seq(Seq(Unit)) /\ handled \in Seq(Seq(Unit))
  /\ link \in Links /\ unacked \in BOOLEAN
  /\ conns \in 0..ConnBound /\ sent \in 0..SendBound
  /\ stream \in Seq(Unit)

Packets == handled \o qRecv
IsWhole(p) == \E k \in 1..conns : \E n \in 1..SendBound : p = Whole(k, n)
Of(k, p) == \E n \in 1..SendBound : p = Whole(k, n)

(* socketclient.cpp:272: the messages of the first connection reach the    *)
(* handler whole and in order; those of a later one too, except that its   *)
(* first message may be missing: each comes before the later ones and      *)
(* after the one before it.                                                *)
InOrder ==
  \A k \in 1..conns : \A i \in {j \in DOMAIN Packets : Of(k, Packets[j])} :
    \E n \in 1..SendBound :
      /\ Packets[i] = Whole(k, n)
      /\ \A j \in 1..(i - 1), m \in n..SendBound : Packets[j] # Whole(k, m)
      /\ \/ n = 1
         \/ n = 2 /\ k > 1
         \/ \E j \in 1..(i - 1) : Packets[j] = Whole(k, n - 1)

(* socketclient.cpp:287: each connection but the first puts at most one    *)
(* packet before the handler that no peer has sent.                        *)
OneBadPerReconnect ==
  Cardinality({i \in DOMAIN Packets : ~IsWhole(Packets[i])}) <= IF conns = 0 THEN 0 ELSE conns - 1

(* socketclient.cpp:308, 157: a connection that is lost, in whatever way,  *)
(* is given up, also when the peer vanished without a word, and so is a    *)
(* refused one that counts as connected; unless errno is a stale EAGAIN.   *)
LossIsNoticed ==
  (bConnect /\ link \in {"fin", "err", "gone", "dead"})
    ~> (~sock \/ eagain \/ mainPc # "run" \/ ~Alive)

Arrived(k, n) == \E i \in DOMAIN stream : stream[i] = <<">", <<k, n>>, 0>>
Handled(k, n) == \E i \in DOMAIN handled : handled[i] = Whole(k, n)

(* The dummy packet could not be sent: the socket will be closed. *)
DummyFailed == checkPc = "loop" /\ sock /\ ~bConnect

(* socketclient.cpp:256-308: a message that has arrived whole, and is not  *)
(* the first of a later connection, is handled; unless the dummy packet of *)
(* a poll that came back before it fails and takes the socket away with    *)
(* the message in it, the client is stopped, the process ends or there is  *)
(* no proc thread.                                                         *)
Heard ==
  \A k \in 1..ConnBound : \A n \in {j \in 1..SendBound : k = 1 \/ j > 1} :
    (bConnect /\ Arrived(k, n)) ~>
      ( \/ Handled(k, n)
        \/ DummyFailed /\ Arrived(k, n)
        \/ mainPc # "run"
        \/ procPc \in {"absent", "dead"} )

(* StopThread returns when both threads were made and past setting their   *)
(* flags.                                                                  *)
StopReturns ==
  ( /\ mainPc = "joinProc" /\ ~condCheck /\ ~condProc
    /\ checkPc \notin {"start", "absent"} /\ procPc \notin {"start", "absent"} )
    ~> (mainPc = "stopped" \/ ~Alive)

=============================================================================
