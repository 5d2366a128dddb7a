---------------------------- MODULE SocketServer ----------------------------
(***************************************************************************)
(* CSocketServer (tnet/socketserver.cpp): a check thread that accepts one  *)
(* client at a time and cuts its stream into packets, a proc thread that   *)
(* passes them to the handler, and StartThread/StopThread of their owner.  *)
(*                                                                         *)
(*   clients --connect--> backlog --accept--> conn                         *)
(*   client --send--> stream --recv--> strBuf --StripMark--> qRecv --> handled *)
(*                                                                         *)
(* The clients and the kernel are the environment: they connect, send,     *)
(* close (in an orderly way or with a reset, at any byte), and a call may  *)
(* fail.  One thing is kept from the kernel's errno: whether it is         *)
(* EAGAIN, because the check thread reads it after a recv that did not set *)
(* it.  One operation on qRecv is one step.                                *)
(*                                                                         *)
(* A definition whose name ends in _Bug is the one after it with a mistake *)
(* that would be easy to make; the properties are tried against it.        *)
(***************************************************************************)
EXTENDS Packet

CONSTANTS
  Clients,      \* one name for each connection that is ever made
  Pieces,       \* how many pieces the messages of a client have
  SendBound,    \* how many messages a client sends at most
  StartBound    \* how often StartThread is called

ASSUME ServerAssumption ==
  /\ 0 \notin Clients
  /\ Pieces \in [Clients -> Nat \ {0}]
  /\ SendBound \in [Clients -> Nat] /\ StartBound \in Nat

VARIABLES
  checkPc, procPc,      \* the two threads
  condCheck, condProc,  \* condCheckThread, condProcThread
  mainPc, starts,       \* the owner of the server
  listening,            \* iServerSocket is a listening socket
  conn,                 \* the client behind iClientSocket, 0 for -1; bAccept is conn # 0
  strBuf, iCnt,         \* the check thread's buffer, and its loop counter
  qRecv,
  eagain,               \* the check thread's errno is EAGAIN
  backlog,              \* the connections the kernel holds for accept
  link,                 \* client -> "new", "open", "fin" (closed) or "rst" (reset)
  stream, sent,         \* what a client sent that is not received; how many messages
  handled               \* the packets passed to ProcFunc, in order

threadvars == <<checkPc, procPc, condCheck, condProc>>
ownvars == <<mainPc, starts>>
bufvars == <<strBuf, iCnt>>
sockvars == <<listening, conn, eagain>>
netvars == <<link, stream, sent>>
vars == <<threadvars, ownvars, sockvars, bufvars, qRecv, backlog, netvars, handled>>

Msgs == Clients \X (Nat \ {0})
Unit == Kinds \X Msgs \X Nat

CheckPcs == {"none", "absent", "start", "poll", "frame", "exit"}
ProcPcs == {"none", "absent", "start", "loop", "exit", "dead"}
MainPcs == {"new", "run", "joinProc", "joinCheck", "stopped"}

WholeWire(c, n) == Wire(<<c, n>>, Pieces[c])
WholeBody(m) == Body(m, Pieces[m[1]])

Init ==
  /\ checkPc = "none" /\ procPc = "none"
  /\ condCheck = FALSE /\ condProc = FALSE
  /\ mainPc = "new" /\ starts = 0
  /\ listening = FALSE /\ conn = 0 /\ eagain = FALSE
  /\ strBuf = <<>> /\ iCnt = 0
  /\ qRecv = <<>> /\ handled = <<>>
  /\ backlog = <<>>
  /\ link = [c \in Clients |-> "new"]
  /\ stream = [c \in Clients |-> <<>>]
  /\ sent = [c \in Clients |-> 0]

-----------------------------------------------------------------------------
(* The clients; what they do after StopThread was called is left out.      *)

Connect(c) ==
  /\ link[c] = "new" /\ listening /\ mainPc = "run"
  /\ link' = [link EXCEPT ![c] = "open"]
  /\ backlog' = Append(backlog, c)
  /\ UNCHANGED <<threadvars, ownvars, sockvars, bufvars, qRecv, stream, sent, handled>>

(* A client may send as soon as the kernel has its connection. *)
ClientSend(c) ==
  /\ link[c] = "open" /\ mainPc = "run" /\ sent[c] < SendBound[c]
  /\ sent' = [sent EXCEPT ![c] = @ + 1]
  /\ stream' = [stream EXCEPT ![c] = @ \o WholeWire(c, sent[c] + 1)]
  /\ UNCHANGED <<threadvars, ownvars, sockvars, bufvars, qRecv, backlog, link, handled>>

(* It closes, perhaps in the middle of a message, *)
ClientClose(c) ==
  /\ link[c] = "open" /\ mainPc = "run"
  /\ link' = [link EXCEPT ![c] = "fin"]
  /\ \E k \in 0..(Pieces[c] + 1) :
       stream' = [stream EXCEPT ![c] = @ \o SubSeq(WholeWire(c, sent[c] + 1), 1, k)]
  /\ UNCHANGED <<threadvars, ownvars, sockvars, bufvars, qRecv, backlog, sent, handled>>

(* or resets the connection; what has arrived can still be received. *)
ClientReset(c) ==
  /\ link[c] = "open" /\ mainPc = "run"
  /\ link' = [link EXCEPT ![c] = "rst"]
  /\ UNCHANGED <<threadvars, ownvars, sockvars, bufvars, qRecv, backlog, stream, sent, handled>>

-----------------------------------------------------------------------------
(* SocketCheckThread. *)

(* CreateSocket, BindSocket and ListenSocket; then the thread sets its own *)
(* run flag.                                                               *)
Listen ==
  /\ checkPc = "start"
  /\ listening' = TRUE /\ condCheck' = TRUE
  /\ checkPc' = "poll"
  /\ UNCHANGED <<procPc, condProc, ownvars, conn, eagain, bufvars, qRecv, backlog, netvars,
                 handled>>

(* One of the three fails, for one because the port is taken. *)
ListenFails ==
  /\ checkPc = "start"
  /\ checkPc' = "exit"
  /\ UNCHANGED <<procPc, condCheck, condProc, ownvars, sockvars, bufvars, qRecv, backlog,
                 netvars, handled>>

Polling == checkPc = "poll" /\ condCheck

(* The buffer of the previous client is kept. *)
Accept_Bug ==
  /\ Polling /\ backlog # <<>> /\ conn = 0
  /\ conn' = Head(backlog) /\ backlog' = Tail(backlog)
  /\ UNCHANGED <<threadvars, ownvars, listening, eagain, bufvars, qRecv, netvars, handled>>

Accept ==
  /\ Polling /\ backlog # <<>> /\ conn = 0
  /\ conn' = Head(backlog) /\ backlog' = Tail(backlog)
  /\ strBuf' = <<>>
  /\ UNCHANGED <<threadvars, ownvars, listening, eagain, iCnt, qRecv, netvars, handled>>

(* accept fails: the connection was aborted (EAGAIN), or there is no       *)
(* descriptor for it and it stays.                                         *)
AcceptFails ==
  /\ Polling /\ backlog # <<>> /\ conn = 0
  /\ \/ backlog' = Tail(backlog) /\ eagain' = TRUE
     \/ eagain' = FALSE /\ UNCHANGED backlog
  /\ strBuf' = <<>>
  /\ UNCHANGED <<threadvars, ownvars, listening, conn, iCnt, qRecv, netvars, handled>>

(* With a client connected AcceptClient returns 0 and leaves the next one  *)
(* where it is, so that poll reports it again: nothing else is looked at   *)
(* from then on.                                                           *)
AcceptAgain ==
  /\ Polling /\ backlog # <<>> /\ conn # 0
  /\ strBuf' = <<>>
  /\ UNCHANGED <<threadvars, ownvars, sockvars, iCnt, qRecv, backlog, netvars, handled>>

Receiving == Polling /\ backlog = <<>> /\ conn # 0

(* recv returns some of what has arrived. *)
Recv ==
  /\ Receiving /\ stream[conn] # <<>>
  /\ \E k \in 1..Len(stream[conn]) :
       /\ strBuf' = strBuf \o SubSeq(stream[conn], 1, k)
       /\ stream' = [stream EXCEPT ![conn] = Erase(@, k)]
       /\ iCnt' = k
  /\ checkPc' = "frame"
  /\ UNCHANGED <<procPc, condCheck, condProc, ownvars, sockvars, qRecv, backlog, link, sent,
                 handled>>

(* poll reported data that is not there. *)
RecvAgain ==
  /\ Receiving /\ stream[conn] = <<>> /\ link[conn] = "open"
  /\ eagain' = TRUE
  /\ UNCHANGED <<threadvars, ownvars, listening, conn, bufvars, qRecv, backlog, netvars,
                 handled>>

(* recv < 0 in place of <= 0. *)
RecvEnd_Bug ==
  /\ Receiving /\ stream[conn] = <<>> /\ link[conn] = "rst"
  /\ conn' = 0
  /\ eagain' = FALSE
  /\ UNCHANGED <<threadvars, ownvars, listening, bufvars, qRecv, backlog, netvars, handled>>

(* The end of the stream leaves errno as it is, a reset sets it.  With     *)
(* EAGAIN in it the thread goes back to poll, which reports the same end.  *)
RecvEnd ==
  /\ Receiving /\ stream[conn] = <<>> /\ link[conn] # "open"
  /\ ~(link[conn] = "fin" /\ eagain)
  /\ conn' = 0
  /\ eagain' = FALSE
  /\ UNCHANGED <<threadvars, ownvars, listening, bufvars, qRecv, backlog, netvars, handled>>

(* if in place of while. *)
Frame_Bug ==
  /\ checkPc = "frame" /\ iCnt > 0
  /\ StripMark(strBuf) > 0
  /\ iCnt' = 0
  /\ strBuf' = Erase(strBuf, StripMark(strBuf))
  /\ qRecv' = Append(qRecv, StripData(strBuf))
  /\ checkPc' = "poll"
  /\ UNCHANGED <<procPc, condCheck, condProc, ownvars, sockvars, backlog, netvars, handled>>

(* One packet out of the buffer. *)
Frame ==
  /\ checkPc = "frame" /\ iCnt > 0
  /\ StripMark(strBuf) > 0
  /\ iCnt' = iCnt - 1
  /\ strBuf' = Erase(strBuf, StripMark(strBuf))
  /\ qRecv' = Append(qRecv, StripData(strBuf))
  /\ UNCHANGED <<threadvars, ownvars, sockvars, backlog, netvars, handled>>

(* What is behind the last end mark is thrown away. *)
FrameEndErase_Bug ==
  /\ checkPc = "frame"
  /\ iCnt > 0 => StripMark(strBuf) <= 0
  /\ iCnt' = 0 /\ strBuf' = <<>>
  /\ checkPc' = "poll"
  /\ UNCHANGED <<procPc, condCheck, condProc, ownvars, sockvars, qRecv, backlog, netvars,
                 handled>>

(* The rest waits for the next recv. *)
FrameEnd ==
  /\ checkPc = "frame"
  /\ iCnt > 0 => StripMark(strBuf) <= 0
  /\ iCnt' = 0
  /\ strBuf' = IF iCnt > 0 THEN Overflow(strBuf) ELSE strBuf
  /\ checkPc' = "poll"
  /\ UNCHANGED <<procPc, condCheck, condProc, ownvars, sockvars, qRecv, backlog, netvars,
                 handled>>

(* The flag is only looked at when poll reports nothing. *)
CheckExitIdle_Bug ==
  /\ checkPc = "poll" /\ ~condCheck /\ backlog = <<>>
  /\ checkPc' = "exit"
  /\ listening' = FALSE /\ conn' = 0
  /\ UNCHANGED <<procPc, condCheck, condProc, ownvars, eagain, bufvars, qRecv, backlog, netvars,
                 handled>>

(* The loop is left: both sockets are closed, and with the server's those  *)
(* that wait in its backlog.                                               *)
CheckExit ==
  /\ checkPc = "poll" /\ ~condCheck
  /\ checkPc' = "exit"
  /\ listening' = FALSE /\ conn' = 0
  /\ backlog' = <<>>
  /\ UNCHANGED <<procPc, condCheck, condProc, ownvars, eagain, bufvars, qRecv, netvars, handled>>

CheckStep ==
  \/ Listen \/ ListenFails \/ Accept \/ AcceptFails \/ AcceptAgain
  \/ Recv \/ RecvAgain \/ RecvEnd \/ Frame \/ FrameEnd \/ CheckExit

-----------------------------------------------------------------------------
(* SocketProcThread. *)

ProcStart ==
  /\ procPc = "start"
  /\ condProc' = TRUE
  /\ procPc' = "loop"
  /\ UNCHANGED <<checkPc, condCheck, ownvars, sockvars, bufvars, qRecv, backlog, netvars,
                 handled>>

ProcMsg ==
  /\ procPc = "loop" /\ condProc /\ qRecv # <<>>
  /\ qRecv' = Tail(qRecv)
  /\ handled' = Append(handled, Head(qRecv))
  /\ UNCHANGED <<threadvars, ownvars, sockvars, bufvars, backlog, netvars>>

(* A packet that did not split has a header and a pointer that nobody set: *)
(* the handler, or the delete that follows it, may end the process.        *)
ProcGarbage ==
  /\ procPc = "loop" /\ condProc /\ qRecv # <<>> /\ ~Splits(Head(qRecv))
  /\ procPc' = "dead"
  /\ UNCHANGED <<checkPc, condCheck, condProc, ownvars, sockvars, bufvars, qRecv, backlog,
                 netvars, handled>>

ProcExit ==
  /\ procPc = "loop" /\ ~condProc
  /\ procPc' = "exit"
  /\ UNCHANGED <<checkPc, condCheck, condProc, ownvars, sockvars, bufvars, qRecv, backlog,
                 netvars, handled>>

ProcStep == ProcStart \/ ProcMsg \/ ProcGarbage \/ ProcExit

-----------------------------------------------------------------------------
(* The owner. *)

(* A thread is made if its id is 0.  The constructor leaves both ids as    *)
(* they are in memory, StopThread sets them to 0.                          *)
Created == IF mainPc = "new" THEN {"start", "absent"} ELSE {"start"}

(* InitSockData empties the queue. *)
StartThread ==
  /\ mainPc \in {"new", "stopped"} /\ starts < StartBound
  /\ starts' = starts + 1
  /\ checkPc' \in Created /\ procPc' \in Created
  /\ qRecv' = <<>> /\ strBuf' = <<>> /\ iCnt' = 0 /\ eagain' = FALSE
  /\ mainPc' = "run"
  /\ UNCHANGED <<condCheck, condProc, listening, conn, backlog, netvars, handled>>

(* StopThread clears both flags, *)
ClearFlags ==
  /\ mainPc = "run"
  /\ condCheck' = FALSE /\ condProc' = FALSE
  /\ mainPc' = "joinProc"
  /\ UNCHANGED <<checkPc, procPc, starts, sockvars, bufvars, qRecv, backlog, netvars, handled>>

(* waits for the proc thread, *)
JoinProc ==
  /\ mainPc = "joinProc" /\ procPc \in {"exit", "absent"}
  /\ mainPc' = "joinCheck"
  /\ UNCHANGED <<threadvars, starts, sockvars, bufvars, qRecv, backlog, netvars, handled>>

(* and for the check thread, and empties the queue. *)
JoinCheck ==
  /\ mainPc = "joinCheck" /\ checkPc \in {"exit", "absent"}
  /\ qRecv' = <<>>
  /\ mainPc' = "stopped"
  /\ UNCHANGED <<threadvars, starts, sockvars, bufvars, backlog, netvars, handled>>

(* pthread_join of an id that is none may also end the process. *)
JoinDies ==
  /\ \/ mainPc = "joinProc" /\ procPc = "absent"
     \/ mainPc = "joinCheck" /\ checkPc = "absent"
  /\ procPc' = "dead"
  /\ UNCHANGED <<checkPc, condCheck, condProc, ownvars, sockvars, bufvars, qRecv, backlog,
                 netvars, handled>>

StopStep == JoinProc \/ JoinCheck \/ JoinDies

-----------------------------------------------------------------------------
(* A process that died takes no further step. *)
Alive == procPc # "dead"

Next ==
  \/ \E c \in Clients : Connect(c) \/ ClientSend(c) \/ ClientClose(c) \/ ClientReset(c)
  \/ Alive /\ (CheckStep \/ ProcStep \/ StartThread \/ ClearFlags \/ StopStep)

(* The threads run, and so does an owner that waits for one that has ended. *)
Fairness ==
  WF_vars(Alive /\ CheckStep) /\ WF_vars(Alive /\ ProcStep) /\ WF_vars(Alive /\ StopStep)

Spec == Init /\ [][Next]_vars
FairSpec == Spec /\ Fairness

-----------------------------------------------------------------------------
(* Properties. *)

(* Every variable has a value of its C++ type, the threads exist once they *)
(* were started, and a client is only connected to a server that listens.  *)
TypeOK ==
  /\ checkPc \in CheckPcs /\ procPc \in ProcPcs
  /\ condCheck \in BOOLEAN /\ condProc \in BOOLEAN
  /\ mainPc \in MainPcs /\ starts \in 0..StartBound
  /\ mainPc = "new" <=> checkPc = "none"
  /\ listening \in BOOLEAN /\ conn \in Clients \cup {0} /\ eagain \in BOOLEAN
  /\ listening <=> checkPc \in {"poll", "frame"}
  /\ conn # 0 => listening
  /\ strBuf \in Seq(Unit) /\ iCnt \in Nat
  /\ qRecv \in Seq(Seq(Unit)) /\ handled \in Seq(Seq(Unit))
  /\ backlog \in Seq(Clients)
  /\ link \in [Clients -> {"new", "open", "fin", "rst"}]
  /\ stream \in [Clients -> Seq(Unit)]
  /\ sent \in [Clients -> Nat]
  /\ \A c \in Clients : sent[c] <= SendBound[c]

(* A message of the client is shorter than the buffer before its end mark  *)
(* is there.                                                               *)
Fits(c) == Pieces[c] + 1 <= BufMax

From(c, p) == \E i \in DOMAIN p : p[i][2][1] = c

(* The packets that were passed to the handler, and those that wait. *)
Packets == handled \o qRecv

(* socketserver.cpp:303: what reaches the handler of a client whose        *)
(* messages fit the buffer is its messages: each that was sent, whole,     *)
(* after the one before it, none missing and none twice, however the       *)
(* stream was cut, whoever was connected before and whenever the server is *)
(* stopped.                                                                *)
InOrder ==
  \A c \in {d \in Clients : Fits(d)} : \A i \in {j \in DOMAIN Packets : From(c, Packets[j])} :
    \E n \in 1..sent[c] :
      /\ Packets[i] = WholeBody(<<c, n>>)
      /\ \A j \in 1..(i - 1) : Packets[j] # WholeBody(<<c, n>>)
      /\ n > 1 => \E j \in 1..(i - 1) : Packets[j] = WholeBody(<<c, n - 1>>)

(* socketserver.cpp:312: a packet that does not split, and with it the end *)
(* of the daemon, takes a client whose messages are too long.              *)
GarbageOnlyFromLong ==
  \A i \in DOMAIN qRecv :
    ~Splits(qRecv[i]) => \E c \in Clients : ~Fits(c) /\ sent[c] > 0

Arrived(c, n) == \E i \in DOMAIN stream[c] : stream[c][i] = <<">", <<c, n>>, 0>>
Handled(c, n) == \E i \in DOMAIN handled : handled[i] = WholeBody(<<c, n>>)

(* A second client waits while one is connected: from then on the check    *)
(* thread only looks at the second.                                        *)
Wedged == conn # 0 /\ backlog # <<>>

(* socketserver.cpp:285-327: nothing that the connected client has sent is *)
(* lost between the kernel, the buffer, which is cut and emptied, and the  *)
(* handler, as long as no second client connects: each of its messages is  *)
(* a packet or is still under way to its end mark.                         *)
UnderWay(c, n) ==
  \E i \in DOMAIN (strBuf \o stream[c]) : (strBuf \o stream[c])[i] = <<">", <<c, n>>, 0>>
NothingLost ==
  \A c \in {d \in Clients : Fits(d)} :
    conn = c /\ link[c] = "open" /\ ~Wedged =>
      \A n \in 1..sent[c] :
        UnderWay(c, n) \/ \E i \in DOMAIN Packets : Packets[i] = WholeBody(<<c, n>>)

(* A message of the connected client that has arrived is handled, unless   *)
(* the server is stopped, a second client connects, the process ends or    *)
(* there is no proc thread.                                                *)
Heard ==
  \A c \in {d \in Clients : Fits(d)} : \A n \in 1..SendBound[c] :
    (conn = c /\ Arrived(c, n)) ~>
      (Handled(c, n) \/ Wedged \/ mainPc # "run" \/ procPc \in {"absent", "dead"})

(* socketserver.cpp:289: the server lets go of a client that has closed,   *)
(* unless errno is a stale EAGAIN.                                         *)
ClosedIsNoticed ==
  (conn # 0 /\ link[conn] # "open") ~> (conn = 0 \/ Wedged \/ eagain \/ mainPc # "run" \/ ~Alive)

(* StopThread returns when both threads were made and past setting their   *)
(* flags; one that was not sets it again (socketserver.cpp:248, 344).      *)
StopReturns ==
  ( /\ mainPc = "joinProc" /\ ~condCheck /\ ~condProc
    /\ checkPc \notin {"start", "absent"} /\ procPc \notin {"start", "absent"} )
    ~> (mainPc = "stopped" \/ ~Alive)

=============================================================================
