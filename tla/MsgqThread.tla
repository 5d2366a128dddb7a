----------------------------- MODULE MsgqThread -----------------------------
(***************************************************************************)
(* CMsgqThread (tnet/msgqthread.cpp), the bridge between the message files *)
(* shared with the host and the System V queue of the daemon, on top of    *)
(* the two queues of CMsgBox (tnet/msgbox.cpp).                            *)
(*                                                                         *)
(*   scripts, handlers --SEND--> kernel queue --check--> qWriteMsg --file--> host *)
(*   host --file--> qReadMsg --check--> kernel queue --RECV--> proc        *)
(*                                                                         *)
(* One kernel queue carries both types, in one bound of bytes: all         *)
(* messages have the same size, so QCap counts messages.  msgsnd blocks    *)
(* when it is full; msgrcv never blocks and takes the oldest message of    *)
(* its type, hence the two sequences sendq and recvq.  The file thread is  *)
(* taken at the grain of one whole file operation, and the files are never *)
(* in error: module MsgFile opens that part.                               *)
(*                                                                         *)
(* A definition whose name ends in _Bug is the one after it with a mistake *)
(* that would be easy to make; the properties are tried against it.        *)
(***************************************************************************)
EXTENDS Naturals, Sequences

CONSTANTS
  Senders,      \* processes and threads that push SEND messages
  SendBound,    \* how many messages each of them pushes
  HostBound,    \* how many messages the host writes
  ReplyBound,   \* how many messages a handled host message makes at most
  QCap          \* how many messages the kernel queue holds

ASSUME BoundsAssumption ==
  /\ SendBound \in Nat /\ HostBound \in Nat /\ ReplyBound \in Nat
  /\ QCap \in Nat \ {0}

VARIABLES
  sendq, recvq,          \* the kernel queue, by message type
  qWriteMsg, qReadMsg,   \* the queues of CMsgBox
  pushed,                \* how many messages each sender has pushed
  hostSent,              \* how many messages the host has written
  hostRead,              \* how many of them were read from the file
  checkPc, checkMsg,     \* MsgqCheckThread, and the message it pushes
  procPc, replies,       \* MsgqProcThread, and the replies left to push
  filePc,                \* the file thread of CMsgBox
  cond, condThread,      \* condCheckThread = condProcThread; CMsgBox::condThread
  mainPc,                \* the caller of StopThread
  written,               \* the SEND messages in the host's file, in order
  handled                \* the RECV messages passed to ProcFunc, in order

kqvars == <<sendq, recvq>>
boxvars == <<qWriteMsg, qReadMsg>>
hostvars == <<pushed, hostSent, hostRead>>
checkvars == <<checkPc, checkMsg>>
procvars == <<procPc, replies>>
condvars == <<cond, condThread, mainPc>>
outvars == <<written, handled>>
vars == <<kqvars, boxvars, hostvars, checkvars, procvars, filePc, condvars, outvars>>

(* A SEND message is named by its sender and number, or as the answer to a *)
(* host message.                                                           *)
Sent == (Senders \X Nat) \cup ({"proc"} \X Nat \X Nat)

CheckPcs == {"loop", "recv", "push", "exit"}
ProcPcs == {"loop", "reply", "exit"}
FilePcs == {"loop", "read", "exit"}
MainPcs == {"run", "joinCheck", "joinProc", "joinFile", "stopped"}

(* CurNumMsgq of the kernel queue is below its bound: msgsnd goes through. *)
HasRoom == Len(sendq) + Len(recvq) < QCap

Init ==
  /\ sendq = <<>> /\ recvq = <<>>
  /\ qWriteMsg = <<>> /\ qReadMsg = <<>>
  /\ pushed = [s \in Senders |-> 0]
  /\ hostSent = 0 /\ hostRead = 0
  /\ checkPc = "loop" /\ checkMsg = 0
  /\ procPc = "loop" /\ replies = 0
  /\ filePc = "loop"
  /\ cond = TRUE /\ condThread = TRUE
  /\ mainPc = "run"
  /\ written = <<>> /\ handled = <<>>

-----------------------------------------------------------------------------
(* The ends: senders and host. *)

(* SendMsg of a script, a handler or main: PushMsgq with msgflg 0. *)
SendMsg(s) ==
  /\ pushed[s] < SendBound
  /\ HasRoom
  /\ sendq' = Append(sendq, <<s, pushed[s] + 1>>)
  /\ pushed' = [pushed EXCEPT ![s] = @ + 1]
  /\ UNCHANGED <<recvq, boxvars, hostSent, hostRead, checkvars, procvars, filePc, condvars,
                 outvars>>

(* The host adds a message to the file the daemon reads. *)
HostWrite ==
  /\ hostSent < HostBound
  /\ hostSent' = hostSent + 1
  /\ UNCHANGED <<kqvars, boxvars, pushed, hostRead, checkvars, procvars, filePc, condvars,
                 outvars>>

-----------------------------------------------------------------------------
(* MsgqCheckThread. *)

CheckExit ==
  /\ checkPc = "loop" /\ ~cond
  /\ checkPc' = "exit"
  /\ UNCHANGED <<kqvars, boxvars, hostvars, checkMsg, procvars, filePc, condvars, outvars>>

(* CurNumMsgq > 1 in place of > 0. *)
PassSendCount_Bug ==
  /\ checkPc = "loop" /\ cond
  /\ checkPc' = "recv"
  /\ IF Len(sendq) + Len(recvq) > 1 /\ sendq # <<>>
     THEN /\ sendq' = Tail(sendq)
          /\ qWriteMsg' = Append(qWriteMsg, Head(sendq))
     ELSE UNCHANGED <<sendq, qWriteMsg>>
  /\ UNCHANGED <<recvq, qReadMsg, hostvars, checkMsg, procvars, filePc, condvars, outvars>>

(* One SEND message, if there is one, goes on to qWriteMsg. *)
PassSend ==
  /\ checkPc = "loop" /\ cond
  /\ checkPc' = "recv"
  /\ IF sendq # <<>>
     THEN /\ sendq' = Tail(sendq)
          /\ qWriteMsg' = Append(qWriteMsg, Head(sendq))
     ELSE UNCHANGED <<sendq, qWriteMsg>>
  /\ UNCHANGED <<recvq, qReadMsg, hostvars, checkMsg, procvars, filePc, condvars, outvars>>

(* front without pop. *)
TakeRecv_Bug ==
  /\ checkPc = "recv"
  /\ IF qReadMsg # <<>>
     THEN /\ checkMsg' = Head(qReadMsg)
          /\ checkPc' = "push"
     ELSE /\ checkPc' = "loop"
          /\ UNCHANGED checkMsg
  /\ UNCHANGED <<kqvars, boxvars, hostvars, procvars, filePc, condvars, outvars>>

(* CMsgBox::RecvMsg: one message is taken out of qReadMsg, or none is. *)
TakeRecv ==
  /\ checkPc = "recv"
  /\ IF qReadMsg # <<>>
     THEN /\ checkMsg' = Head(qReadMsg)
          /\ qReadMsg' = Tail(qReadMsg)
          /\ checkPc' = "push"
     ELSE /\ checkPc' = "loop"
          /\ UNCHANGED <<checkMsg, qReadMsg>>
  /\ UNCHANGED <<kqvars, qWriteMsg, hostvars, procvars, filePc, condvars, outvars>>

(* It is pushed as RECV; the thread blocks in here while the queue is full. *)
PushRecv ==
  /\ checkPc = "push"
  /\ HasRoom
  /\ recvq' = Append(recvq, checkMsg)
  /\ checkPc' = "loop" /\ checkMsg' = 0
  /\ UNCHANGED <<sendq, boxvars, hostvars, procvars, filePc, condvars, outvars>>

CheckStep == CheckExit \/ PassSend \/ TakeRecv \/ PushRecv

-----------------------------------------------------------------------------
(* MsgqProcThread. *)

ProcExit ==
  /\ procPc = "loop" /\ ~cond
  /\ procPc' = "exit"
  /\ UNCHANGED <<kqvars, boxvars, hostvars, checkvars, replies, filePc, condvars, outvars>>

(* CurNumMsgq > 1 in place of > 0. *)
ProcMsg_Bug ==
  /\ procPc = "loop" /\ cond
  /\ Len(sendq) + Len(recvq) > 1 /\ recvq # <<>>
  /\ recvq' = Tail(recvq)
  /\ handled' = Append(handled, Head(recvq))
  /\ replies' \in 0..ReplyBound
  /\ procPc' = "reply"
  /\ UNCHANGED <<sendq, boxvars, hostvars, checkvars, filePc, condvars, written>>

(* One RECV message goes to ProcFunc, which may answer it. *)
ProcMsg ==
  /\ procPc = "loop" /\ cond
  /\ recvq # <<>>
  /\ recvq' = Tail(recvq)
  /\ handled' = Append(handled, Head(recvq))
  /\ replies' \in 0..ReplyBound
  /\ procPc' = "reply"
  /\ UNCHANGED <<sendq, boxvars, hostvars, checkvars, filePc, condvars, written>>

(* ProcFunc pushes its answers, blocking while the queue is full. *)
Reply ==
  /\ procPc = "reply" /\ replies > 0
  /\ HasRoom
  /\ sendq' = Append(sendq, <<"proc", Len(handled), replies>>)
  /\ replies' = replies - 1
  /\ UNCHANGED <<recvq, boxvars, hostvars, checkvars, procPc, filePc, condvars, outvars>>

ProcReturn ==
  /\ procPc = "reply" /\ replies = 0
  /\ procPc' = "loop"
  /\ UNCHANGED <<kqvars, boxvars, hostvars, checkvars, replies, filePc, condvars, outvars>>

ProcStep == ProcExit \/ ProcMsg \/ Reply \/ ProcReturn

-----------------------------------------------------------------------------
(* The file thread of CMsgBox. *)

FileExit ==
  /\ filePc = "loop" /\ ~condThread
  /\ filePc' = "exit"
  /\ UNCHANGED <<kqvars, boxvars, hostvars, checkvars, procvars, condvars, outvars>>

(* The queue is read and not popped. *)
FileWrite_Bug ==
  /\ filePc = "loop" /\ condThread
  /\ written' = written \o qWriteMsg
  /\ filePc' = "read"
  /\ UNCHANGED <<kqvars, boxvars, hostvars, checkvars, procvars, condvars, handled>>

(* WriteMsgFile: all messages queued go to the file. *)
FileWrite ==
  /\ filePc = "loop" /\ condThread
  /\ written' = written \o qWriteMsg
  /\ qWriteMsg' = <<>>
  /\ filePc' = "read"
  /\ UNCHANGED <<kqvars, qReadMsg, hostvars, checkvars, procvars, condvars, handled>>

(* ReadMsgFile: all messages in the file are queued and the file emptied. *)
FileRead ==
  /\ filePc = "read"
  /\ qReadMsg' = qReadMsg \o [i \in 1..(hostSent - hostRead) |-> hostRead + i]
  /\ hostRead' = hostSent
  /\ filePc' = "loop"
  /\ UNCHANGED <<kqvars, qWriteMsg, pushed, hostSent, checkvars, procvars, condvars, outvars>>

FileStep == FileExit \/ FileWrite \/ FileRead

-----------------------------------------------------------------------------
(* StopThread. *)

ClearFlags ==
  /\ mainPc = "run"
  /\ cond' = FALSE
  /\ mainPc' = "joinCheck"
  /\ UNCHANGED <<kqvars, boxvars, hostvars, checkvars, procvars, filePc, condThread, outvars>>

JoinCheck ==
  /\ mainPc = "joinCheck" /\ checkPc = "exit"
  /\ mainPc' = "joinProc"
  /\ UNCHANGED <<kqvars, boxvars, hostvars, checkvars, procvars, filePc, cond, condThread,
                 outvars>>

(* The flag of the file thread stays set. *)
JoinProc_Bug ==
  /\ mainPc = "joinProc" /\ procPc = "exit"
  /\ mainPc' = "joinFile"
  /\ UNCHANGED <<kqvars, boxvars, hostvars, checkvars, procvars, filePc, cond, condThread,
                 outvars>>

(* Then CMsgBox::StopThread clears the flag of the file thread. *)
JoinProc ==
  /\ mainPc = "joinProc" /\ procPc = "exit"
  /\ condThread' = FALSE
  /\ mainPc' = "joinFile"
  /\ UNCHANGED <<kqvars, boxvars, hostvars, checkvars, procvars, filePc, cond, outvars>>

(* The file thread is joined and InitMsg empties both queues of CMsgBox. *)
JoinFile ==
  /\ mainPc = "joinFile" /\ filePc = "exit"
  /\ qWriteMsg' = <<>> /\ qReadMsg' = <<>>
  /\ mainPc' = "stopped"
  /\ UNCHANGED <<kqvars, hostvars, checkvars, procvars, filePc, cond, condThread, outvars>>

StopStep == JoinCheck \/ JoinProc \/ JoinFile

-----------------------------------------------------------------------------
Next ==
  \/ \E s \in Senders : SendMsg(s)
  \/ HostWrite
  \/ CheckStep \/ ProcStep \/ FileStep
  \/ ClearFlags \/ StopStep

(* Every thread that can run does, and so does a sender when there is room. *)
Fairness ==
  /\ \A s \in Senders : WF_vars(SendMsg(s))
  /\ WF_vars(CheckStep) /\ WF_vars(ProcStep) /\ WF_vars(FileStep) /\ WF_vars(StopStep)

Spec == Init /\ [][Next]_vars
FairSpec == Spec /\ Fairness

-----------------------------------------------------------------------------
(* Properties. *)

(* Every variable has a value of its C++ type; the kernel queue keeps to   *)
(* its bound.                                                              *)
TypeOK ==
  /\ sendq \in Seq(Sent) /\ recvq \in Seq(1..HostBound)
  /\ qWriteMsg \in Seq(Sent) /\ qReadMsg \in Seq(1..HostBound)
  /\ Len(sendq) + Len(recvq) <= QCap
  /\ pushed \in [Senders -> 0..SendBound]
  /\ hostSent \in 0..HostBound /\ hostRead \in 0..hostSent
  /\ checkPc \in CheckPcs /\ checkMsg \in 0..HostBound
  /\ checkPc = "push" => checkMsg \in 1..HostBound
  /\ procPc \in ProcPcs /\ replies \in 0..ReplyBound
  /\ filePc \in FilePcs
  /\ cond \in BOOLEAN /\ condThread \in BOOLEAN
  /\ mainPc \in MainPcs
  /\ written \in Seq(Sent) /\ handled \in Seq(1..HostBound)

(* The message the check thread has taken from qReadMsg and not yet pushed. *)
InHand == IF checkPc = "push" THEN <<checkMsg>> ELSE <<>>

(* Each direction is a channel: first in first out, nothing lost and       *)
(* nothing twice until StopThread has emptied the queues of CMsgBox.       *)
SendChannel == INSTANCE Channel
  WITH inFlight <- qWriteMsg \o sendq, delivered <- written, open <- mainPc # "stopped"
RecvChannel == INSTANCE Channel
  WITH inFlight <- recvq \o InHand \o qReadMsg, delivered <- handled, open <- mainPc # "stopped"

SendIsChannel == SendChannel!Spec
RecvIsChannel == RecvChannel!Spec

InFile(m) == \E i \in DOMAIN written : written[i] = m
IsHandled(n) == \E i \in DOMAIN handled : handled[i] = n

(* msgqthread.cpp: "pop send msg in MSGQ and pass to MsgBox": a message    *)
(* pushed as SEND gets into the file, unless the bridge is stopped.        *)
SendsArrive ==
  \A s \in Senders : \A n \in 1..SendBound :
    (pushed[s] >= n) ~> (InFile(<<s, n>>) \/ ~cond)

(* The queue is full, nobody will make room in it, and a thread of the     *)
(* bridge is blocked in a push: the check thread, which takes the SEND     *)
(* messages, while no RECV message will be taken either (there is none, or *)
(* the proc thread has ended or waits to push an answer), or the proc      *)
(* thread, once the check thread has ended.                                *)
Jammed ==
  LET answering == procPc = "reply" /\ replies > 0
  IN  /\ ~HasRoom
      /\ \/ checkPc = "push" /\ (recvq = <<>> \/ procPc = "exit" \/ answering)
         \/ checkPc = "exit" /\ answering

(* Jammed is the only way to lose: otherwise every message pushed gets     *)
(* into the file,                                                          *)
SendsArriveUnlessJammed ==
  \A s \in Senders :
    (pushed[s] = SendBound) ~> (InFile(<<s, SendBound>>) \/ ~cond \/ Jammed)

(* and every message the host wrote is handled, *)
HostMsgsHandled ==
  (hostSent = HostBound) ~> (IsHandled(HostBound) \/ ~cond \/ Jammed)

(* and StopThread gets through its joins. *)
StopReturns == (mainPc = "joinCheck") ~> (mainPc = "stopped" \/ Jammed)

=============================================================================
