------------------------------ MODULE MsgFile ------------------------------
(***************************************************************************)
(* One message file of CMsgBox (tnet/msgbox.cpp) between the process that  *)
(* writes it (WriteMsgFile) and the one that reads it (ReadMsgFile).  The  *)
(* daemon is the writer of one such file and the reader of another; the    *)
(* host at the other end is taken to follow the same protocol.             *)
(*                                                                         *)
(* A file is a sequence of slots of MSG_PACKET_SIZE bytes: a header, whose *)
(* msg_no counts the messages, and the messages.  There is no lock.  stdio *)
(* buffers, so that the file changes when a buffer is flushed: a write is  *)
(* the bodies and then the header, a reset (InitMsgFile) the truncation    *)
(* and then the header.  Either process may die between two of these.      *)
(*                                                                         *)
(* A definition whose name ends in _Bug is the one after it with a mistake *)
(* that would be easy to make; the properties are tried against it.        *)
(***************************************************************************)
EXTENDS Integers, Sequences

CONSTANTS
  MsgBound,     \* how many messages are sent
  HeaderRange,  \* the values of msg_no, a uint16: 2^16
  Faults,       \* which faults may happen
  FaultBound    \* how many of them

ASSUME FileAssumption ==
  /\ MsgBound \in Nat /\ FaultBound \in Nat
  /\ HeaderRange \in Nat \ {0}
  /\ Faults \subseteq {"crash", "torn", "reset"}

VARIABLES
  exists, file,  \* the file: is it there, and its slots
  torn,          \* it ends in a piece of a slot
  sent,          \* how many messages SendMsg was called with
  qWriteMsg,     \* queue of the writer
  wpc, wbuf,     \* the writer in WriteMsgFile, and the messages it took out
  wsize,         \* the size it found, in slots
  rpc, rbuf,     \* the reader in ReadMsgFile, and the messages it found
  rsize,         \* the size it found
  got,           \* all that the reader has pushed into its qReadMsg
  stored,        \* history: the messages that ever got into the file
  during,        \* history: those whose write overlaps the read in progress
  excused,       \* history: those that may be lost, see NotLost
  faults,        \* how many faults there were
  again          \* history: the slots that were read and not removed

wvars == <<sent, qWriteMsg, wpc, wbuf, wsize>>
rvars == <<rpc, rbuf, rsize, got>>
fvars == <<exists, file, torn>>
faultvars == <<faults, again>>
vars == <<fvars, wvars, rvars, stored, during, excused, faultvars>>

(* Slots.  A header holds its count modulo the width of msg_no; a slot in  *)
(* a hole of the file reads as zeros.                                      *)
Hdr(n) == <<"hdr", n % HeaderRange>>
Msg(m) == <<"msg", m>>
Blank == Msg(0)
Slots == ({"hdr"} \X (0..(HeaderRange - 1))) \cup ({"msg"} \X (0..MsgBound))

SetOf(s) == {s[i] : i \in DOMAIN s}

(* What a reader may find in the msg_no of a slot: a message that stands   *)
(* in the place of the header has one of its own.                          *)
Counts(slot) ==
  IF slot[1] = "hdr" THEN {slot[2]} ELSE IF slot = Blank THEN {0} ELSE 0..MsgBound

(* fwrite at an offset: what lies between the end of the file and the      *)
(* offset becomes a hole.  No write here ends before the end of the file.  *)
WriteAt(f, offset, slots) ==
  [i \in 1..(offset + Len(slots)) |->
     IF i > offset THEN slots[i - offset] ELSE IF i <= Len(f) THEN f[i] ELSE Blank]

WriteHeaderAt(f, n) == IF f = <<>> THEN <<Hdr(n)>> ELSE [f EXCEPT ![1] = Hdr(n)]

Init ==
  /\ \/ exists = FALSE /\ file = <<>>
     \/ exists = TRUE /\ file = <<Hdr(0)>>
  /\ torn = FALSE
  /\ sent = 0 /\ qWriteMsg = <<>>
  /\ wpc = "idle" /\ wbuf = <<>> /\ wsize = 0
  /\ rpc = "idle" /\ rbuf = <<>> /\ rsize = 0
  /\ got = <<>>
  /\ stored = {} /\ during = {} /\ excused = {}
  /\ faults = 0 /\ again = {}

-----------------------------------------------------------------------------
(* The writer. *)

SendMsg ==
  /\ sent < MsgBound
  /\ sent' = sent + 1
  /\ qWriteMsg' = Append(qWriteMsg, sent + 1)
  /\ UNCHANGED <<fvars, wpc, wbuf, wsize, rvars, stored, during, excused, faultvars>>

(* There is no file: InitMsgFile, fopen ... *)
Create ==
  /\ wpc = "idle" /\ ~exists
  /\ exists' = TRUE
  /\ wpc' = "create"
  /\ UNCHANGED <<file, torn, sent, qWriteMsg, wbuf, wsize, rvars, stored, during, excused,
                 faultvars>>

(* ... and the header at fclose. *)
CreateHeader ==
  /\ wpc = "create"
  /\ file' = WriteHeaderAt(file, 0)
  /\ wpc' = "idle"
  /\ UNCHANGED <<exists, torn, sent, qWriteMsg, wbuf, wsize, rvars, stored, during, excused,
                 faultvars>>

(* WriteMsgFile looks at the size, gives up if it is no multiple of a slot *)
(* (-2), and takes all messages out of the queue.  From here on the write  *)
(* is in progress.                                                         *)
WriteSize ==
  /\ wpc = "idle" /\ exists
  /\ qWriteMsg # <<>>
  /\ ~torn
  /\ wsize' = Len(file)
  /\ wbuf' = qWriteMsg
  /\ qWriteMsg' = <<>>
  /\ wpc' = "bodies"
  /\ during' = during \cup (IF rpc \in {"read", "reset"} THEN SetOf(qWriteMsg) ELSE {})
  /\ excused' = excused \cup (IF rpc = "header" THEN SetOf(qWriteMsg)
                              ELSE IF file = <<>> THEN {Head(qWriteMsg)} ELSE {})
  /\ UNCHANGED <<fvars, sent, rvars, stored, faultvars>>

(* The fseek after the fwrite flushes the bodies, where the end was. *)
WriteBodies ==
  /\ wpc = "bodies"
  /\ file' = WriteAt(file, wsize, [i \in DOMAIN wbuf |-> Msg(wbuf[i])])
  /\ stored' = stored \cup SetOf(wbuf)
  /\ wpc' = "header"
  /\ UNCHANGED <<exists, torn, sent, qWriteMsg, wbuf, wsize, rvars, during, excused, faultvars>>

(* The header itself is counted. *)
WriteHeaderCount_Bug ==
  /\ wpc = "header"
  /\ file' = WriteHeaderAt(file, wsize + Len(wbuf))
  /\ wpc' = "idle" /\ wbuf' = <<>> /\ wsize' = 0
  /\ UNCHANGED <<exists, torn, sent, qWriteMsg, rvars, stored, during, excused, faultvars>>

(* The new count is added to the old one. *)
WriteHeaderAdd_Bug ==
  /\ wpc = "header"
  /\ \E n \in (IF file = <<>> THEN {0} ELSE Counts(file[1])) :
       file' = WriteHeaderAt(file, n + Len(wbuf))
  /\ wpc' = "idle" /\ wbuf' = <<>> /\ wsize' = 0
  /\ UNCHANGED <<exists, torn, sent, qWriteMsg, rvars, stored, during, excused, faultvars>>

(* The second fseek flushes the header, with the count of the old size. *)
WriteHeader ==
  /\ wpc = "header"
  /\ file' = WriteHeaderAt(file, wsize - 1 + Len(wbuf))
  /\ wpc' = "idle" /\ wbuf' = <<>> /\ wsize' = 0
  /\ UNCHANGED <<exists, torn, sent, qWriteMsg, rvars, stored, during, excused, faultvars>>

-----------------------------------------------------------------------------
(* The reader. *)

(* ReadMsgFile looks at the size: there is more than a header, and it is a *)
(* multiple of a slot.                                                     *)
ReadSize ==
  /\ rpc = "idle" /\ exists
  /\ Len(file) > 1 /\ ~torn
  /\ rsize' = Len(file)
  /\ rpc' = "read"
  /\ during' = SetOf(wbuf)
  /\ UNCHANGED <<fvars, wvars, rbuf, got, stored, excused, faultvars>>

(* The count is taken for true. *)
ReadBodies_Bug ==
  /\ rpc = "read"
  /\ LET slots == SubSeq(file, 1, rsize)
     IN  \E n \in Counts(slots[1]) :
           /\ rpc' = "reset"
           /\ rbuf' = SubSeq(slots, 2, n + 1)
           /\ UNCHANGED during
  /\ rsize' = 0
  /\ UNCHANGED <<fvars, wvars, got, stored, excused, faultvars>>

(* The file is read up to that size; if the header counts another number   *)
(* of messages it is left alone until the next time.                       *)
ReadBodies ==
  /\ rpc = "read"
  /\ LET slots == SubSeq(file, 1, rsize)
     IN  \E n \in Counts(slots[1]) :
           \/ /\ n = rsize - 1
              /\ rpc' = "reset"
              /\ rbuf' = Tail(slots)
              /\ UNCHANGED during
           \/ /\ n # rsize - 1
              /\ rpc' = "idle"
              /\ during' = {}
              /\ UNCHANGED rbuf
  /\ rsize' = 0
  /\ UNCHANGED <<fvars, wvars, got, stored, excused, faultvars>>

(* The file is not emptied. *)
ReadReset_Bug ==
  /\ rpc = "reset"
  /\ rpc' = "header"
  /\ excused' = excused \cup during
  /\ during' = {}
  /\ UNCHANGED <<fvars, wvars, rbuf, rsize, got, stored, faultvars>>

(* InitMsgFile empties it: what was written since it was read goes too. *)
ReadReset ==
  /\ rpc = "reset"
  /\ file' = <<>> /\ torn' = FALSE
  /\ rpc' = "header"
  /\ excused' = excused \cup during
  /\ during' = {}
  /\ UNCHANGED <<exists, wvars, rbuf, rsize, got, stored, faultvars>>

ReadHeader ==
  /\ rpc = "header"
  /\ file' = WriteHeaderAt(file, 0)
  /\ rpc' = "push"
  /\ UNCHANGED <<exists, torn, wvars, rbuf, rsize, got, stored, during, excused, faultvars>>

PushRead ==
  /\ rpc = "push"
  /\ got' = got \o rbuf
  /\ rpc' = "idle" /\ rbuf' = <<>>
  /\ UNCHANGED <<fvars, wvars, rsize, stored, during, excused, faultvars>>

-----------------------------------------------------------------------------
(* Faults.  A process that died is started again with empty queues.        *)

Fault(kind) ==
  /\ kind \in Faults /\ faults < FaultBound
  /\ faults' = faults + 1

WriterCrash ==
  /\ Fault("crash")
  /\ wpc' = "idle" /\ qWriteMsg' = <<>> /\ wbuf' = <<>> /\ wsize' = 0
  /\ UNCHANGED <<fvars, sent, rvars, stored, during, excused, again>>

(* It dies in the middle of the write: some messages, and a piece of one,  *)
(* which leaves a torn end unless it falls on a header.                    *)
TornWrite ==
  /\ Fault("torn") /\ wpc = "bodies"
  /\ \E k \in 0..(Len(wbuf) - 1) :
       LET onto == wsize + k < Len(file)
           n == IF onto THEN k + 1 ELSE k
       IN  /\ file' = WriteAt(file, wsize, [i \in 1..n |-> Msg(wbuf[i])])
           /\ torn' = ~onto
           /\ stored' = stored \cup {wbuf[i] : i \in 1..k}
  /\ wpc' = "idle" /\ qWriteMsg' = <<>> /\ wbuf' = <<>> /\ wsize' = 0
  /\ UNCHANGED <<exists, sent, rvars, during, excused, again>>

(* What the reader has taken out of the file and not pushed dies with it.  *)
ReaderCrash ==
  /\ Fault("crash")
  /\ excused' = excused \cup {m \in 1..MsgBound :
                               rpc \in {"header", "push"} /\ Msg(m) \in SetOf(rbuf)}
  /\ during' = {}
  /\ rpc' = "idle" /\ rbuf' = <<>> /\ rsize' = 0
  /\ UNCHANGED <<fvars, wvars, got, stored, again>>

(* InitMsgFile cannot open the file; its result is not looked at, and what *)
(* was read is still there.                                                *)
ResetFails ==
  /\ Fault("reset") /\ rpc = "reset"
  /\ rpc' = "push"
  /\ during' = {}
  /\ again' = again \cup SetOf(rbuf)
  /\ UNCHANGED <<fvars, wvars, rbuf, rsize, got, stored, excused>>

-----------------------------------------------------------------------------
WriterStep == Create \/ CreateHeader \/ WriteSize \/ WriteBodies \/ WriteHeader
ReaderStep == ReadSize \/ ReadBodies \/ ReadReset \/ ReadHeader \/ PushRead

Next ==
  \/ SendMsg \/ WriterStep \/ ReaderStep
  \/ WriterCrash \/ TornWrite \/ ReaderCrash \/ ResetFails

Spec == Init /\ [][Next]_vars

(* Both file threads come back every 100 ms. *)
FairSpec == Spec /\ WF_vars(WriterStep) /\ WF_vars(ReaderStep)

-----------------------------------------------------------------------------
(* Properties. *)

(* Every variable has a value of its C++ type; a write or a read has its   *)
(* messages in hand as long as it lasts.                                   *)
TypeOK ==
  /\ exists \in BOOLEAN /\ torn \in BOOLEAN
  /\ file \in Seq(Slots)
  /\ sent \in 0..MsgBound /\ qWriteMsg \in Seq(1..MsgBound)
  /\ wpc \in {"idle", "create", "bodies", "header"}
  /\ wbuf \in Seq(1..MsgBound) /\ wsize \in Nat
  /\ (wbuf # <<>>) <=> (wpc \in {"bodies", "header"})
  /\ rpc \in {"idle", "read", "reset", "header", "push"}
  /\ rbuf \in Seq(Slots) /\ rsize \in Nat
  /\ (rbuf # <<>>) <=> (rpc \in {"reset", "header", "push"})
  /\ got \in Seq(Slots)
  /\ stored \subseteq 1..MsgBound /\ during \subseteq 1..MsgBound
  /\ excused \subseteq 1..MsgBound
  /\ faults \in 0..FaultBound /\ again \subseteq Slots

(* The only ways a message that is in the file can get lost: its write     *)
(* overlapped a read that emptied the file; it was written first into an   *)
(* empty file, where the header goes; or the reader died with it in hand.  *)
NotLost ==
  \A m \in stored \ excused : Msg(m) \in SetOf(file) \cup SetOf(rbuf) \cup SetOf(got)

(* Whatever overlaps and whoever dies, the messages that are read are read *)
(* once and in the order they were sent, but for those that were read when *)
(* the file could not be emptied.                                          *)
InOrderOnce ==
  \A i, j \in DOMAIN got :
    i < j /\ got[i] # Blank /\ got[j] # Blank => got[i][2] < got[j][2] \/ got[j] \in again

(* The header counts the messages. *)
Consistent == file # <<>> /\ file[1] = Hdr(Len(file) - 1)

(* A write that no read disturbs leaves a file that can be read, also when *)
(* an earlier write died before its header: the count is taken from the    *)
(* size.                                                                   *)
WriteRepairs ==
  [][wpc = "header" /\ wpc' = "idle" /\ faults' = faults /\ SetOf(wbuf) \cap excused = {}
       => Consistent']_vars

(* Without faults every message in the file is read, unless a read emptied *)
(* the file while it was being written, or the file has grown longer than  *)
(* msg_no can count.                                                       *)
Arrives ==
  \A m \in 1..MsgBound :
    m \in stored ~> \/ Msg(m) \in SetOf(got) \/ m \in excused
                   \/ faults > 0 \/ Len(file) > HeaderRange

=============================================================================
