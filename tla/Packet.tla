------------------------------- MODULE Packet -------------------------------
(***************************************************************************)
(* The packets of the socket server and the socket client: a message goes  *)
(* over the stream as                                                      *)
(*                                                                         *)
(*     <version,cell,port,msg_no,packet,flag,string>                       *)
(*                                                                         *)
(* The stream is a sequence of units <<kind, message, number>>: a start    *)
(* mark "<", an end mark ">", the header with its six commas ",", or a     *)
(* piece of the string ".".                                                *)
(***************************************************************************)
EXTENDS Integers, Sequences

CONSTANT BufMax     \* SOCKET_MAX_BUF_SIZE in units

ASSUME BufMaxAssumption == BufMax \in Nat

Kinds == {"<", ">", ",", "."}

(* What is between the marks of a message of n pieces, and the whole of it. *)
Body(m, n) == [i \in 1..n |-> <<IF i = 1 THEN "," ELSE ".", m, i>>]
Wire(m, n) == <<<<"<", m, 0>>>> \o Body(m, n) \o <<<<">", m, 0>>>>

(* string::find, from 1; 0 is npos. *)
Find(buf, kind) ==
  LET at == {i \in DOMAIN buf : buf[i][1] = kind}
  IN  IF at = {} THEN 0 ELSE CHOOSE i \in at : \A j \in at : i <= j

Erase(buf, n) == SubSeq(buf, n + 1, Len(buf))

(* StripMark: what it returns, and strData when that is positive.  An end  *)
(* mark before the start mark takes what is before it, without its first   *)
(* character; an end mark that comes first takes the rest of the buffer,   *)
(* since substr(1, -1) does.                                               *)
StripMark(buf) ==
  IF Find(buf, "<") = 0 THEN -1 ELSE Find(buf, ">")
StripData(buf) ==
  LET s == Find(buf, "<")
      e == Find(buf, ">")
  IN  CASE s < e -> SubSeq(buf, s + 1, e - 1)
        [] s > e /\ e > 1 -> SubSeq(buf, 2, e - 1)
        [] OTHER -> Tail(buf)

(* A buffer that is just full is cut. *)
Overflow_Bug(buf) ==
  IF Len(buf) < BufMax THEN buf
  ELSE IF Find(buf, ">") = 0 THEN <<>> ELSE Erase(buf, Find(buf, ">"))

(* A buffer over its bound in which no packet was found is cut after its   *)
(* first end mark, or emptied.                                             *)
Overflow(buf) ==
  IF Len(buf) <= BufMax THEN buf
  ELSE IF Find(buf, ">") = 0 THEN <<>> ELSE Erase(buf, Find(buf, ">"))

(* DataSplit fills the packet only when it finds six commas. *)
Splits(data) == Find(data, ",") # 0

=============================================================================
