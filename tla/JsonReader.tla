----------------------------- MODULE JsonReader -----------------------------
(* Json::Reader: the recursive-descent parser of jsoncpp.cpp as a machine. *)
(* The call stack of readValue, readObject and readArray is nodes_, with   *)
(* the locals each call keeps; mode is the place the top call has reached. *)
(* A document is a sequence of tokens, << kind, what it holds >>, which    *)
(* comes in while it is read; the scanning of a token's characters is left *)
(* out, but a token that does not scan (tokenError), a string that does    *)
(* not decode and a numeral no double holds are tokens like the others.    *)
(* Comments are skipped where the code skips them and not kept.            *)
EXTENDS JsonValue

CONSTANT StackLimit         \* stackLimit_g: 1000 in the build

VARIABLES
    doc,        \* the tokens of the document so far
    ended,      \* no token comes after them
    current,    \* current_: how many of them are read
    nodes,      \* nodes_: [val, key, name]: the value being read, its place in
                \* the one below it, and readObject's name
    mode,       \* what is to be read next
    skipTo,     \* recoverFromError's skipUntilToken
    successful, \* what the last read returned
    errors      \* errors_: how many

rvars == << doc, ended, current, nodes, mode, skipTo, successful, errors >>

Modes == {"idle", "value", "first", "member", "colon", "after", "comma",
          "recover", "return", "parsed", "overflow"}

Node(v, k) == [val |-> v, key |-> k, name |-> << >>]

-----------------------------------------------------------------------------
(* Tokens.                                                                 *)

Mark(kind) == << kind, << >> >>
EndOfStream == Mark("end")

(* readToken can say what comes next: a token is there, or none will be.   *)
Readable == current < Len(doc) \/ ended
Token == IF current < Len(doc) THEN doc[current + 1] ELSE EndOfStream
Kind == Token[1]
Past == IF current < Len(doc) THEN current + 1 ELSE current

At(m) == mode = m /\ Readable

top == nodes[Len(nodes)]
Top(node) == [nodes EXCEPT ![Len(nodes)] = node]
EndOf(v) == IF type_(v) = "array" THEN "]" ELSE "}"

-----------------------------------------------------------------------------
Init ==
    /\ doc = << >> /\ ended = FALSE
    /\ current = 0 /\ nodes = << >> /\ mode = "idle" /\ skipTo = "end"
    /\ successful = FALSE /\ errors = 0

(* parse(document, root).                                                  *)
Parse ==
    /\ mode = "idle"
    /\ current' = 0 /\ errors' = 0 /\ nodes' = << Node(Null, 0) >>
    /\ mode' = "value"
    /\ UNCHANGED << doc, ended, skipTo, successful >>

Return(ok) == mode' = "return" /\ successful' = ok /\ UNCHANGED skipTo

(* addErrorAndRecover.                                                     *)
Recover(kind) ==
    /\ mode' = "recover" /\ skipTo' = kind
    /\ UNCHANGED successful

Fail == errors' = errors + 1

(* A comment where readValue, readObject or readArray looks past it.  The  *)
(* object's loop after a member forgets what it was looking for.           *)
SkipComment ==
    /\ mode \in {"value", "member", "after", "comma"} /\ Readable
    /\ Kind = "comment"
    /\ mode = "value" => Len(nodes) <= StackLimit
    /\ current' = Past
    /\ mode' = IF mode = "after" /\ type_(top.val) = "object" THEN "comma"
               ELSE mode
    /\ UNCHANGED << doc, ended, nodes, skipTo, successful, errors >>

(* readValue: throwRuntimeError.                                           *)
StackOverflow ==
    /\ mode = "value" /\ Len(nodes) > StackLimit
    /\ mode' = "overflow"
    /\ UNCHANGED << doc, ended, current, nodes, skipTo, successful, errors >>

(* readValue on a value that is one token.  The old value of a repeated    *)
(* name stays when there is nothing to replace it.                         *)
Decoded1 ==
    CASE Kind = "number" -> decodeNumber(Token[2])
      [] Kind = "string" ->
             LET d == decodeString(Token[2])
             IN  [ok |-> d.ok, v |-> << "string", d.s >>]
      [] Kind \in {"true", "false"} ->
             [ok |-> TRUE, v |-> << "bool", Kind = "true" >>]
      [] Kind = "null" -> [ok |-> TRUE, v |-> Null]
      [] OTHER -> [ok |-> FALSE, v |-> Null]

ReadScalar ==
    /\ At("value") /\ Len(nodes) <= StackLimit
    /\ Kind \notin {"comment", "{", "["}
    /\ current' = Past
    /\ Return(Decoded1.ok)
    /\ IF Decoded1.ok
       THEN /\ nodes' = Top([top EXCEPT !.val = Decoded1.v])
            /\ UNCHANGED errors
       ELSE Fail /\ UNCHANGED nodes
    /\ UNCHANGED << doc, ended >>

(* readValue into readObject or readArray.                                 *)
ReadBegin ==
    /\ At("value") /\ Len(nodes) <= StackLimit
    /\ Kind \in {"{", "["}
    /\ current' = Past
    /\ nodes' = Top([top EXCEPT !.name = << >>,
                                !.val = IF Kind = "{" THEN EmptyObject
                                                      ELSE EmptyArray])
    /\ mode' = IF Kind = "{" THEN "member" ELSE "first"
    /\ UNCHANGED << doc, ended, skipTo, successful, errors >>

(* The call of readValue for the element or member at k.                   *)
ReadChild(parent, k) ==
    LET old == IF k \in DOMAIN value_(parent.val) THEN value_(parent.val)[k]
               ELSE Null
    IN  nodes' = Append(Top(parent), Node(old, k)) /\ mode' = "value"

(* readArray looks at one character for the empty array: a comment there   *)
(* is not looked past.                                                     *)
FirstElement ==
    /\ At("first")
    /\ IF Kind = "]"
       THEN current' = Past /\ Return(TRUE) /\ UNCHANGED nodes
       ELSE /\ ReadChild(top, 0)
            /\ UNCHANGED << current, skipTo, successful >>
    /\ UNCHANGED << doc, ended, errors >>

(* Mutant: an object may end wherever a name may stand.                    *)
ReadName_Bug ==
    /\ At("member") /\ Kind # "comment"
    /\ current' = Past
    /\ IF Kind = "}"
       THEN Return(TRUE) /\ UNCHANGED << nodes, errors >>
       ELSE LET d == IF Kind = "string" THEN decodeString(Token[2])
                     ELSE Undecoded
            IN  IF d.ok
                THEN /\ nodes' = Top([top EXCEPT !.name = d.s])
                     /\ mode' = "colon"
                     /\ UNCHANGED << skipTo, successful, errors >>
                ELSE Fail /\ Recover("}") /\ UNCHANGED nodes
    /\ UNCHANGED << doc, ended >>

(* readObject: the name of the next member, or the end of the object while *)
(* the last name was empty.                                                *)
ReadName ==
    /\ At("member") /\ Kind # "comment"
    /\ current' = Past
    /\ IF Kind = "}" /\ top.name = << >>
       THEN Return(TRUE) /\ UNCHANGED << nodes, errors >>
       ELSE LET d == IF Kind = "string" THEN decodeString(Token[2])
                     ELSE Undecoded
            IN  IF d.ok
                THEN /\ nodes' = Top([top EXCEPT !.name = d.s])
                     /\ mode' = "colon"
                     /\ UNCHANGED << skipTo, successful, errors >>
                ELSE Fail /\ Recover("}") /\ UNCHANGED nodes
    /\ UNCHANGED << doc, ended >>

ReadColon ==
    /\ At("colon")
    /\ current' = Past
    /\ IF Kind = ":"
       THEN /\ ReadChild(top, top.name)
            /\ UNCHANGED << skipTo, successful, errors >>
       ELSE Fail /\ Recover("}") /\ UNCHANGED nodes
    /\ UNCHANGED << doc, ended >>

(* readValue returns to the call that pushed its node: the value is in its *)
(* place, and a failure is passed on after a recovery.                     *)
ReturnChild ==
    /\ mode = "return" /\ Len(nodes) > 1
    /\ LET parent == nodes[Len(nodes) - 1]
           held == << type_(parent.val),
                      Put(value_(parent.val), top.key, top.val) >>
       IN  /\ nodes' = Append(SubSeq(nodes, 1, Len(nodes) - 2),
                              [parent EXCEPT !.val = held])
           /\ IF successful
              THEN mode' = "after" /\ UNCHANGED << skipTo, successful >>
              ELSE Recover(EndOf(parent.val))
    /\ UNCHANGED << doc, ended, current, errors >>

(* After an element or a member.                                           *)
ReadSeparator ==
    /\ At("after") /\ Kind # "comment"
    /\ current' = Past
    /\ CASE Kind = EndOf(top.val) ->
                Return(TRUE) /\ UNCHANGED << nodes, errors >>
         [] Kind = "," /\ type_(top.val) = "array" ->
                /\ ReadChild(top, size(top.val))
                /\ UNCHANGED << skipTo, successful, errors >>
         [] Kind = "," /\ type_(top.val) = "object" ->
                /\ mode' = "member"
                /\ UNCHANGED << nodes, skipTo, successful, errors >>
         [] OTHER -> Fail /\ Recover(EndOf(top.val)) /\ UNCHANGED nodes
    /\ UNCHANGED << doc, ended >>

(* After a member and a comment any token but the end of the object is     *)
(* taken for its comma.                                                    *)
ReadAfterComment ==
    /\ At("comma") /\ Kind # "comment"
    /\ current' = Past
    /\ IF Kind = "}" THEN Return(TRUE)
       ELSE mode' = "member" /\ UNCHANGED << skipTo, successful >>
    /\ UNCHANGED << doc, ended, nodes, errors >>

(* recoverFromError: one turn of its loop.                                 *)
SkipToken ==
    /\ At("recover")
    /\ current' = Past
    /\ IF Kind \in {skipTo, "end"} THEN Return(FALSE)
       ELSE UNCHANGED << mode, skipTo, successful >>
    /\ UNCHANGED << doc, ended, nodes, errors >>

(* parse returns what readValue returned; what follows is not looked at.   *)
ReturnRoot ==
    /\ mode = "return" /\ Len(nodes) = 1
    /\ mode' = "parsed"
    /\ UNCHANGED << doc, ended, current, nodes, skipTo, successful, errors >>

Read ==
    \/ SkipComment \/ StackOverflow \/ ReadScalar \/ ReadBegin
    \/ FirstElement \/ ReadName \/ ReadColon \/ ReturnChild
    \/ ReadSeparator \/ ReadAfterComment \/ SkipToken \/ ReturnRoot

root == nodes[1].val
=============================================================================
