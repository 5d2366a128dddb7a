------------------------------ MODULE JsonDoc -------------------------------
(* What the debug menu's test_json does with JsonCpp, for other values     *)
(* than its own: a value is built member by member, written by one of the  *)
(* writers and read back - or a document comes from elsewhere and is read. *)
(* Composes JsonValue, JsonWriter and JsonReader.                          *)
EXTENDS JsonReader, JsonWriter
LOCAL INSTANCE SequencesExt

CONSTANTS
    Leaves,         \* the values a value may be made of in one piece
    Parts,          \* the values put into arrays and objects
    Names,          \* the names of members
    Indexes,        \* the indexes and sizes used on arrays
    OpBound,        \* how many operations build a value
    Alphabet,       \* the tokens of a document from elsewhere
    Starts,         \* what such a document may start with
    TokenBound,     \* how many tokens may follow that
    ErrorBound      \* and how many if there is an error in them

VARIABLES
    value,          \* the value being built
    ops,            \* how many operations built it
    threw,          \* a JSON_ASSERT of one of them did not hold
    source,         \* where the document comes from
    room            \* how many tokens of it may still come

dvars == << value, ops, threw, source, room >>
vars == << dvars, rvars >>

DocInit ==
    /\ Init
    /\ value = Null /\ ops = 0 /\ threw = FALSE /\ source = "none"
    /\ room = 0

Building == mode = "idle" /\ source = "none" /\ ~threw

Do(result) ==
    /\ Building /\ ops < OpBound
    /\ value' = result.v /\ threw' = result.threw
    /\ ops' = ops + 1
    /\ UNCHANGED << source, room, rvars >>

Assign(x) == Do(Gives(x))
SetMember(name, x) == Do(setMember(value, name, x))
RemoveMember(name) == Do(removeMember(value, name))
SetIndex(i, x) == Do(setIndex(value, i, x))
AppendValue(x) == Do(append(value, x))
Resize(n) == Do(resize(value, n))
RemoveIndex(i) == Do(Gives(removeIndex(value, i)))
Clear == Do(clear(value))

Build ==
    \/ \E x \in Leaves : Assign(x)
    \/ \E x \in Parts : AppendValue(x)
    \/ \E x \in Parts, name \in Names : SetMember(name, x)
    \/ \E x \in Parts, i \in Indexes : SetIndex(i, x)
    \/ \E name \in Names : RemoveMember(name)
    \/ \E n \in Indexes : Resize(n) \/ RemoveIndex(n)
    \/ Clear

Writers == {"fast", "styled", "built"}

TextOf(writer, v) ==
    CASE writer = "fast"   -> FastText(v)
      [] writer = "styled" -> StyledText(v)
      [] OTHER             -> BuiltText(v)

WriteDoc(writer) ==
    /\ Building
    /\ doc' = TextOf(writer, value) /\ ended' = TRUE
    /\ source' = writer
    /\ UNCHANGED << value, ops, threw, room, current, nodes, mode, skipTo,
                    successful, errors >>

(* A document from elsewhere; its tokens come when the reader asks.        *)
Open(start) ==
    /\ Building /\ ops = 0
    /\ source' = "elsewhere"
    /\ doc' = start /\ room' = TokenBound
    /\ UNCHANGED << value, ops, threw, ended, current, nodes, mode, skipTo,
                    successful, errors >>

Asked == /\ source = "elsewhere" /\ ~Readable
         /\ mode \notin {"idle", "return", "parsed", "overflow"}

More(token) ==
    /\ Asked
    /\ room > (IF errors = 0 THEN 0 ELSE TokenBound - ErrorBound)
    /\ doc' = Append(doc, token) /\ room' = room - 1
    /\ UNCHANGED << value, ops, threw, source, ended, current, nodes, mode,
                    skipTo, successful, errors >>

End ==
    /\ Asked
    /\ ended' = TRUE
    /\ UNCHANGED << dvars, doc, current, nodes, mode, skipTo, successful,
                    errors >>

ParseDoc == source # "none" /\ Parse /\ UNCHANGED dvars
ReadDoc == Read /\ UNCHANGED dvars

Next ==
    \/ Build \/ End
    \/ \E start \in Starts : Open(start)
    \/ \E writer \in Writers : WriteDoc(writer)
    \/ \E token \in Alphabet : More(token)
    \/ ParseDoc \/ ReadDoc

Spec == DocInit /\ [][Next]_vars

-----------------------------------------------------------------------------
(* The grammar of JSON, as a reference for the reader: the set of values a *)
(* sequence of tokens denotes, of which there is at most one.              *)

Within(text, i, j) == SubSeq(text, i, j)
Commas(text) == {i \in 1 .. Len(text) : text[i][1] = ","}

Meaning(token) ==
    CASE token[1] = "number" ->
             {d.v : d \in {e \in {decodeNumber(token[2])} : e.ok}}
      [] token[1] = "string" ->
             {<< "string", d.s >> :
                  d \in {e \in {decodeString(token[2])} : e.ok}}
      [] token[1] \in {"true", "false"} -> {<< "bool", token[1] = "true" >>}
      [] token[1] = "null" -> {Null}
      [] OTHER -> {}

RECURSIVE Denotes(_), Elements(_), Members(_)

Between(text, open, close) ==
    Len(text) >= 2 /\ text[1][1] = open /\ text[Len(text)][1] = close

Denotes(text) ==
    LET inner == Within(text, 2, Len(text) - 1)
    IN  CASE Len(text) = 1 -> Meaning(text[1])
          [] Between(text, "[", "]") ->
                 {<< "array", [i \in 0 .. Len(l) - 1 |-> l[i + 1]] >> :
                      l \in IF inner = << >> THEN {<< >>}
                            ELSE Elements(inner)}
          [] Between(text, "{", "}") ->
                 {<< "object", m >> : m \in IF inner = << >> THEN {<< >>}
                                            ELSE Members(inner)}
          [] OTHER -> {}

Elements(text) ==
    {<< v >> : v \in Denotes(text)} \cup
    UNION {{<< v >> \o l : v \in Denotes(Within(text, 1, i - 1)),
                           l \in Elements(Within(text, i + 1, Len(text)))} :
               i \in Commas(text)}

(* The later of two members of one name counts.                            *)
Member(text) ==
    IF Len(text) < 3 \/ text[1][1] # "string" \/ text[2][1] # ":" THEN {}
    ELSE {[name \in {s[2]} |-> v] :
              s \in Meaning(text[1]), v \in Denotes(Within(text, 3, Len(text)))}

Members(text) ==
    Member(text) \cup
    UNION {{[n \in DOMAIN later \cup DOMAIN m |->
                 IF n \in DOMAIN later THEN later[n] ELSE m[n]] :
                m \in Member(Within(text, 1, i - 1)),
                later \in Members(Within(text, i + 1, Len(text)))} :
               i \in Commas(text)}

-----------------------------------------------------------------------------
(* What the reader does otherwise than the grammar says, as conditions on  *)
(* the document.                                                           *)

Text(n) == SelectSeq(SubSeq(doc, 1, n), LAMBDA t : t[1] # "comment")

(* {"":1,} - an empty name makes the object look empty again.              *)
EmptyName(text) == \E i \in 1 .. Len(text) - 1 :
                       text[i] = << "string", << >> >> /\ text[i + 1][1] = ":"

(* {"a":1/**/?"b":2} - a comment after a member, and no comma.             *)
NoComma(n) == \E i \in 2 .. n - 1 :
                  /\ doc[i][1] = "comment"
                  /\ doc[i + 1][1] \notin {"comment", ",", "}"}
                  /\ \E j \in 1 .. i - 1 :
                         /\ doc[j][1] \notin {"comment", "{", "[", ":", ","}
                         /\ \A k \in j + 1 .. i : doc[k][1] = "comment"

(* [ /**/ ] and {"a" /**/ :1} - a comment that is not expected.            *)
BadComment == \E i \in 1 .. Len(doc) - 1 :
                  /\ doc[i][1] = "comment"
                  /\ doc[i + 1][1] \in {"comment", "]", ":"}

(* What parse promises of a document: it succeeds with the value the       *)
(* document's first tokens denote, or fails with exactly one error while   *)
(* no first tokens of it denote a value, whatever was thrown away while    *)
(* recovering (Reader::readValue to recoverFromError).  The three          *)
(* exceptions are the code's.                                              *)
ReadsJson ==
    mode = "parsed" =>
        /\ errors = (IF successful THEN 0 ELSE 1)
        /\ successful => \/ Denotes(Text(current)) = {root}
                         \/ EmptyName(Text(current))
                         \/ NoComma(current)
        /\ ~successful => \/ \A n \in 0 .. Len(doc) : Denotes(Text(n)) = {}
                          \/ BadComment

-----------------------------------------------------------------------------
(* What comes back when a value is written and read: every integer with    *)
(* the type its size has, holes as nulls, a NaN as null; and of the names  *)
(* StyledWriter cuts at a NUL the last one counts.                         *)
NameBack(writer, name) == IF writer = "styled" THEN c_str(name) ELSE name

RECURSIVE Back(_, _), Holds(_, _)
Back(writer, v) ==
    CASE type_(v) \in {"int", "uint"} ->
             << IF value_(v) <= MaxInt THEN "int" ELSE "uint", value_(v) >>
      [] type_(v) = "real" /\ value_(v) = NaN -> Null
      [] type_(v) = "array" ->
             << "array", [i \in 0 .. size(v) - 1 |->
                             Back(writer, getIndex(v, i))] >>
      [] type_(v) = "object" ->
             LET names == Keys(v)
                 last(n) == CHOOSE i \in 1 .. Len(names) :
                                /\ NameBack(writer, names[i]) = n
                                /\ \A j \in i + 1 .. Len(names) :
                                       NameBack(writer, names[j]) # n
             IN  << "object", [n \in {NameBack(writer, names[i]) :
                                          i \in 1 .. Len(names)} |->
                                  Back(writer, value_(v)[names[last(n)]])] >>
      [] OTHER -> v

Holds(v, x) ==
    IF isContainer(v) THEN \E k \in DOMAIN value_(v) : Holds(value_(v)[k], x)
    ELSE type_(v) = type_(x) /\ value_(v) = value_(x)

(* A string of U+E000 to U+FFFF or of U+40000 and up: utf8ToCodepoint      *)
(* takes the one for surrogates and shifts the other's plane too far.      *)
Lossy(v) ==
    type_(v) = "string" /\ \E i \in 1 .. Len(value_(v)) :
                               value_(v)[i] \in {238, 239} \cup 241 .. 247

(* What any of the three writers prints of a value, Reader reads back as   *)
(* that value (test_json, StyledWriter::write, Reader::parse), except that *)
(* an infinity, printed as 1e+9999, makes the whole document unreadable,   *)
(* and that some strings come back as others.                              *)
RoundTrip ==
    mode = "parsed" /\ source \in Writers =>
        IF \E x \in {Infinity, -Infinity} : Holds(value, << "real", x >>)
        THEN ~successful
        ELSE LET back == Back(source, value)
             IN  /\ successful
                 /\ \/ Equal(root, back) /\ compare(root, back) = 0
                    \/ Lossy(value)

-----------------------------------------------------------------------------
(* What Agrees says of the conversions holds of every value built.         *)
ConversionsAgree == Agrees(value)

(* While values are built an array is the list of its size() elements, and *)
(* append, resize and removeIndex do to the list what they do to an array  *)
(* without holes, but for the holes Appended, ResizedTo and RemovedAt name *)
(* (Value::append, resize, removeIndex).                                   *)
ArrayIsAList ==
    [][IsArray(value) =>
         /\ \A x \in Parts :
                AppendValue(x) => Appended(value, x, value')
         /\ \A n \in Indexes :
                Resize(n) => ResizedTo(value, n, threw', value')
         /\ \A i \in Indexes :
                RemoveIndex(i) => RemovedAt(value, i, value')]_vars
=============================================================================
